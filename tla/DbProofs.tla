-------------------------------- MODULE DbProofs --------------------------------
(*****************************************************************************)
(* Proofs about the event store for any number of threads, events and hashes. *)
(* The first two parts are about one lifetime of the process, under every    *)
(* interleaving.                                                             *)
(*                                                                           *)
(* TypeOK is not inductive: which registers hold a number or an event        *)
(* depends on where a thread is.  RegisterOK says so, and RegisterOwned that *)
(* the numbers in the registers belong to the hashes they stand for.  Inv is *)
(* the inductive invariant.                                                  *)
(*                                                                           *)
(* The second part is about the index: what a query finds matches its        *)
(* filter, and an event is only removed for its author.  The databases are   *)
(* written one key at a time and read without a lock, so no key says that    *)
(* its event is stored, nor that it still is.  What a key does say for good  *)
(* is whose number it holds: a Time has the number of an event with that     *)
(* created_at (Dated), and the condition it is under, with the number of its *)
(* hash, is one of that event's (Indexed).                                   *)
(*                                                                           *)
(* The third part is about ids that are deleted or replaced, when events are *)
(* added one at a time: across crashes, and beside the expiration task.      *)
(*****************************************************************************)
EXTENDS DbProperties, TLAPS

Removing == {"remove", "remove_status", "remove_keys", "remove_event"}

\* The thread has read the event it removes.
HasRemoved(r) == r.pc \in {"remove_status", "remove_keys", "remove_event"}

\* The thread has the number of the event it adds.
HasNumber(r) == r.event # None /\ r.pc \notin {"idle", "author", "claim"}

TagAt(r) == r.event.tags[r.tag]

\* The hash whose number is looked up.
Sought(r) ==
    CASE r.pc = "author" -> r.event.pubkey
      [] r.pc = "slot_author" -> Goal(r).pubkey
      [] OTHER -> Head(r.todo)[2].hash

RegisterOK(r) ==
    /\ r.pc \notin Removing \cup {"idle"} => r.event \in Events
    /\ r.pc \in Removing \cup {"check_author"} => r.victim \in Ns
    /\ HasRemoved(r) => r.removed \in Events
    /\ r.pc \in {"claim", "insert_key"} => r.ref \in Ns
    /\ HasNumber(r) => r.n \in Ns /\ r.author \in Ns
    /\ r.pc = "tags" => r.tag # 0
    /\ r.pc = "slot_author" /\ r.event.kind = EVENT_DELETION =>
           /\ r.tag \in DOMAIN r.event.tags
           /\ TagAt(r).value # None /\ TagAt(r).value.type = "address"
    /\ r.pc = "set_requested" =>
           /\ r.tag \in DOMAIN r.event.tags /\ r.victim \in Ns
           /\ TagAt(r).value # None /\ TagAt(r).value.type = "hex32"

RegisterOwned(r, own) ==
    /\ HasNumber(r) => own[r.n] = r.event.id
    /\ r.pc = "set_requested" => own[r.victim] = TagAt(r).value.hash
    /\ HasRemoved(r) => own[r.victim] = r.removed.id

RegistersOK == \A p \in Procs : RegisterOK(proc[p])

RegistersOwned == \A p \in Procs : RegisterOwned(proc[p], owner)

Inv == TypeOK /\ RegistersOK /\ NumbersOwned /\ RegistersOwned

-------------------------------------------------------------------------------
(* The data.                                                                 *)

\* The hashes of an event are in Hashes, None is no hash and no event.
LEMMA EventHashes ==
    /\ None \notin Hashes /\ None \notin Events
    /\ \A e \in Events :
           /\ e.id \in Hashes /\ e.pubkey \in Hashes
           /\ \A i \in DOMAIN e.tags : e.tags[i].value # None =>
                 /\ e.tags[i].value.type = "hex32" => e.tags[i].value.hash \in Hashes
                 /\ e.tags[i].value.type = "address" => e.tags[i].value.pubkey \in Hashes
  <1> SUFFICES ASSUME NEW e \in Events
               PROVE  /\ e.id \in Hashes /\ e.pubkey \in Hashes
                      /\ \A i \in DOMAIN e.tags : e.tags[i].value # None =>
                           /\ e.tags[i].value.type = "hex32" => e.tags[i].value.hash \in Hashes
                           /\ e.tags[i].value.type = "address" =>
                                 e.tags[i].value.pubkey \in Hashes
    BY DbAssumption
  <1>1. HashesOf(e) \subseteq Hashes
    BY DbAssumption
  <1> QED
    BY <1>1 DEF HashesOf

\* The indices of an event's tags are 1..Len(tags).
LEMMA EventTags == \A e \in Events : DOMAIN e.tags = 1..Len(e.tags) /\ Len(e.tags) \in Nat
  <1> SUFFICES ASSUME NEW e \in Events
               PROVE  DOMAIN e.tags = 1..Len(e.tags) /\ Len(e.tags) \in Nat
    OBVIOUS
  <1>1. e.tags \in Seq(Range(e.tags))
    BY DbAssumption
  <1> QED
    BY <1>1

-------------------------------------------------------------------------------
(* The registers.                                                            *)

\* The registers of an idle thread meet the invariant, whoever owns numbers.
LEMMA IdleOK == /\ Idle \in Registers /\ RegisterOK(Idle)
                /\ \A own : RegisterOwned(Idle, own)
  BY EventHashes DEF Registers, Labels, Idle, Status, RegisterOK, RegisterOwned,
     Removing, HasNumber, HasRemoved

\* Resume keeps what add_event needs to go on.
LEMMA ResumeOK ==
    ASSUME NEW r \in Registers, NEW own, RegisterOK(r), RegisterOwned(r, own),
           r.event # None => HasNumber(r)
    PROVE  /\ Resume(r) \in Registers /\ RegisterOK(Resume(r))
           /\ RegisterOwned(Resume(r), own)
  <1>1. CASE r.event = None
    BY <1>1, IdleOK DEF Resume
  <1>2. CASE r.event # None
    <2>1. /\ r.event \in Events /\ r.n \in Ns /\ r.author \in Ns /\ r.tag \in Nat
          /\ own[r.n] = r.event.id
      BY <1>2 DEF RegisterOK, RegisterOwned, Registers
    <2> DEFINE l == IF r.event.kind = EVENT_DELETION THEN "tags" ELSE "insert"
               k == IF r.event.kind = EVENT_DELETION THEN r.tag + 1 ELSE 0
               x == Resume(r)
    <2>2. x = [Idle EXCEPT !.pc = l, !.event = r.event, !.author = r.author, !.n = r.n,
                           !.tag = k]
      BY <1>2 DEF Resume
    <2>3. k \in Nat /\ l \in Labels /\ l \in {"tags", "insert"} /\ (l = "tags" => k # 0)
      BY <2>1 DEF Labels
    <2> HIDE DEF l, k, x
    <2>4. /\ x \in Registers /\ x.pc = l /\ x.tag = k
          /\ x.event = r.event /\ x.n = r.n /\ x.author = r.author
      BY <2>1, <2>2, <2>3, IdleOK DEF Registers
    <2>5. RegisterOK(x) /\ RegisterOwned(x, own)
      BY <2>1, <2>3, <2>4 DEF RegisterOK, RegisterOwned, HasNumber, HasRemoved, Removing
    <2> QED
      BY <2>4, <2>5 DEF x
  <1> QED BY <1>1, <1>2

\* A move of one thread, while no number changes its owner.
LEMMA Move ==
    ASSUME Inv, NEW p \in Procs, NEW r, Goto(p, r),
           r \in Registers, RegisterOK(r), RegisterOwned(r, owner'),
           \A n \in Ns : owner[n] # None => owner'[n] = owner[n]
    PROVE  proc' \in [Procs -> Registers] /\ RegistersOK' /\ RegistersOwned'
  <1>1. /\ proc \in [Procs -> Registers] /\ proc' \in [Procs -> Registers]
        /\ proc'[p] = r
        /\ \A q \in Procs : q # p => proc'[q] = proc[q]
    BY DEF Inv, TypeOK, Goto
  <1>2. RegistersOK'
    BY <1>1 DEF RegistersOK, Inv
  <1>3. ASSUME NEW q \in Procs, q # p
        PROVE  RegisterOwned(proc[q], owner')
    <2>1. RegisterOK(proc[q]) /\ RegisterOwned(proc[q], owner) /\ proc[q] \in Registers
      BY <1>1 DEF Inv, RegistersOK, RegistersOwned
    <2>2. HasNumber(proc[q]) => proc[q].n \in Ns /\ proc[q].event \in Events
      BY <2>1 DEF RegisterOK, HasNumber, Registers
    <2>3. HasNumber(proc[q]) => owner'[proc[q].n] = proc[q].event.id
      BY <2>1, <2>2, EventHashes DEF RegisterOwned
    <2>4. proc[q].pc = "set_requested" => owner'[proc[q].victim] = TagAt(proc[q]).value.hash
      <3> SUFFICES ASSUME proc[q].pc = "set_requested"
                   PROVE  owner'[proc[q].victim] = TagAt(proc[q]).value.hash
        OBVIOUS
      <3>1. proc[q].event \in Events /\ proc[q].victim \in Ns
        BY <2>1 DEF RegisterOK, Removing
      <3>2. TagAt(proc[q]).value.hash \in Hashes
        BY <2>1, <3>1, EventHashes DEF RegisterOK, TagAt
      <3> QED
        BY <2>1, <3>1, <3>2, EventHashes DEF RegisterOwned
    <2>5. HasRemoved(proc[q]) => owner'[proc[q].victim] = proc[q].removed.id
      <3> SUFFICES ASSUME HasRemoved(proc[q])
                   PROVE  owner'[proc[q].victim] = proc[q].removed.id
        OBVIOUS
      <3>1. proc[q].removed \in Events /\ proc[q].victim \in Ns
        BY <2>1 DEF RegisterOK, Removing, HasRemoved
      <3> QED
        BY <2>1, <3>1, EventHashes DEF RegisterOwned
    <2> QED
      BY <2>3, <2>4, <2>5 DEF RegisterOwned
  <1>4. RegistersOwned'
    BY <1>1, <1>3 DEF RegistersOwned
  <1> QED
    BY <1>1, <1>2, <1>4

-------------------------------------------------------------------------------
(* The databases.                                                            *)

Extended == \A n \in Ns : owner[n] # None => owner'[n] = owner[n]

\* Numbers stay owned when new entries and events have numbers of their hashes.
LEMMA Numbers ==
    ASSUME Inv, Extended,
           \A n \in Ns : owner'[n] # None => n < n_count',
           \A h \in Hashes : \/ hash_to_n'[h] = hash_to_n[h]
                             \/ owner'[hash_to_n'[h].n] = h,
           \A n \in Ns : \/ n_to_event'[n] = n_to_event[n]
                         \/ n_to_event'[n] = None
                         \/ owner'[n] = n_to_event'[n].id
    PROVE  NumbersOwned'
  <1>1. ASSUME NEW h \in Hashes, hash_to_n'[h] # None
        PROVE  owner'[hash_to_n'[h].n] = h
    <2>1. CASE hash_to_n'[h] = hash_to_n[h]
      <3>1. owner[hash_to_n[h].n] = h
        BY <1>1, <2>1 DEF Inv, NumbersOwned
      <3>2. hash_to_n[h].n \in Ns
        BY <1>1, <2>1 DEF Inv, TypeOK, Entries
      <3> QED
        BY <2>1, <3>1, <3>2, EventHashes DEF Extended
    <2> QED
      BY <1>1, <2>1
  <1>2. ASSUME NEW n \in Ns, n_to_event'[n] # None
        PROVE  owner'[n] = n_to_event'[n].id
    <2>1. CASE n_to_event'[n] = n_to_event[n]
      <3>1. owner[n] = n_to_event[n].id
        BY <1>2, <2>1 DEF Inv, NumbersOwned
      <3>2. n_to_event[n] \in Events
        BY <1>2, <2>1 DEF Inv, TypeOK
      <3> QED
        BY <2>1, <3>1, <3>2, EventHashes DEF Extended
    <2> QED
      BY <1>2, <2>1
  <1> QED
    BY <1>1, <1>2 DEF NumbersOwned

\* Counter::next hands out a number that nobody had.
LEMMA Allocated ==
    ASSUME Inv, NEW h \in Hashes, Allocate(h)
    PROVE  /\ n_count \in Ns /\ n_count' \in 1..(MaxN + 1)
           /\ owner' \in [Ns -> Hashes \cup {None}] /\ owner'[n_count] = h
           /\ Extended
           /\ \A n \in Ns : owner'[n] # None => n < n_count'
  <1>1. n_count \in Ns /\ n_count' = n_count + 1 /\ MaxN \in Nat
    BY DbAssumption DEF Allocate
  <1>2. owner \in [Ns -> Hashes \cup {None}] /\ owner' = [owner EXCEPT ![n_count] = h]
    BY DEF Allocate, Inv, TypeOK
  <1>3. \A n \in Ns : owner[n] # None => n < n_count
    BY DEF Inv, NumbersOwned
  <1> QED
    BY <1>1, <1>2, <1>3 DEF Ns, Extended

\* A thread that only reads.
LEMMA Reads ==
    ASSUME Inv, NEW p \in Procs, NEW r, Goto(p, r),
           r \in Registers, RegisterOK(r), RegisterOwned(r, owner),
           UNCHANGED <<n_count, db, book, owner>>
    PROVE  Inv'
  <1>1. proc' \in [Procs -> Registers] /\ RegistersOK' /\ RegistersOwned'
    BY Move
  <1>2. TypeOK'
    BY <1>1 DEF Inv, TypeOK, db, book
  <1>3. NumbersOwned'
    BY DEF Inv, NumbersOwned, db
  <1> QED
    BY <1>1, <1>2, <1>3 DEF Inv

\* A thread that puts the entry of a hash, with a number of the hash.
LEMMA Puts ==
    ASSUME Inv, NEW p \in Procs, NEW r, Goto(p, r),
           r \in Registers, RegisterOK(r), RegisterOwned(r, owner'),
           NEW h \in Hashes, NEW entry \in Entries, SetEntry(h, entry),
           owner'[entry.n] = h, Extended, owner' \in [Ns -> Hashes \cup {None}],
           n_count' \in 1..(MaxN + 1), \A n \in Ns : owner'[n] # None => n < n_count',
           UNCHANGED <<n_to_event, conditions, time, book>>
    PROVE  Inv'
  <1>1. proc' \in [Procs -> Registers] /\ RegistersOK' /\ RegistersOwned'
    BY Move DEF Extended
  <1>2. TypeOK'
    BY <1>1 DEF Inv, TypeOK, book, SetEntry
  <1>3. NumbersOwned'
    <2>1. \A g \in Hashes : hash_to_n'[g] = hash_to_n[g] \/ owner'[hash_to_n'[g].n] = g
      BY DEF SetEntry, Inv, TypeOK
    <2> QED
      BY <2>1, Numbers
  <1> QED
    BY <1>1, <1>2, <1>3 DEF Inv

\* A thread that takes a number for a hash and puts nothing yet.
LEMMA Takes ==
    ASSUME Inv, NEW p \in Procs, NEW r, Goto(p, r),
           r \in Registers, RegisterOK(r), RegisterOwned(r, owner'),
           NEW h \in Hashes, Allocate(h), UNCHANGED <<db, book>>
    PROVE  Inv'
  <1>1. /\ n_count' \in 1..(MaxN + 1) /\ owner' \in [Ns -> Hashes \cup {None}]
        /\ Extended /\ \A n \in Ns : owner'[n] # None => n < n_count'
    BY Allocated
  <1>2. proc' \in [Procs -> Registers] /\ RegistersOK' /\ RegistersOwned'
    BY <1>1, Move DEF Extended
  <1>3. TypeOK'
    BY <1>1, <1>2 DEF Inv, TypeOK, db, book
  <1>4. NumbersOwned'
    BY <1>1, Numbers DEF db
  <1> QED
    BY <1>2, <1>3, <1>4 DEF Inv

-------------------------------------------------------------------------------
(* The actions.                                                              *)

LEMMA EntryOK ==
    ASSUME NEW n \in Ns, NEW status \in Status, NEW by \in SUBSET Ns
    PROVE  Entry(n, status, by) \in Entries /\ Entry(n, status, by).n = n
  BY DEF Entry, Entries

\* The registers of the thread that takes a step.
LEMMA Registered ==
    ASSUME Inv, NEW p \in Procs
    PROVE  /\ proc[p] \in Registers /\ RegisterOK(proc[p]) /\ RegisterOwned(proc[p], owner)
           /\ proc[p].event \in Events \cup {None}
  BY DEF Inv, TypeOK, RegistersOK, RegistersOwned, Registers

LEMMA GetOrCreateOK ==
    ASSUME Inv, NEW p \in Procs, NEW h \in Hashes,
           NEW next \in {"claim", "search_tag", "insert_key"}, GetOrCreate(p, h, next),
           proc[p].pc \in {"author", "slot_author", "insert_keys"},
           next = "claim" \/ HasNumber(proc[p]),
           UNCHANGED <<n_to_event, conditions, time, book>>
    PROVE  Inv'
  <1> DEFINE r == proc[p]
  <1>1. r \in Registers /\ RegisterOK(r) /\ RegisterOwned(r, owner)
    BY Registered
  <1>2. r.event \in Events /\ (HasNumber(r) => owner[r.n] = r.event.id /\ r.n \in Ns)
    BY <1>1 DEF RegisterOK, RegisterOwned, Removing, HasNumber
  <1>3. ASSUME NEW n \in Ns, NEW x, x = [r EXCEPT !.pc = next, !.ref = n, !.miss = FALSE],
               NEW own, HasNumber(r) => own[r.n] = r.event.id
        PROVE  x \in Registers /\ RegisterOK(x) /\ RegisterOwned(x, own)
    <2>1. /\ x \in Registers /\ x.pc = next /\ x.ref = n /\ x.event = r.event /\ x.n = r.n
          /\ x.author = r.author
      BY <1>1, <1>3 DEF Registers, Labels
    <2> QED
      BY <1>1, <1>2, <1>3, <2>1 DEF RegisterOK, RegisterOwned, HasNumber, HasRemoved, Removing
  <1>4. CASE ~r.miss /\ hash_to_n[h] # None
    <2>1. hash_to_n[h].n \in Ns
      BY <1>4 DEF Inv, TypeOK, Entries
    <2> DEFINE x == [r EXCEPT !.pc = next, !.ref = hash_to_n[h].n]
    <2>2. x = [r EXCEPT !.pc = next, !.ref = hash_to_n[h].n, !.miss = FALSE]
      BY <1>1, <1>4 DEF Registers
    <2>3. Goto(p, x) /\ UNCHANGED <<n_count, db, book, owner>>
      BY <1>4 DEF GetOrCreate, db
    <2> HIDE DEF x
    <2>4. x \in Registers /\ RegisterOK(x) /\ RegisterOwned(x, owner)
      BY <1>2, <1>3, <2>1, <2>2
    <2> QED
      BY <2>3, <2>4, Reads
  <1>5. CASE ~r.miss /\ hash_to_n[h] = None
    <2> DEFINE x == [r EXCEPT !.miss = TRUE]
    <2>1. Goto(p, x) /\ UNCHANGED <<n_count, db, book, owner>>
      BY <1>5 DEF GetOrCreate, db
    <2>2. x \in Registers
      BY <1>1 DEF Registers
    <2>3. RegisterOK(x) /\ RegisterOwned(x, owner)
      BY <1>1 DEF Registers, RegisterOK, RegisterOwned, HasNumber, HasRemoved, Removing, TagAt
    <2> QED
      BY <2>1, <2>2, <2>3, Reads
  <1>6. CASE r.miss
    <2>1. Allocate(h) /\ SetEntry(h, Entry(n_count, "Unknown", {}))
          /\ Goto(p, [r EXCEPT !.pc = next, !.ref = n_count, !.miss = FALSE])
      BY <1>6 DEF GetOrCreate
    <2>2. /\ n_count \in Ns /\ n_count' \in 1..(MaxN + 1)
          /\ owner' \in [Ns -> Hashes \cup {None}] /\ owner'[n_count] = h
          /\ Extended /\ \A n \in Ns : owner'[n] # None => n < n_count'
      BY <2>1, Allocated
    <2>3. HasNumber(r) => owner'[r.n] = r.event.id
      BY <1>2, <2>2, EventHashes DEF Extended
    <2> DEFINE x == [r EXCEPT !.pc = next, !.ref = n_count, !.miss = FALSE]
    <2>4. x \in Registers /\ RegisterOK(x) /\ RegisterOwned(x, owner')
      BY <1>3, <2>2, <2>3
    <2>5. /\ Entry(n_count, "Unknown", {}) \in Entries
          /\ Entry(n_count, "Unknown", {}).n = n_count
      BY <2>2, EntryOK DEF Status
    <2> HIDE DEF x
    <2> QED
      BY <2>1, <2>2, <2>4, <2>5, Puts DEF x
  <1> QED
    BY <1>4, <1>5, <1>6

LEMMA StartAddOK ==
    ASSUME Inv, NEW p \in Connections, NEW e \in Events, StartAdd(p, e)
    PROVE  Inv'
  <1> DEFINE x == [Idle EXCEPT !.pc = "author", !.event = e]
  <1>1. /\ x \in Registers /\ RegisterOK(x) /\ RegisterOwned(x, owner)
    BY IdleOK, EventHashes DEF Idle, Registers, Labels, RegisterOK, RegisterOwned,
       HasNumber, HasRemoved, Removing
  <1>2. p \in Procs /\ Goto(p, x) /\ UNCHANGED <<n_count, db, book, owner>>
    BY DEF StartAdd, Procs
  <1> QED
    BY <1>1, <1>2, Reads

LEMMA StartExpireOK ==
    ASSUME Inv, NEW e \in Events, NEW n \in Ns, StartExpire(e, n)
    PROVE  Inv'
  <1> DEFINE x == [Idle EXCEPT !.pc = "remove", !.victim = n, !.status = "Unknown"]
  <1>1. x \in Registers /\ RegisterOK(x) /\ RegisterOwned(x, owner)
    BY IdleOK, EventHashes DEF Idle, Registers, Labels, Status, RegisterOK, RegisterOwned,
       HasNumber, HasRemoved, Removing
  <1>2. Expirer \in Procs /\ Goto(Expirer, x) /\ UNCHANGED <<n_count, db, owner>>
    BY DEF StartExpire, Procs
  <1>3. proc' \in [Procs -> Registers] /\ RegistersOK' /\ RegistersOwned'
    <2> HIDE DEF x
    <2> QED BY <1>1, <1>2, Move
  <1>4. TypeOK'
    BY <1>2, <1>3 DEF StartExpire, Inv, TypeOK, db
  <1>5. NumbersOwned'
    BY <1>2 DEF Inv, NumbersOwned, db
  <1> QED
    BY <1>3, <1>4, <1>5 DEF Inv

LEMMA GetAuthorOK == ASSUME Inv, NEW p \in Procs, GetAuthor(p) PROVE Inv'
  <1>1. proc[p].event \in Events
    BY Registered DEF GetAuthor, RegisterOK, Removing
  <1>2. proc[p].event.pubkey \in Hashes
    BY <1>1, EventHashes
  <1> QED
    BY <1>2, GetOrCreateOK DEF GetAuthor

LEMMA ClaimOK == ASSUME Inv, NEW p \in Procs, Claim(p) PROVE Inv'
  <1> DEFINE r == proc[p]
             entry == hash_to_n[r.event.id]
  <1>1. /\ r \in Registers /\ RegisterOK(r) /\ r.pc = "claim"
        /\ r.event \in Events /\ r.event # None /\ r.event.id \in Hashes /\ r.ref \in Ns
    BY Registered, EventHashes DEF Claim, RegisterOK, Removing
  <1>2. ASSUME NEW x, NEW n \in Ns, NEW own, own[n] = r.event.id,
               NEW l \in {"set_have", "set_deleted"},
               x = [r EXCEPT !.pc = l, !.author = r.ref, !.n = n]
        PROVE  x \in Registers /\ RegisterOK(x) /\ RegisterOwned(x, own)
    <2>1. /\ x \in Registers /\ x.pc = l /\ x.event = r.event /\ x.n = n
          /\ x.author = r.ref
      BY <1>1, <1>2 DEF Registers, Labels
    <2> QED
      BY <1>1, <1>2, <2>1 DEF RegisterOK, RegisterOwned, HasNumber, HasRemoved, Removing
  <1>3. CASE entry = None
    <2> DEFINE x == [r EXCEPT !.pc = "set_have", !.author = r.ref, !.n = n_count]
    <2>1. Allocate(r.event.id) /\ Goto(p, x) /\ UNCHANGED <<db, book>>
      BY <1>3 DEF Claim
    <2>2. n_count \in Ns /\ owner'[n_count] = r.event.id
      BY <1>1, <2>1, Allocated
    <2>3. x \in Registers /\ RegisterOK(x) /\ RegisterOwned(x, owner')
      BY <1>2, <2>2
    <2> HIDE DEF x
    <2> QED
      BY <1>1, <2>1, <2>3, Takes
  <1>4. CASE entry # None /\ Undecided(entry)
    <2> DEFINE l == IF r.ref \in entry.by THEN "set_deleted" ELSE "set_have"
               x == [r EXCEPT !.pc = l, !.author = r.ref, !.n = entry.n]
    <2>1. Goto(p, x) /\ UNCHANGED <<n_count, db, book, owner>>
      BY <1>4 DEF Claim
    <2>2. entry.n \in Ns /\ owner[entry.n] = r.event.id
      BY <1>1, <1>4 DEF Inv, TypeOK, Entries, NumbersOwned
    <2>3. l \in {"set_have", "set_deleted"}
      OBVIOUS
    <2> HIDE DEF l
    <2>4. x \in Registers /\ RegisterOK(x) /\ RegisterOwned(x, owner)
      BY <1>2, <2>2, <2>3
    <2> HIDE DEF x
    <2> QED
      BY <2>1, <2>4, Reads
  <1>5. CASE entry # None /\ ~Undecided(entry)
    <2>1. Goto(p, Idle) /\ UNCHANGED <<n_count, db, book, owner>>
      BY <1>5 DEF Claim
    <2> QED
      BY <2>1, IdleOK, Reads
  <1> QED
    BY <1>3, <1>4, <1>5

\* A thread past Claim has an event of its own and the number of that event.
LEMMA Numbered ==
    ASSUME Inv, NEW p \in Procs, HasNumber(proc[p])
    PROVE  /\ proc[p].event \in Events /\ proc[p].event # None
           /\ proc[p].event.id \in Hashes /\ proc[p].event.pubkey \in Hashes
           /\ proc[p].n \in Ns /\ proc[p].author \in Ns
           /\ owner[proc[p].n] = proc[p].event.id
  BY Registered, EventHashes DEF RegisterOK, RegisterOwned, HasNumber

\* Registers with the same event and numbers, at a label that asks for no more.
LEMMA Onwards ==
    ASSUME NEW r \in Registers, NEW x \in Registers, NEW own,
           RegisterOK(r), RegisterOwned(r, own), HasNumber(r), r.event \in Events,
           x.event = r.event, x.n = r.n, x.author = r.author,
           x.pc \in {"search_author", "search_kind", "scan", "tags", "insert", "insert_keys"},
           x.pc = "tags" => x.tag # 0
    PROVE  RegisterOK(x) /\ RegisterOwned(x, own)
  BY DEF RegisterOK, RegisterOwned, HasNumber, HasRemoved, Removing

LEMMA SetDeletedOK == ASSUME Inv, NEW p \in Procs, SetDeleted(p) PROVE Inv'
  <1> DEFINE r == proc[p]
             entry == Entry(r.n, "Deleted", {})
  <1>1. HasNumber(r)
    BY Registered, EventHashes DEF SetDeleted, HasNumber, RegisterOK, Removing
  <1>2. r.event.id \in Hashes /\ r.n \in Ns /\ owner[r.n] = r.event.id
    BY <1>1, Numbered
  <1>3. entry \in Entries /\ entry.n = r.n
    BY <1>2, EntryOK DEF Status
  <1>4. /\ SetEntry(r.event.id, entry) /\ Goto(p, Idle)
        /\ UNCHANGED <<n_count, n_to_event, conditions, time, book, owner>>
    BY DEF SetDeleted
  <1>5. /\ owner \in [Ns -> Hashes \cup {None}] /\ n_count \in 1..(MaxN + 1)
        /\ \A n \in Ns : owner[n] # None => n < n_count
    BY DEF Inv, TypeOK, NumbersOwned
  <1> HIDE DEF entry, r
  <1> QED
    BY <1>2, <1>3, <1>4, <1>5, IdleOK, Puts DEF Extended

LEMMA SetHaveOK == ASSUME Inv, NEW p \in Procs, SetHave(p) PROVE Inv'
  <1> DEFINE r == proc[p]
             e == r.event
             entry == Entry(r.n, "Have", {})
             l == CASE IsReplaceable(e.kind) -> "search_author"
                    [] IsAddressable(e.kind) /\ FirstDValue(e) # None -> "slot_author"
                    [] e.kind = EVENT_DELETION -> "tags"
                    [] OTHER -> "insert"
             k == IF e.kind = EVENT_DELETION THEN 1 ELSE 0
             x == [r EXCEPT !.pc = l, !.tag = k]
  <1>1. r \in Registers /\ RegisterOK(r) /\ RegisterOwned(r, owner) /\ HasNumber(r)
    BY Registered, EventHashes DEF SetHave, HasNumber, RegisterOK, Removing
  <1>2. /\ e \in Events /\ e # None /\ e.id \in Hashes
        /\ r.n \in Ns /\ owner[r.n] = e.id
    BY <1>1, Numbered
  <1>3. entry \in Entries /\ entry.n = r.n
    BY <1>2, EntryOK DEF Status
  <1>4. /\ SetEntry(e.id, entry) /\ Goto(p, x)
        /\ UNCHANGED <<n_count, n_to_event, conditions, time, book, owner>>
    BY DEF SetHave
  <1>5. /\ owner \in [Ns -> Hashes \cup {None}] /\ n_count \in 1..(MaxN + 1)
        /\ \A n \in Ns : owner[n] # None => n < n_count
    BY DEF Inv, TypeOK, NumbersOwned
  <1>6. /\ l \in {"search_author", "slot_author", "tags", "insert"}
        /\ l = "tags" => e.kind = EVENT_DELETION
        /\ l = "slot_author" => e.kind # EVENT_DELETION
    <2>1. e.kind = EVENT_DELETION => ~IsReplaceable(e.kind) /\ ~IsAddressable(e.kind)
      BY DEF IsReplaceable, IsAddressable, EVENT_DELETION
    <2> QED
      BY <2>1
  <1>7. /\ x \in Registers /\ x.pc = l /\ x.event = e /\ x.n = r.n /\ x.author = r.author
        /\ l = "tags" => x.tag # 0
    <2>1. k \in Nat /\ l \in Labels /\ (l = "tags" => k # 0)
      BY <1>6 DEF Labels
    <2> HIDE DEF l, k
    <2> QED
      BY <1>1, <2>1 DEF Registers
  <1> HIDE DEF l, k
  <1> HIDE DEF x
  <1>8. RegisterOK(x) /\ RegisterOwned(x, owner)
    BY <1>1, <1>2, <1>6, <1>7 DEF RegisterOK, RegisterOwned, HasNumber, HasRemoved, Removing
  <1> HIDE DEF entry, r
  <1> QED
    BY <1>2, <1>3, <1>4, <1>5, <1>7, <1>8, Puts DEF Extended

LEMMA SlotAuthorOK == ASSUME Inv, NEW p \in Procs, SlotAuthor(p) PROVE Inv'
  <1> DEFINE r == proc[p]
  <1>1. r.pc = "slot_author" /\ RegisterOK(r) /\ HasNumber(r) /\ r.event \in Events
    BY Registered, EventHashes DEF SlotAuthor, HasNumber, RegisterOK, Removing
  <1>2. Goal(r).pubkey \in Hashes
    BY <1>1, EventHashes DEF Goal, Address, RegisterOK, TagAt
  <1> QED
    BY <1>1, <1>2, GetOrCreateOK DEF SlotAuthor

\* The Times of a key are Times.
LEMMA HitsOK == Inv => \A key : Hits(key) \in SUBSET Times
  BY DEF Inv, TypeOK, Hits

LEMMA SearchTagOK == ASSUME Inv, NEW p \in Procs, SearchTag(p) PROVE Inv'
  <1> DEFINE r == proc[p]
             key == CompactNow(<<"d", Goal(r).d>>)
             x == [r EXCEPT !.pc = "search_author", !.cand = Hits(key)]
  <1>1. /\ r \in Registers /\ RegisterOK(r) /\ RegisterOwned(r, owner)
        /\ HasNumber(r) /\ r.event \in Events
    BY Registered, EventHashes DEF SearchTag, HasNumber, RegisterOK, Removing
  <1>2. /\ Goto(p, IF key = None THEN Resume(r) ELSE x)
        /\ UNCHANGED <<n_count, db, book, owner>>
    BY DEF SearchTag
  <1> HIDE DEF key
  <1>3. /\ x \in Registers /\ x.pc = "search_author" /\ x.event = r.event /\ x.n = r.n
        /\ x.author = r.author
    BY <1>1, HitsOK DEF Registers, Labels
  <1> HIDE DEF x, r
  <1>4. RegisterOK(x) /\ RegisterOwned(x, owner)
    BY <1>1, <1>3, Onwards
  <1>5. Resume(r) \in Registers /\ RegisterOK(Resume(r)) /\ RegisterOwned(Resume(r), owner)
    BY <1>1, ResumeOK
  <1> QED
    BY <1>2, <1>3, <1>4, <1>5, Reads

LEMMA SearchAuthorOK == ASSUME Inv, NEW p \in Procs, SearchAuthor(p) PROVE Inv'
  <1> DEFINE r == proc[p]
             hits == Hits(Compact(Author(Goal(r).pubkey), r.ref))
             cand == IF Goal(r).d = None THEN hits ELSE r.cand \cap hits
             x == [r EXCEPT !.pc = "search_kind", !.cand = cand]
  <1>1. /\ r \in Registers /\ RegisterOK(r) /\ RegisterOwned(r, owner)
        /\ HasNumber(r) /\ r.event \in Events
    BY Registered, EventHashes DEF SearchAuthor, HasNumber, RegisterOK, Removing
  <1>2. Goto(p, x) /\ UNCHANGED <<n_count, db, book, owner>>
    BY <1>1 DEF SearchAuthor, Registers
  <1>3. cand \in SUBSET Times
    BY <1>1, HitsOK DEF Registers
  <1> HIDE DEF cand
  <1>4. /\ x \in Registers /\ x.pc = "search_kind" /\ x.event = r.event /\ x.n = r.n
        /\ x.author = r.author
    BY <1>1, <1>3 DEF Registers, Labels
  <1> HIDE DEF x, r
  <1>5. RegisterOK(x) /\ RegisterOwned(x, owner)
    BY <1>1, <1>4, Onwards
  <1> QED
    BY <1>2, <1>4, <1>5, Reads

LEMMA SearchKindOK == ASSUME Inv, NEW p \in Procs, SearchKind(p) PROVE Inv'
  <1> DEFINE r == proc[p]
             cand == r.cand \cap Hits(Kind(Goal(r).kind))
             x == [r EXCEPT !.pc = "scan", !.cand = cand]
  <1>1. /\ r \in Registers /\ RegisterOK(r) /\ RegisterOwned(r, owner)
        /\ HasNumber(r) /\ r.event \in Events
    BY Registered, EventHashes DEF SearchKind, HasNumber, RegisterOK, Removing
  <1>2. Goto(p, x) /\ UNCHANGED <<n_count, db, book, owner>>
    BY <1>1 DEF SearchKind, Registers
  <1>3. cand \in SUBSET Times
    BY <1>1, HitsOK DEF Registers
  <1> HIDE DEF cand
  <1>4. /\ x \in Registers /\ x.pc = "scan" /\ x.event = r.event /\ x.n = r.n
        /\ x.author = r.author
    BY <1>1, <1>3 DEF Registers, Labels
  <1> HIDE DEF x, r
  <1>5. RegisterOK(x) /\ RegisterOwned(x, owner)
    BY <1>1, <1>4, Onwards
  <1> QED
    BY <1>2, <1>4, <1>5, Reads

\* A thread that is about to remove an event, or to check whether it may.
LEMMA ToRemove ==
    ASSUME NEW r \in Registers, NEW x \in Registers, NEW own,
           RegisterOK(r), RegisterOwned(r, own), HasNumber(r), r.event \in Events,
           x.event = r.event, x.n = r.n, x.author = r.author,
           x.pc \in {"remove", "check_author"}, x.victim \in Ns
    PROVE  RegisterOK(x) /\ RegisterOwned(x, own)
  BY DEF RegisterOK, RegisterOwned, HasNumber, HasRemoved, Removing

LEMMA ScanOK == ASSUME Inv, NEW p \in Procs, Scan(p) PROVE Inv'
  <1> DEFINE r == proc[p]
  <1>1. /\ r \in Registers /\ RegisterOK(r) /\ RegisterOwned(r, owner) /\ r.pc = "scan"
        /\ HasNumber(r) /\ r.event \in Events /\ r.cand \in SUBSET Times
    BY Registered, EventHashes DEF Scan, HasNumber, RegisterOK, Removing, Registers
  <1>2. Resume(r) \in Registers /\ RegisterOK(Resume(r)) /\ RegisterOwned(Resume(r), owner)
    BY <1>1, ResumeOK
  <1>3. UNCHANGED <<n_count, db, book, owner>>
    BY DEF Scan
  <1>4. CASE Goto(p, Resume(r))
    BY <1>2, <1>3, <1>4, Reads
  <1>5. CASE Goto(p, Idle)
    BY <1>3, <1>5, IdleOK, Reads
  <1>6. ASSUME NEW t \in r.cand, Goto(p, Skip(r, t))
        PROVE  Inv'
    <2> DEFINE x == Skip(r, t)
    <2>1. /\ x \in Registers /\ x.pc = "scan" /\ x.event = r.event /\ x.n = r.n
          /\ x.author = r.author
      BY <1>1 DEF Skip, Registers
    <2> HIDE DEF x
    <2>2. RegisterOK(x) /\ RegisterOwned(x, owner)
      BY <1>1, <2>1, Onwards
    <2> QED
      BY <1>3, <1>6, <2>1, <2>2, Reads DEF x
  <1>7. ASSUME NEW t \in r.cand,
               Goto(p, [r EXCEPT !.pc = "remove", !.victim = t[2],
                                 !.status = "Outdated", !.cand = {}])
        PROVE  Inv'
    <2> DEFINE x == [r EXCEPT !.pc = "remove", !.victim = t[2],
                              !.status = "Outdated", !.cand = {}]
    <2>1. t[2] \in Ns
      BY <1>1 DEF Times
    <2>2. /\ x \in Registers /\ x.pc = "remove" /\ x.event = r.event /\ x.n = r.n
          /\ x.author = r.author /\ x.victim = t[2]
      BY <1>1, <2>1 DEF Registers, Labels, Status
    <2> HIDE DEF x
    <2>3. RegisterOK(x) /\ RegisterOwned(x, owner)
      BY <1>1, <2>1, <2>2, ToRemove
    <2> QED
      BY <1>3, <1>7, <2>2, <2>3, Reads DEF x
  <1>8. \/ Goto(p, Resume(r)) \/ Goto(p, Idle)
        \/ \E t \in r.cand :
              \/ Goto(p, Skip(r, t))
              \/ Goto(p, [r EXCEPT !.pc = "remove", !.victim = t[2],
                                   !.status = "Outdated", !.cand = {}])
    BY DEF Scan
  <1> QED
    BY <1>4, <1>5, <1>6, <1>7, <1>8

LEMMA TagStepOK == ASSUME Inv, NEW p \in Procs, TagStep(p) PROVE Inv'
  <1> DEFINE r == proc[p]
             value == TagAt(r).value
             entry == hash_to_n[value.hash]
             isE == TagAt(r).name = "e" /\ value # None /\ value.type = "hex32"
             isA == TagAt(r).name = "a" /\ value # None /\ value.type = "address"
  <1>1. /\ r \in Registers /\ RegisterOK(r) /\ RegisterOwned(r, owner) /\ r.pc = "tags"
        /\ HasNumber(r) /\ r.event \in Events /\ r.tag \in Nat /\ r.tag # 0
        /\ r.author \in Ns
    BY Registered, EventHashes DEF TagStep, HasNumber, RegisterOK, Removing, Registers
  <1>2. r.tag <= Len(r.event.tags) => r.tag \in DOMAIN r.event.tags
    BY <1>1, EventTags
  <1>3. Resume(r) \in Registers /\ RegisterOK(Resume(r)) /\ RegisterOwned(Resume(r), owner)
    BY <1>1, ResumeOK
  <1>t. /\ \/ /\ r.tag > Len(r.event.tags)
              /\ Goto(p, [r EXCEPT !.pc = "insert", !.tag = 0])
              /\ UNCHANGED <<n_count, owner>>
           \/ /\ r.tag <= Len(r.event.tags) /\ isE
              /\ \/ /\ entry = None
                    /\ Allocate(value.hash)
                    /\ Goto(p, [r EXCEPT !.pc = "set_requested", !.victim = n_count,
                                         !.by = {r.author}])
                 \/ /\ entry # None
                    /\ \/ Goto(p, [r EXCEPT !.pc = "set_requested", !.victim = entry.n,
                                            !.by = Requested(entry, r.author)])
                       \/ Goto(p, [r EXCEPT !.pc = "check_author", !.victim = entry.n])
                       \/ Goto(p, Resume(r))
                    /\ UNCHANGED <<n_count, owner>>
           \/ /\ r.tag <= Len(r.event.tags) /\ ~isE
              /\ \/ isA /\ Goto(p, [r EXCEPT !.pc = "slot_author"])
                 \/ Goto(p, Resume(r))
              /\ UNCHANGED <<n_count, owner>>
        /\ UNCHANGED <<db, book>>
    BY DEF TagStep, TagAt
  <1>n. Len(r.event.tags) \in Nat
    BY <1>1, EventTags
  <1>4. CASE r.tag > Len(r.event.tags)
    <2> DEFINE x == [r EXCEPT !.pc = "insert", !.tag = 0]
    <2>1. Goto(p, x) /\ UNCHANGED <<n_count, db, book, owner>>
      BY <1>1, <1>4, <1>t, <1>n
    <2>2. /\ x \in Registers /\ x.pc = "insert" /\ x.event = r.event /\ x.n = r.n
          /\ x.author = r.author
      BY <1>1 DEF Registers, Labels
    <2> HIDE DEF x
    <2>3. RegisterOK(x) /\ RegisterOwned(x, owner)
      BY <1>1, <2>2, Onwards
    <2> QED
      BY <2>1, <2>2, <2>3, Reads
  <1>5. ASSUME r.tag \in DOMAIN r.event.tags, isE
        PROVE  value.hash \in Hashes
    BY <1>1, <1>5, EventHashes DEF TagAt
  <1>6. ASSUME r.tag \in DOMAIN r.event.tags, isE, NEW n \in Ns, NEW by \in SUBSET Ns, NEW own,
               own[r.n] = r.event.id, own[n] = value.hash, NEW x,
               x = [r EXCEPT !.pc = "set_requested", !.victim = n, !.by = by]
        PROVE  x \in Registers /\ RegisterOK(x) /\ RegisterOwned(x, own)
    <2>1. /\ x \in Registers /\ x.pc = "set_requested" /\ x.event = r.event /\ x.n = r.n
          /\ x.author = r.author /\ x.victim = n /\ x.tag = r.tag
      BY <1>1, <1>6 DEF Registers, Labels
    <2> QED
      BY <1>1, <1>6, <2>1 DEF RegisterOK, RegisterOwned, HasNumber, HasRemoved, Removing, TagAt
  <1>7. CASE r.tag <= Len(r.event.tags) /\ isE /\ entry = None
    <2> DEFINE x == [r EXCEPT !.pc = "set_requested", !.victim = n_count, !.by = {r.author}]
    <2>1. Allocate(value.hash) /\ Goto(p, x) /\ UNCHANGED <<db, book>>
      BY <1>1, <1>7, <1>t, <1>n
    <2>2. value.hash \in Hashes
      BY <1>2, <1>5, <1>7
    <2>3. n_count \in Ns /\ owner'[n_count] = value.hash /\ Extended
      BY <2>1, <2>2, Allocated
    <2>4. owner'[r.n] = r.event.id
      BY <1>1, <2>3, Numbered, EventHashes DEF Extended
    <2>5. x \in Registers /\ RegisterOK(x) /\ RegisterOwned(x, owner')
      BY <1>1, <1>2, <1>6, <1>7, <2>3, <2>4
    <2> HIDE DEF x
    <2> QED
      BY <2>1, <2>2, <2>5, Takes
  <1>8. CASE r.tag <= Len(r.event.tags) /\ isE /\ entry # None
    <2> DEFINE x == [r EXCEPT !.pc = "set_requested", !.victim = entry.n,
                              !.by = Requested(entry, r.author)]
               y == [r EXCEPT !.pc = "check_author", !.victim = entry.n]
    <2>1. /\ Goto(p, x) \/ Goto(p, y) \/ Goto(p, Resume(r))
          /\ UNCHANGED <<n_count, db, book, owner>>
      BY <1>1, <1>8, <1>t, <1>n
    <2>2. value.hash \in Hashes
      BY <1>2, <1>5, <1>8
    <2>3. /\ entry.n \in Ns /\ owner[entry.n] = value.hash
          /\ Requested(entry, r.author) \in SUBSET Ns
      BY <1>1, <1>8, <2>2 DEF Inv, TypeOK, Entries, NumbersOwned, Requested
    <2>4. x \in Registers /\ RegisterOK(x) /\ RegisterOwned(x, owner)
      BY <1>1, <1>2, <1>6, <1>8, <2>3, Numbered
    <2>5. /\ y \in Registers /\ y.pc = "check_author" /\ y.event = r.event /\ y.n = r.n
          /\ y.author = r.author /\ y.victim = entry.n
      BY <1>1, <2>3 DEF Registers, Labels
    <2> HIDE DEF x, y
    <2>6. RegisterOK(y) /\ RegisterOwned(y, owner)
      BY <1>1, <2>3, <2>5, ToRemove
    <2> QED
      BY <1>3, <2>1, <2>4, <2>5, <2>6, Reads
  <1>9. CASE r.tag <= Len(r.event.tags) /\ ~isE
    <2> DEFINE x == [r EXCEPT !.pc = "slot_author"]
    <2>1. /\ (isA /\ Goto(p, x)) \/ Goto(p, Resume(r))
          /\ UNCHANGED <<n_count, db, book, owner>>
      BY <1>1, <1>9, <1>t, <1>n
    <2>2. /\ x \in Registers /\ x.pc = "slot_author" /\ x.event = r.event /\ x.n = r.n
          /\ x.author = r.author /\ x.tag = r.tag
      BY <1>1 DEF Registers, Labels
    <2> HIDE DEF x
    <2>3. ASSUME isA PROVE RegisterOK(x) /\ RegisterOwned(x, owner)
      BY <1>1, <1>2, <1>9, <2>2, <2>3
         DEF RegisterOK, RegisterOwned, HasNumber, HasRemoved, Removing, TagAt
    <2> QED
      BY <1>3, <2>1, <2>2, <2>3, Reads
  <1>10. r.tag > Len(r.event.tags) \/ r.tag <= Len(r.event.tags)
    BY <1>1, EventTags
  <1> QED
    BY <1>4, <1>7, <1>8, <1>9, <1>10

LEMMA SetRequestedOK == ASSUME Inv, NEW p \in Procs, SetRequested(p) PROVE Inv'
  <1> DEFINE r == proc[p]
             h == TagAt(r).value.hash
             entry == Entry(r.victim, "Unknown", r.by)
  <1>1. /\ r \in Registers /\ RegisterOK(r) /\ RegisterOwned(r, owner)
        /\ r.pc = "set_requested" /\ HasNumber(r) /\ r.event \in Events /\ r.by \in SUBSET Ns
    BY Registered, EventHashes DEF SetRequested, HasNumber, RegisterOK, Removing, Registers
  <1>2. h \in Hashes /\ r.victim \in Ns /\ owner[r.victim] = h
    BY <1>1, EventHashes DEF RegisterOK, RegisterOwned, TagAt
  <1>3. entry \in Entries /\ entry.n = r.victim
    BY <1>1, <1>2, EntryOK DEF Status
  <1>4. /\ SetEntry(h, entry) /\ Goto(p, Resume(r))
        /\ UNCHANGED <<n_count, n_to_event, conditions, time, book, owner>>
    BY DEF SetRequested, TagAt
  <1>5. /\ owner \in [Ns -> Hashes \cup {None}] /\ n_count \in 1..(MaxN + 1)
        /\ \A n \in Ns : owner[n] # None => n < n_count
    BY DEF Inv, TypeOK, NumbersOwned
  <1> HIDE DEF entry, h, r
  <1>6. Resume(r) \in Registers /\ RegisterOK(Resume(r)) /\ RegisterOwned(Resume(r), owner)
    BY <1>1, ResumeOK
  <1> QED
    BY <1>2, <1>3, <1>4, <1>5, <1>6, Puts DEF Extended

LEMMA CheckAuthorOK == ASSUME Inv, NEW p \in Procs, CheckAuthor(p) PROVE Inv'
  <1> DEFINE r == proc[p]
             x == [r EXCEPT !.pc = "remove", !.status = "Deleted"]
  <1>1. /\ r \in Registers /\ RegisterOK(r) /\ RegisterOwned(r, owner)
        /\ HasNumber(r) /\ r.event \in Events /\ r.victim \in Ns
    BY Registered, EventHashes DEF CheckAuthor, HasNumber, RegisterOK, Removing
  <1>2. Goto(p, x) \/ Goto(p, Resume(r))
    BY DEF CheckAuthor
  <1>3. UNCHANGED <<n_count, db, book, owner>>
    BY DEF CheckAuthor
  <1>4. /\ x \in Registers /\ x.pc = "remove" /\ x.event = r.event /\ x.n = r.n
        /\ x.author = r.author /\ x.victim \in Ns
    BY <1>1 DEF Registers, Labels, Status
  <1> HIDE DEF x, r
  <1>5. RegisterOK(x) /\ RegisterOwned(x, owner)
    BY <1>1, <1>4, ToRemove
  <1>6. Resume(r) \in Registers /\ RegisterOK(Resume(r)) /\ RegisterOwned(Resume(r), owner)
    BY <1>1, ResumeOK
  <1> QED
    BY <1>2, <1>3, <1>4, <1>5, <1>6, Reads

\* The registers of a thread that removes an event, at its next step.
LEMMA Removes ==
    ASSUME NEW r \in Registers, NEW x \in Registers, NEW own,
           RegisterOK(r), RegisterOwned(r, own), r.pc \in Removing,
           x.event = r.event, x.n = r.n, x.author = r.author, x.victim = r.victim,
           x.pc \in {"remove_status", "remove_keys", "remove_event"},
           x.removed \in Events, own[x.victim] = x.removed.id
    PROVE  RegisterOK(x) /\ RegisterOwned(x, own)
  BY DEF RegisterOK, RegisterOwned, HasNumber, HasRemoved, Removing

\* A thread past Remove holds an event and the number of that event.
LEMMA RemovedOwned ==
    ASSUME Inv, NEW p \in Procs, HasRemoved(proc[p])
    PROVE  /\ proc[p].removed \in Events /\ proc[p].removed.id \in Hashes
           /\ proc[p].victim \in Ns /\ owner[proc[p].victim] = proc[p].removed.id
           /\ proc[p].event # None => HasNumber(proc[p])
  BY Registered, EventHashes DEF RegisterOK, RegisterOwned, HasRemoved, HasNumber, Removing

LEMMA RemoveOK == ASSUME Inv, NEW p \in Procs, Remove(p) PROVE Inv'
  <1> DEFINE r == proc[p]
             e == n_to_event[r.victim]
             x == [r EXCEPT !.pc = "remove_status", !.removed = e, !.todo = Conditions(e)]
  <1>1. /\ r \in Registers /\ RegisterOK(r) /\ RegisterOwned(r, owner)
        /\ r.pc = "remove" /\ r.victim \in Ns
        /\ r.event # None => HasNumber(r)
    BY Registered DEF Remove, HasNumber, RegisterOK, Removing
  <1>2. UNCHANGED <<n_count, db, book, owner>>
    BY DEF Remove
  <1>3. CASE e = None
    <2>1. Goto(p, Resume(r))
      BY <1>3 DEF Remove
    <2>2. Resume(r) \in Registers /\ RegisterOK(Resume(r)) /\ RegisterOwned(Resume(r), owner)
      BY <1>1, ResumeOK
    <2> QED
      BY <1>2, <2>1, <2>2, Reads
  <1>4. CASE e # None
    <2>1. Goto(p, x)
      BY <1>4 DEF Remove
    <2>2. e \in Events /\ owner[r.victim] = e.id
      BY <1>1, <1>4 DEF Inv, TypeOK, NumbersOwned
    <2>3. Conditions(e) \in Seq(AllConditions)
      BY <2>2, DbAssumption
    <2> DEFINE cs == Conditions(e)
    <2> HIDE DEF e, cs
    <2>4. /\ x \in Registers /\ x.pc = "remove_status" /\ x.event = r.event /\ x.n = r.n
          /\ x.author = r.author /\ x.victim = r.victim /\ x.removed = e
      BY <1>1, <2>2, <2>3 DEF Registers, Labels
    <2> HIDE DEF x
    <2>5. RegisterOK(x) /\ RegisterOwned(x, owner)
      BY <1>1, <2>2, <2>4, Removes DEF Removing
    <2> QED
      BY <1>2, <2>1, <2>4, <2>5, Reads
  <1> QED
    BY <1>3, <1>4

LEMMA RemoveStatusOK == ASSUME Inv, NEW p \in Procs, RemoveStatus(p) PROVE Inv'
  <1> DEFINE r == proc[p]
             entry == Entry(r.victim, r.status, {})
             x == [r EXCEPT !.pc = "remove_keys"]
  <1>1. /\ r \in Registers /\ RegisterOK(r) /\ RegisterOwned(r, owner)
        /\ r.pc = "remove_status" /\ HasRemoved(r) /\ r.status \in Status
    BY Registered DEF RemoveStatus, HasRemoved, Registers
  <1>2. /\ r.removed \in Events /\ r.removed.id \in Hashes
        /\ r.victim \in Ns /\ owner[r.victim] = r.removed.id
    BY <1>1, RemovedOwned
  <1>3. entry \in Entries /\ entry.n = r.victim
    BY <1>1, <1>2, EntryOK
  <1>4. /\ SetEntry(r.removed.id, entry) /\ Goto(p, x)
        /\ UNCHANGED <<n_count, n_to_event, conditions, time, book, owner>>
    BY DEF RemoveStatus
  <1>5. /\ owner \in [Ns -> Hashes \cup {None}] /\ n_count \in 1..(MaxN + 1)
        /\ \A n \in Ns : owner[n] # None => n < n_count
    BY DEF Inv, TypeOK, NumbersOwned
  <1>6. /\ x \in Registers /\ x.pc = "remove_keys" /\ x.event = r.event /\ x.n = r.n
        /\ x.author = r.author /\ x.victim = r.victim /\ x.removed = r.removed
    BY <1>1 DEF Registers, Labels
  <1> HIDE DEF x, entry, r
  <1>7. RegisterOK(x) /\ RegisterOwned(x, owner)
    BY <1>1, <1>2, <1>6, Removes DEF Removing
  <1> QED
    BY <1>2, <1>3, <1>4, <1>5, <1>6, <1>7, Puts DEF Extended

\* A thread that changes the index.
LEMMA Indexes ==
    ASSUME Inv, NEW p \in Procs, NEW r, Goto(p, r),
           r \in Registers, RegisterOK(r), RegisterOwned(r, owner),
           conditions' \subseteq CompactConditions \X Times, time' \subseteq Times,
           UNCHANGED <<n_count, hash_to_n, n_to_event, book, owner>>
    PROVE  Inv'
  <1>1. proc' \in [Procs -> Registers] /\ RegistersOK' /\ RegistersOwned'
    BY Move
  <1>2. TypeOK'
    BY <1>1 DEF Inv, TypeOK, book
  <1>3. NumbersOwned'
    BY DEF Inv, NumbersOwned
  <1> QED
    BY <1>1, <1>2, <1>3 DEF Inv

LEMMA RemoveKeyOK == ASSUME Inv, NEW p \in Procs, RemoveKey(p) PROVE Inv'
  <1> DEFINE r == proc[p]
             x == [r EXCEPT !.todo = Tail(@)]
  <1>1. /\ r \in Registers /\ RegisterOK(r) /\ RegisterOwned(r, owner)
        /\ r.pc = "remove_keys" /\ HasRemoved(r) /\ r.todo # <<>>
        /\ r.todo \in Seq(AllConditions)
    BY Registered DEF RemoveKey, HasRemoved, Registers
  <1>2. /\ r.removed \in Events /\ owner[r.victim] = r.removed.id
    BY <1>1, RemovedOwned
  <1>3. /\ Goto(p, x) /\ conditions' \subseteq conditions
        /\ UNCHANGED <<n_count, hash_to_n, n_to_event, time, book, owner>>
    BY DEF RemoveKey
  <1>4. Tail(r.todo) \in Seq(AllConditions)
    BY <1>1
  <1>5. /\ x \in Registers /\ x.pc = "remove_keys" /\ x.event = r.event /\ x.n = r.n
        /\ x.author = r.author /\ x.victim = r.victim /\ x.removed = r.removed
    BY <1>1, <1>4 DEF Registers
  <1> HIDE DEF x, r
  <1>6. RegisterOK(x) /\ RegisterOwned(x, owner)
    BY <1>1, <1>2, <1>5, Removes DEF Removing
  <1>7. conditions' \subseteq CompactConditions \X Times /\ time' \subseteq Times
    BY <1>3 DEF Inv, TypeOK
  <1> QED
    BY <1>3, <1>5, <1>6, <1>7, Indexes

LEMMA RemoveTimeOK == ASSUME Inv, NEW p \in Procs, RemoveTime(p) PROVE Inv'
  <1> DEFINE r == proc[p]
             x == [r EXCEPT !.pc = "remove_event"]
  <1>1. /\ r \in Registers /\ RegisterOK(r) /\ RegisterOwned(r, owner)
        /\ r.pc = "remove_keys" /\ HasRemoved(r)
    BY Registered DEF RemoveTime, HasRemoved
  <1>2. /\ r.removed \in Events /\ owner[r.victim] = r.removed.id
    BY <1>1, RemovedOwned
  <1>3. /\ Goto(p, x) /\ time' \subseteq time
        /\ UNCHANGED <<n_count, hash_to_n, n_to_event, conditions, book, owner>>
    BY DEF RemoveTime
  <1>4. /\ x \in Registers /\ x.pc = "remove_event" /\ x.event = r.event /\ x.n = r.n
        /\ x.author = r.author /\ x.victim = r.victim /\ x.removed = r.removed
    BY <1>1 DEF Registers, Labels
  <1> HIDE DEF x, r
  <1>5. RegisterOK(x) /\ RegisterOwned(x, owner)
    BY <1>1, <1>2, <1>4, Removes DEF Removing
  <1>6. conditions' \subseteq CompactConditions \X Times /\ time' \subseteq Times
    BY <1>3 DEF Inv, TypeOK
  <1> QED
    BY <1>3, <1>4, <1>5, <1>6, Indexes

\* A thread that puts or deletes an event, under a number of its id.
LEMMA PutsEvent ==
    ASSUME Inv, NEW p \in Procs, NEW r, Goto(p, r),
           r \in Registers, RegisterOK(r), RegisterOwned(r, owner),
           NEW n \in Ns, NEW e \in Events \cup {None}, e # None => owner[n] = e.id,
           n_to_event' = [n_to_event EXCEPT ![n] = e],
           UNCHANGED <<n_count, hash_to_n, conditions, time, book, owner>>
    PROVE  Inv'
  <1>1. proc' \in [Procs -> Registers] /\ RegistersOK' /\ RegistersOwned'
    BY Move
  <1>2. TypeOK'
    BY <1>1 DEF Inv, TypeOK, book
  <1>3. NumbersOwned'
    BY DEF Inv, TypeOK, NumbersOwned
  <1> QED
    BY <1>1, <1>2, <1>3 DEF Inv

LEMMA RemoveEventOK == ASSUME Inv, NEW p \in Procs, RemoveEvent(p) PROVE Inv'
  <1> DEFINE r == proc[p]
  <1>1. /\ r \in Registers /\ RegisterOK(r) /\ RegisterOwned(r, owner) /\ HasRemoved(r)
    BY Registered DEF RemoveEvent, HasRemoved
  <1>2. r.victim \in Ns /\ (r.event # None => HasNumber(r))
    BY <1>1, RemovedOwned
  <1>3. Resume(r) \in Registers /\ RegisterOK(Resume(r)) /\ RegisterOwned(Resume(r), owner)
    BY <1>1, <1>2, ResumeOK
  <1>4. /\ Goto(p, Resume(r)) /\ n_to_event' = [n_to_event EXCEPT ![r.victim] = None]
        /\ UNCHANGED <<n_count, hash_to_n, conditions, time, book, owner>>
    BY DEF RemoveEvent
  <1> QED
    BY <1>2, <1>3, <1>4, PutsEvent

LEMMA InsertOK == ASSUME Inv, NEW p \in Procs, Insert(p) PROVE Inv'
  <1> DEFINE r == proc[p]
             cs == Conditions(r.event)
             x == [r EXCEPT !.pc = "insert_keys", !.todo = cs]
  <1>1. /\ r \in Registers /\ RegisterOK(r) /\ RegisterOwned(r, owner)
        /\ HasNumber(r) /\ r.event \in Events
    BY Registered, EventHashes DEF Insert, HasNumber, RegisterOK, Removing
  <1>2. r.n \in Ns /\ owner[r.n] = r.event.id
    BY <1>1, Numbered
  <1>3. cs \in Seq(AllConditions)
    BY <1>1, DbAssumption
  <1>4. /\ Goto(p, x) /\ n_to_event' = [n_to_event EXCEPT ![r.n] = r.event]
        /\ UNCHANGED <<n_count, hash_to_n, conditions, time, book, owner>>
    BY DEF Insert
  <1> HIDE DEF cs
  <1>5. /\ x \in Registers /\ x.pc = "insert_keys" /\ x.event = r.event /\ x.n = r.n
        /\ x.author = r.author
    BY <1>1, <1>3 DEF Registers, Labels
  <1> HIDE DEF x, r
  <1>6. RegisterOK(x) /\ RegisterOwned(x, owner)
    BY <1>1, <1>5, Onwards
  <1> QED
    BY <1>1, <1>2, <1>4, <1>5, <1>6, PutsEvent

LEMMA InsertRefOK == ASSUME Inv, NEW p \in Procs, InsertRef(p) PROVE Inv'
  <1> DEFINE r == proc[p]
  <1>1. /\ r \in Registers /\ r.pc = "insert_keys" /\ HasNumber(r)
        /\ r.todo \in Seq(AllConditions) /\ r.todo # <<>>
    BY Registered, EventHashes DEF InsertRef, HasNumber, RegisterOK, Removing, Registers
  <1>2. Head(r.todo) \in AllConditions
    BY <1>1
  <1>3. Head(r.todo)[2].hash \in Hashes
    BY <1>2, DbAssumption DEF InsertRef
  <1> QED
    BY <1>1, <1>3, GetOrCreateOK DEF InsertRef

LEMMA InsertKeyOK == ASSUME Inv, NEW p \in Procs, InsertKey(p) PROVE Inv'
  <1> DEFINE r == proc[p]
             x == [r EXCEPT !.pc = "insert_keys", !.todo = Tail(@)]
             key == Compact(Head(r.todo), r.ref)
             t == TimeOf(r.event, r.n)
  <1>1. /\ r \in Registers /\ RegisterOK(r) /\ RegisterOwned(r, owner)
        /\ HasNumber(r) /\ r.event \in Events
        /\ r.todo \in Seq(AllConditions) /\ r.todo # <<>>
        /\ r.pc = "insert_key" => r.ref \in Ns
        /\ r.pc # "insert_key" => ~HasHash(Head(r.todo))
    BY Registered, EventHashes DEF InsertKey, HasNumber, RegisterOK, Removing, Registers
  <1>2. r.n \in Ns /\ t \in Times
    BY <1>1, Numbered DEF Times, CreatedAts, TimeOf
  <1>3. Head(r.todo) \in AllConditions /\ Tail(r.todo) \in Seq(AllConditions)
    BY <1>1
  <1>4. key \in CompactConditions
    <2>1. CASE r.pc = "insert_key"
      BY <1>1, <1>3, <2>1 DEF CompactConditions
    <2>2. CASE r.pc # "insert_key"
      <3>1. key = Compact(Head(r.todo), r.n)
        BY <1>1, <2>2 DEF Compact
      <3> QED
        BY <1>2, <1>3, <3>1 DEF CompactConditions
    <2> QED
      BY <2>1, <2>2
  <1>5. /\ Goto(p, x) /\ conditions' = conditions \cup {<<key, t>>}
        /\ UNCHANGED <<n_count, hash_to_n, n_to_event, time, book, owner>>
    BY DEF InsertKey
  <1>6. /\ x \in Registers /\ x.pc = "insert_keys" /\ x.event = r.event /\ x.n = r.n
        /\ x.author = r.author
    BY <1>1, <1>3 DEF Registers, Labels
  <1> HIDE DEF x, key, t, r
  <1>7. RegisterOK(x) /\ RegisterOwned(x, owner)
    BY <1>1, <1>6, Onwards
  <1>8. conditions' \subseteq CompactConditions \X Times /\ time' \subseteq Times
    BY <1>2, <1>4, <1>5 DEF Inv, TypeOK
  <1> QED
    BY <1>5, <1>6, <1>7, <1>8, Indexes

LEMMA InsertTimeOK == ASSUME Inv, NEW p \in Procs, InsertTime(p) PROVE Inv'
  <1> DEFINE r == proc[p]
  <1>1. r.event \in Events /\ r.n \in Ns
    BY Registered, EventHashes DEF InsertTime, HasNumber, RegisterOK, Removing
  <1>2. TimeOf(r.event, r.n) \in Times /\ <<r.event, r.n>> \in Events \X Ns
    BY <1>1 DEF Times, CreatedAts, TimeOf
  <1>3. /\ Goto(p, Idle) /\ time' = time \cup {TimeOf(r.event, r.n)}
        /\ accepted' = accepted \cup {<<r.event, r.n>>}
        /\ expirations' \subseteq expirations \cup {<<r.event, r.n>>}
        /\ UNCHANGED <<n_count, hash_to_n, n_to_event, conditions, expired, owner>>
    BY DEF InsertTime, Armed
  <1>4. proc' \in [Procs -> Registers] /\ RegistersOK' /\ RegistersOwned'
    BY <1>3, IdleOK, Move
  <1>5. TypeOK'
    BY <1>2, <1>3, <1>4 DEF Inv, TypeOK
  <1>6. NumbersOwned'
    BY <1>3 DEF Inv, NumbersOwned
  <1> QED
    BY <1>4, <1>5, <1>6 DEF Inv

-------------------------------------------------------------------------------
(* The theorems.                                                             *)

\* The empty databases meet the invariant.
LEMMA InitOK == Init => Inv
  <1> SUFFICES ASSUME Init PROVE Inv
    OBVIOUS
  <1>1. 1 \in 1..(MaxN + 1)
    BY DbAssumption
  <1>2. TypeOK
    BY <1>1, IdleOK DEF Init, TypeOK
  <1>3. RegistersOK /\ RegistersOwned
    BY IdleOK DEF Init, RegistersOK, RegistersOwned
  <1>4. NumbersOwned
    BY DEF Init, NumbersOwned
  <1> QED
    BY <1>2, <1>3, <1>4 DEF Inv

\* Every step of a thread keeps it.
LEMMA StepOK == ASSUME Inv, NEW p \in Procs, Step(p) PROVE Inv'
  <1>1. CASE GetAuthor(p) \/ Claim(p) \/ SetDeleted(p) \/ SetHave(p)
    BY <1>1, GetAuthorOK, ClaimOK, SetDeletedOK, SetHaveOK
  <1>2. CASE SlotAuthor(p) \/ SearchTag(p) \/ SearchAuthor(p) \/ SearchKind(p) \/ Scan(p)
    BY <1>2, SlotAuthorOK, SearchTagOK, SearchAuthorOK, SearchKindOK, ScanOK
  <1>3. CASE TagStep(p) \/ SetRequested(p) \/ CheckAuthor(p)
    BY <1>3, TagStepOK, SetRequestedOK, CheckAuthorOK
  <1>4. CASE Remove(p) \/ RemoveStatus(p) \/ RemoveKey(p) \/ RemoveTime(p) \/ RemoveEvent(p)
    BY <1>4, RemoveOK, RemoveStatusOK, RemoveKeyOK, RemoveTimeOK, RemoveEventOK
  <1>5. CASE Insert(p) \/ InsertRef(p) \/ InsertKey(p) \/ InsertTime(p)
    BY <1>5, InsertOK, InsertRefOK, InsertKeyOK, InsertTimeOK
  <1> QED
    BY <1>1, <1>2, <1>3, <1>4, <1>5 DEF Step

\* So do the callers, and steps that leave the store alone.
LEMMA NextOK == Inv /\ [Next]_vars => Inv'
  <1> SUFFICES ASSUME Inv, [Next]_vars PROVE Inv'
    OBVIOUS
  <1>1. ASSUME NEW p \in Connections, NEW e \in Events, StartAdd(p, e) PROVE Inv'
    BY <1>1, StartAddOK
  <1>2. ASSUME NEW e \in Events, NEW n \in Ns, StartExpire(e, n) PROVE Inv'
    BY <1>2, StartExpireOK
  <1>3. ASSUME NEW p \in Procs, Step(p) PROVE Inv'
    BY <1>3, StepOK
  <1>4. CASE UNCHANGED vars
    BY <1>4 DEF vars, db, book, Inv, TypeOK, NumbersOwned, RegistersOK, RegistersOwned
  <1> QED
    BY <1>1, <1>2, <1>3, <1>4 DEF Next

\* Inv holds throughout one lifetime of the process.
LEMMA Invariance == Spec => []Inv
  <1>1. Init => Inv
    BY InitOK
  <1>2. Inv /\ [Next]_vars => Inv'
    BY NextOK
  <1> QED
    BY <1>1, <1>2, PTL DEF Spec

\* Whatever the threads of handle_event and the expiration task interleave, the
\* databases and the local variables of add_event and remove_event hold numbers,
\* events and statuses where the code takes them to.
THEOREM TypeCorrect == Spec => []TypeOK
  BY Invariance, PTL DEF Inv

\* Counter::next never gives one number to two hashes, and hash_to_n and
\* n_to_event only relate a hash or an event to a number given out for it,
\* although get_n_from_hash_or_create reads and puts in two calls.
THEOREM NumbersAreOwned == Spec => []NumbersOwned
  BY Invariance, PTL DEF Inv

\* A slot that holds an event only changes by being emptied, in remove_event.
LEMMA SlotEmptied ==
    ASSUME Inv, Next, NEW n \in Ns, n_to_event[n] # None, n_to_event'[n] # n_to_event[n]
    PROVE  /\ n_to_event'[n] = None
           /\ \E p \in Procs : RemoveEvent(p) /\ proc[p].victim = n
  <1>1. ASSUME NEW p \in Procs, Insert(p) PROVE n_to_event'[n] = n_to_event[n]
    <2> DEFINE r == proc[p]
    <2>1. HasNumber(r)
      BY <1>1, Registered, EventHashes DEF Insert, HasNumber, RegisterOK, Removing
    <2>2. r.event \in Events /\ r.n \in Ns /\ owner[r.n] = r.event.id
      BY <2>1, Numbered
    <2>3. n_to_event' = [n_to_event EXCEPT ![r.n] = r.event]
      BY <1>1 DEF Insert
    <2>4. ASSUME n_to_event[r.n] # None PROVE n_to_event[r.n] = r.event
      <3>1. n_to_event[r.n] \in Events /\ n_to_event[r.n].id = r.event.id
        BY <2>2, <2>4 DEF Inv, TypeOK, NumbersOwned
      <3> QED
        BY <2>2, <3>1, DbAssumption
    <2> HIDE DEF r
    <2> QED
      BY <2>2, <2>3, <2>4 DEF Inv, TypeOK
  <1>2. ASSUME NEW p \in Procs, RemoveEvent(p)
        PROVE  n_to_event'[n] = None /\ proc[p].victim = n
    BY <1>2 DEF RemoveEvent, Inv, TypeOK
  <1>3. ASSUME NEW p \in Procs, Step(p), ~Insert(p), ~RemoveEvent(p)
        PROVE  UNCHANGED n_to_event
    BY <1>3 DEF Step, db, GetAuthor, Claim, SetDeleted, SetHave, SlotAuthor, SearchTag,
       SearchAuthor, SearchKind, Scan, TagStep, SetRequested, CheckAuthor, Remove,
       RemoveStatus, RemoveKey, RemoveTime, InsertRef, InsertKey, InsertTime
  <1>4. ASSUME NEW p \in Connections, NEW e \in Events, StartAdd(p, e)
        PROVE  UNCHANGED n_to_event
    BY <1>4 DEF StartAdd, db
  <1>5. ASSUME NEW e \in Events, NEW m \in Ns, StartExpire(e, m)
        PROVE  UNCHANGED n_to_event
    BY <1>5 DEF StartExpire, db
  <1> QED
    BY <1>1, <1>2, <1>3, <1>4, <1>5 DEF Next

\* The put of n_to_event in add_event finds the slot empty, or holding the same
\* event: no interleaving makes one event take the place of another.
THEOREM NoOverwrite == Spec => NeverOverwritten
  <1> DEFINE Kept == \A n \in Ns : n_to_event[n] # None =>
                        n_to_event'[n] \in {n_to_event[n], None}
  <1>1. Inv /\ [Next]_vars => [Kept]_vars
    <2> SUFFICES ASSUME Inv, Next PROVE Kept
      OBVIOUS
    <2> QED
      BY SlotEmptied
  <1> QED
    BY <1>1, Invariance, PTL DEF Spec, NeverOverwritten

-------------------------------------------------------------------------------
(* The index.                                                                *)

\* What a number stands for, by the history of allocations.
Owns(n, h, own) == n \in Ns /\ h \in Hashes /\ own[n] = h

ByAuthor(n, pubkey, own) == \E e \in Events : Owns(n, e.id, own) /\ e.pubkey = pubkey

IsTimeOf(t, e, own) == t[1] = e.created_at /\ Owns(t[2], e.id, own)

IsKeyOf(key, c, own) ==
    IF HasHash(c) THEN \E m \in Ns : Owns(m, c[2].hash, own) /\ key = Compact(c, m)
    ELSE key = c

Dated == \A t \in time : \E e \in Events : IsTimeOf(t, e, owner)

Indexed ==
    \A k \in conditions : \E e \in Events :
        /\ IsTimeOf(k[2], e, owner)
        /\ \E c \in Range(Conditions(e)) : IsKeyOf(k[1], c, owner)

\* The deletion requests only name addresses of their own author.
OwnAddresses ==
    \A e \in Events : e.kind = EVENT_DELETION =>
        \A i \in DOMAIN e.tags :
            e.tags[i].name = "a" /\ e.tags[i].value # None /\ e.tags[i].value.type = "address"
                => e.tags[i].value.pubkey = e.pubkey

Searching == {"search_tag", "search_author", "search_kind", "scan"}

\* A search is for the address of the event, or for one that its tag names.
AtAddress(r) ==
    r.event.kind = EVENT_DELETION =>
        /\ r.tag \in DOMAIN r.event.tags /\ TagAt(r).name = "a"
        /\ TagAt(r).value # None /\ TagAt(r).value.type = "address"

\* What the registers of a thread say about the index, where they are used.
Traced(p, r, own) ==
    /\ r.event = None => r.pc = "idle" \/ p = Expirer
    /\ r.pc \in Searching \cup {"slot_author"} => AtAddress(r)
    /\ r.pc \in {"claim", "set_have"} => Owns(r.ref, r.event.pubkey, own)
    /\ r.pc \in {"search_tag", "search_author"} => Owns(r.ref, Goal(r).pubkey, own)
    /\ r.pc \in {"search_kind", "scan"} =>
           \A t \in r.cand : ByAuthor(t[2], Goal(r).pubkey, own)
    /\ r.pc \in Removing /\ r.event # None /\ OwnAddresses =>
           ByAuthor(r.victim, r.event.pubkey, own)
    /\ r.pc \in {"insert_keys", "insert_key"} =>
           Range(r.todo) \subseteq Range(Conditions(r.event))
    /\ r.pc = "insert_key" => r.todo # <<>> /\ Owns(r.ref, Head(r.todo)[2].hash, own)

Traces == \A p \in Procs : Traced(p, proc[p], owner)

IndexInv == Inv /\ Traces /\ Dated /\ Indexed
-------------------------------------------------------------------------------
(* What stays when one thread moves.                                         *)

LEMMA SameEvent == \A e, f \in Events : e.id = f.id => e = f
  BY DbAssumption

\* What a number stands for, it stands for until the process ends.
LEMMA StillOwned ==
    ASSUME Extended
    PROVE  /\ \A n, h : Owns(n, h, owner) => Owns(n, h, owner')
           /\ \A n, a : ByAuthor(n, a, owner) => ByAuthor(n, a, owner')
           /\ \A t, e : IsTimeOf(t, e, owner) => IsTimeOf(t, e, owner')
           /\ \A k, c : IsKeyOf(k, c, owner) => IsKeyOf(k, c, owner')
  <1>1. \A n, h : Owns(n, h, owner) => Owns(n, h, owner')
    BY EventHashes DEF Extended, Owns
  <1> QED
    BY <1>1 DEF ByAuthor, IsTimeOf, IsKeyOf

LEMMA StillTraced ==
    ASSUME Extended, NEW p \in Procs, NEW r, Traced(p, r, owner)
    PROVE  Traced(p, r, owner')
  BY StillOwned DEF Traced

\* The index with some of its keys taken out.
LEMMA StillIndexed ==
    ASSUME IndexInv, Extended
    PROVE  /\ time' \subseteq time => Dated'
           /\ conditions' \subseteq conditions => Indexed'
  BY StillOwned DEF IndexInv, Dated, Indexed

\* A step that keeps what is traced, and puts no key.
LEMMA Follows ==
    ASSUME IndexInv, Inv', Extended, NEW p \in Procs, NEW r, Goto(p, r),
           Traced(p, r, owner')
    PROVE  /\ Traces'
           /\ time' \subseteq time /\ conditions' \subseteq conditions => IndexInv'
  <1>1. Traces'
    <2>1. /\ proc'[p] = r /\ \A q \in Procs : q # p => proc'[q] = proc[q]
      BY DEF IndexInv, Inv, TypeOK, Goto
    <2>2. \A q \in Procs : Traced(q, proc[q], owner')
      BY StillTraced DEF IndexInv, Traces
    <2> QED
      BY <2>1, <2>2 DEF Traces
  <1> QED
    BY <1>1, StillIndexed DEF IndexInv

\* Where nothing is traced.
Calm == {"idle", "author", "set_deleted", "tags", "set_requested", "check_author", "insert"}

LEMMA CalmTraced ==
    ASSUME NEW p \in Procs, NEW r, NEW own, r.pc \in Calm,
           r.event = None => r.pc = "idle" \/ p = Expirer
    PROVE  Traced(p, r, own)
  BY DEF Traced, Calm, Searching, Removing

LEMMA IdleTraced == \A p \in Procs : \A own : Traced(p, Idle, own)
  <1>1. Idle.pc = "idle"
    BY DEF Idle
  <1> QED
    BY <1>1, CalmTraced DEF Calm

LEMMA ResumeTraced ==
    ASSUME NEW p \in Procs, NEW r \in Registers, NEW own
    PROVE  Traced(p, Resume(r), own)
  <1>1. CASE r.event = None
    BY <1>1, IdleTraced DEF Resume
  <1>2. CASE r.event # None
    <2> DEFINE x == Resume(r)
    <2>1. x.pc \in {"tags", "insert"} /\ x.event = r.event
      BY <1>2 DEF Resume, Idle
    <2> HIDE DEF x
    <2>2. Traced(p, x, own)
      BY <1>2, <2>1, CalmTraced DEF Calm
    <2> QED
      BY <2>2 DEF x
  <1> QED
    BY <1>1, <1>2

\* The registers of the thread that takes a step.
LEMMA Tracing ==
    ASSUME IndexInv, NEW p \in Procs
    PROVE  /\ Inv /\ proc[p] \in Registers /\ RegisterOK(proc[p])
           /\ Traced(p, proc[p], owner)
           /\ proc[p].pc \notin Removing \cup {"idle"} =>
                  proc[p].event \in Events /\ proc[p].event # None
  <1>1. Inv /\ Traced(p, proc[p], owner)
    BY DEF IndexInv, Traces
  <1> QED
    BY <1>1, Registered, EventHashes DEF RegisterOK

\* A search is for the same address as long as the event and the tag are.
LEMMA SameGoal ==
    ASSUME NEW r, NEW x, x.event = r.event, x.tag = r.tag
    PROVE  Goal(x) = Goal(r) /\ (AtAddress(x) <=> AtAddress(r))
  BY DEF Goal, AtAddress, TagAt
-------------------------------------------------------------------------------
(* add_event: the numbers of the author and of the event.                    *)

\* Getting or creating the number of a hash, which may take two steps.
LEMMA GetOrCreateTraced ==
    ASSUME IndexInv, Inv', Extended, NEW p \in Procs, NEW h \in Hashes,
           NEW next \in {"claim", "search_tag", "insert_key"}, GetOrCreate(p, h, next),
           proc[p].pc \in {"author", "slot_author", "insert_keys"},
           UNCHANGED <<conditions, time>>,
           \A x, own : /\ x.pc = next /\ x.event = proc[p].event /\ x.tag = proc[p].tag
                       /\ x.todo = proc[p].todo /\ Owns(x.ref, h, own)
                       => Traced(p, x, own)
    PROVE  IndexInv'
  <1> DEFINE r == proc[p]
  <1>1. r \in Registers /\ Traced(p, r, owner) /\ r.event # None
    BY Tracing DEF Removing
  <1>2. CASE ~r.miss /\ hash_to_n[h] # None
    <2>1. Owns(hash_to_n[h].n, h, owner) /\ owner' = owner
      BY <1>2 DEF IndexInv, Inv, TypeOK, NumbersOwned, Entries, Owns, GetOrCreate
    <2> DEFINE x == [r EXCEPT !.pc = next, !.ref = hash_to_n[h].n]
    <2>2. /\ x.pc = next /\ x.event = r.event /\ x.tag = r.tag /\ x.todo = r.todo
          /\ x.ref = hash_to_n[h].n
      BY <1>1 DEF Registers
    <2>3. Goto(p, x)
      BY <1>2 DEF GetOrCreate
    <2> HIDE DEF x
    <2>4. Traced(p, x, owner')
      BY <2>1, <2>2
    <2> QED
      BY <2>3, <2>4, Follows
  <1>3. CASE ~r.miss /\ hash_to_n[h] = None
    <2> DEFINE x == [r EXCEPT !.miss = TRUE]
    <2>1. Goto(p, x) /\ owner' = owner
      BY <1>3 DEF GetOrCreate
    <2>2. x.pc = r.pc /\ x.event = r.event /\ x.tag = r.tag /\ x.todo = r.todo
      BY <1>1 DEF Registers
    <2> HIDE DEF x
    <2>3. Traced(p, x, owner')
      BY <1>1, <2>1, <2>2, SameGoal DEF Traced, Searching, Removing
    <2> QED
      BY <2>1, <2>3, Follows
  <1>4. CASE r.miss
    <2>1. Allocate(h) /\ Goto(p, [r EXCEPT !.pc = next, !.ref = n_count, !.miss = FALSE])
      BY <1>4 DEF GetOrCreate
    <2>2. Owns(n_count, h, owner')
      <3>1. n_count \in Ns /\ owner'[n_count] = h
        BY <2>1, Allocated DEF IndexInv
      <3> QED
        BY <3>1 DEF Owns
    <2> DEFINE x == [r EXCEPT !.pc = next, !.ref = n_count, !.miss = FALSE]
    <2>3. x.pc = next /\ x.event = r.event /\ x.tag = r.tag /\ x.todo = r.todo /\ x.ref = n_count
      BY <1>1 DEF Registers
    <2> HIDE DEF x
    <2>4. Traced(p, x, owner')
      BY <2>2, <2>3
    <2> QED
      BY <2>1, <2>4, Follows DEF x
  <1> QED
    BY <1>2, <1>3, <1>4

LEMMA GetAuthorTraced ==
    ASSUME IndexInv, Inv', Extended, NEW p \in Procs, GetAuthor(p)
    PROVE  IndexInv'
  <1> DEFINE r == proc[p]
  <1>1. r.pc = "author" /\ r.event \in Events /\ r.event # None /\ r.event.pubkey \in Hashes
    BY Tracing, EventHashes DEF GetAuthor, Removing
  <1>2. ASSUME NEW x, NEW own, x.pc = "claim", x.event = r.event, Owns(x.ref, r.event.pubkey, own)
        PROVE  Traced(p, x, own)
    BY <1>1, <1>2 DEF Traced, Searching, Removing
  <1> QED
    BY <1>1, <1>2, GetOrCreateTraced DEF GetAuthor

LEMMA ClaimTraced ==
    ASSUME IndexInv, Inv', Extended, NEW p \in Procs, Claim(p)
    PROVE  IndexInv'
  <1> DEFINE r == proc[p]
  <1>1. /\ r \in Registers /\ r.pc = "claim" /\ r.event # None
        /\ Owns(r.ref, r.event.pubkey, owner')
    BY Tracing, StillOwned DEF Claim, Removing, Traced
  <1>2. ASSUME NEW l \in {"set_have", "set_deleted"}, NEW n,
               Goto(p, [r EXCEPT !.pc = l, !.author = r.ref, !.n = n])
        PROVE  Traces'
    <2> DEFINE x == [r EXCEPT !.pc = l, !.author = r.ref, !.n = n]
    <2>1. x.pc = l /\ x.event = r.event /\ x.ref = r.ref
      BY <1>1 DEF Registers
    <2> HIDE DEF x
    <2>2. Traced(p, x, owner')
      BY <1>1, <2>1 DEF Traced, Searching, Removing
    <2> QED
      BY <1>2, <2>2, Follows DEF x
  <1>3. Goto(p, Idle) => Traces'
    BY IdleTraced, Follows
  <1>4. \/ Goto(p, Idle)
        \/ \E l \in {"set_have", "set_deleted"} : \E n :
              Goto(p, [r EXCEPT !.pc = l, !.author = r.ref, !.n = n])
    BY DEF Claim
  <1>5. UNCHANGED <<conditions, time>>
    BY DEF Claim, db
  <1> QED
    BY <1>2, <1>3, <1>4, <1>5, StillIndexed DEF IndexInv

LEMMA SetHaveTraced ==
    ASSUME IndexInv, Inv', Extended, NEW p \in Procs, SetHave(p)
    PROVE  IndexInv'
  <1> DEFINE r == proc[p]
             e == r.event
             l == CASE IsReplaceable(e.kind) -> "search_author"
                    [] IsAddressable(e.kind) /\ FirstDValue(e) # None -> "slot_author"
                    [] e.kind = EVENT_DELETION -> "tags"
                    [] OTHER -> "insert"
             k == IF e.kind = EVENT_DELETION THEN 1 ELSE 0
             x == [r EXCEPT !.pc = l, !.tag = k]
  <1>1. /\ r \in Registers /\ r.pc = "set_have" /\ e \in Events /\ e # None
        /\ Owns(r.ref, e.pubkey, owner')
    BY Tracing, StillOwned DEF SetHave, Removing, Traced
  <1>2. Goto(p, x) /\ UNCHANGED <<conditions, time>>
    BY DEF SetHave
  <1>3. /\ l \in {"search_author", "slot_author", "tags", "insert"}
        /\ l \in {"search_author", "slot_author"} => e.kind # EVENT_DELETION
    <2>1. e.kind \in Nat
      BY <1>1, DbAssumption
    <2>2. ~IsReplaceable(EVENT_DELETION) /\ ~IsAddressable(EVENT_DELETION)
      BY DEF IsReplaceable, IsAddressable, EVENT_DELETION
    <2>3. \/ l = "search_author" /\ IsReplaceable(e.kind)
          \/ l = "slot_author" /\ IsAddressable(e.kind)
          \/ l = "tags" \/ l = "insert"
      OBVIOUS
    <2> QED
      BY <2>2, <2>3
  <1> HIDE DEF l, k
  <1>4. x.pc = l /\ x.event = e /\ x.ref = r.ref
    BY <1>1 DEF Registers
  <1> HIDE DEF x
  <1>5. l \in {"search_author", "slot_author"} => AtAddress(x) /\ Goal(x).pubkey = e.pubkey
    BY <1>3, <1>4 DEF AtAddress, Goal, Address
  <1>6. Traced(p, x, owner')
    BY <1>1, <1>3, <1>4, <1>5 DEF Traced, Searching, Removing
  <1> QED
    BY <1>2, <1>6, Follows
-------------------------------------------------------------------------------
(* The searches.                                                             *)

\* The two forms of a key.
LEMMA Keys ==
    /\ \A c, n : HasHash(c) => Compact(c, n) = <<KeyName(c[1]), [type |-> "n", n |-> n]>>
    /\ \A c, n : ~HasHash(c) /\ c[1] # SOH => Compact(c, n) = c
    /\ \A a, b, m, n : <<a, [type |-> "n", n |-> m]>> = <<b, [type |-> "n", n |-> n]>>
                           => a = b /\ m = n
    /\ \A a, b : a # NUL /\ b # NUL /\ KeyName(a) = KeyName(b) => a = b
  <1>1. \A m, n : [type |-> "n", n |-> m] = [type |-> "n", n |-> n] => m = n
    <2> TAKE m, n
    <2>1. [type |-> "n", n |-> m].n = m /\ [type |-> "n", n |-> n].n = n
      OBVIOUS
    <2> QED
      BY <2>1
  <1> QED
    BY <1>1 DEF Compact, KeyName

\* The conditions of an event, of which only its author is called so.
LEMMA EventConditions ==
    ASSUME NEW e \in Events, NEW c \in Range(Conditions(e))
    PROVE  IsPlain(c) /\ IsCondition(c) /\ (c[1] = "author" => HasHash(c) /\ c[2].hash = e.pubkey)
  <1>1. c \in AllConditions
    BY DEF AllConditions
  <1>2. HasHash(Author(e.pubkey)) /\ Author(e.pubkey)[2].hash = e.pubkey
    BY DEF HasHash, Author, Hex32
  <1> QED
    BY <1>1, <1>2, ConditionsAssumption DEF IsPlain

\* What is under the key of an author is by that author.
LEMMA AuthorHits ==
    ASSUME IndexInv, NEW pubkey, NEW n, Owns(n, pubkey, owner),
           NEW t \in Hits(Compact(Author(pubkey), n))
    PROVE  ByAuthor(t[2], pubkey, owner)
  <1> DEFINE key == Compact(Author(pubkey), n)
  <1>1. key = <<KeyName("author"), [type |-> "n", n |-> n]>>
    BY DEF Compact, Author, HasHash, Hex32
  <1>2. <<key, t>> \in conditions
    BY DEF Hits
  <1> HIDE DEF key
  <1>3. PICK e \in Events : /\ IsTimeOf(t, e, owner)
                            /\ \E c \in Range(Conditions(e)) : IsKeyOf(key, c, owner)
    <2>1. \E e \in Events : /\ IsTimeOf(<<key, t>>[2], e, owner)
                            /\ \E c \in Range(Conditions(e)) : IsKeyOf(<<key, t>>[1], c, owner)
      BY <1>2 DEF IndexInv, Indexed
    <2> QED
      BY <2>1
  <1>4. PICK c \in Range(Conditions(e)) : IsKeyOf(key, c, owner)
    BY <1>3
  <1>5. CASE HasHash(c)
    <2>1. PICK m \in Ns : Owns(m, c[2].hash, owner) /\ key = Compact(c, m)
      BY <1>4, <1>5 DEF IsKeyOf
    <2>2. KeyName(c[1]) = KeyName("author") /\ m = n
      BY <1>1, <1>5, <2>1, Keys
    <2>3. c[1] = "author"
      BY <2>2, EventConditions, Keys DEF IsPlain, NUL
    <2> QED
      BY <1>3, <2>1, <2>2, <2>3, EventConditions DEF Owns, ByAuthor, IsTimeOf
  <1>6. CASE ~HasHash(c)
    <2>1. c = <<KeyName("author"), [type |-> "n", n |-> n]>>
      BY <1>1, <1>4, <1>6 DEF IsKeyOf
    <2>2. c[1] = NUL
      BY <2>1 DEF KeyName
    <2> QED
      BY <2>2, EventConditions DEF IsPlain
  <1> QED
    BY <1>5, <1>6

LEMMA SlotAuthorTraced ==
    ASSUME IndexInv, Inv', Extended, NEW p \in Procs, SlotAuthor(p)
    PROVE  IndexInv'
  <1> DEFINE r == proc[p]
  <1>1. r.pc = "slot_author" /\ RegisterOK(r) /\ r.event \in Events /\ r.event # None /\ AtAddress(r)
    BY Tracing DEF SlotAuthor, Removing, Traced
  <1>2. Goal(r).pubkey \in Hashes
    BY <1>1, EventHashes DEF Goal, Address, RegisterOK, TagAt
  <1>3. ASSUME NEW x, NEW own, x.pc = "search_tag", x.event = r.event, x.tag = r.tag,
               Owns(x.ref, Goal(r).pubkey, own)
        PROVE  Traced(p, x, own)
    BY <1>1, <1>3, SameGoal DEF Traced, Searching, Removing
  <1> QED
    BY <1>1, <1>2, <1>3, GetOrCreateTraced DEF SlotAuthor

\* A search goes on for the same address.
LEMMA SearchTraced ==
    ASSUME IndexInv, NEW p \in Procs, proc[p].pc \in Searching, NEW x,
           x.event = proc[p].event, x.tag = proc[p].tag, x.pc \in {"search_author", "search_kind", "scan"},
           x.pc = "search_author" => Owns(x.ref, Goal(proc[p]).pubkey, owner),
           x.pc # "search_author" => \A t \in x.cand : ByAuthor(t[2], Goal(proc[p]).pubkey, owner)
    PROVE  Traced(p, x, owner)
  <1>1. AtAddress(proc[p]) /\ proc[p].event # None
    BY Tracing DEF Traced, Searching, Removing
  <1> QED
    BY <1>1, SameGoal DEF Traced, Searching, Removing

LEMMA SearchTagTraced ==
    ASSUME IndexInv, Inv', Extended, NEW p \in Procs, SearchTag(p)
    PROVE  IndexInv'
  <1> DEFINE r == proc[p]
             key == CompactNow(<<"d", Goal(r).d>>)
             x == [r EXCEPT !.pc = "search_author", !.cand = Hits(key)]
  <1>1. /\ r \in Registers /\ r.pc = "search_tag" /\ Owns(r.ref, Goal(r).pubkey, owner)
        /\ UNCHANGED <<owner, conditions, time>>
    BY Tracing DEF SearchTag, Traced, db
  <1>2. Goto(p, x) \/ Goto(p, Resume(r))
    BY DEF SearchTag
  <1>3. CASE Goto(p, Resume(r))
    BY <1>1, <1>3, ResumeTraced, Follows
  <1>4. CASE Goto(p, x)
    <2>1. x.pc = "search_author" /\ x.event = r.event /\ x.tag = r.tag /\ x.ref = r.ref
      BY <1>1 DEF Registers
    <2> HIDE DEF x
    <2>2. Traced(p, x, owner')
      BY <1>1, <2>1, SearchTraced DEF Searching
    <2> QED
      BY <1>1, <1>4, <2>2, Follows
  <1> QED
    BY <1>2, <1>3, <1>4

LEMMA SearchAuthorTraced ==
    ASSUME IndexInv, Inv', Extended, NEW p \in Procs, SearchAuthor(p)
    PROVE  IndexInv'
  <1> DEFINE r == proc[p]
             hits == Hits(Compact(Author(Goal(r).pubkey), r.ref))
             cand == IF Goal(r).d = None THEN hits ELSE r.cand \cap hits
             x == [r EXCEPT !.pc = "search_kind", !.cand = cand]
  <1>1. /\ r \in Registers /\ r.pc = "search_author" /\ Owns(r.ref, Goal(r).pubkey, owner)
        /\ Goto(p, x) /\ UNCHANGED <<owner, conditions, time>>
    BY Tracing DEF SearchAuthor, Traced, db
  <1>2. \A t \in cand : ByAuthor(t[2], Goal(r).pubkey, owner)
    BY <1>1, AuthorHits
  <1>3. x.pc = "search_kind" /\ x.event = r.event /\ x.tag = r.tag /\ x.cand = cand
    BY <1>1 DEF Registers
  <1> HIDE DEF x, cand
  <1>4. Traced(p, x, owner')
    BY <1>1, <1>2, <1>3, SearchTraced DEF Searching
  <1> QED
    BY <1>1, <1>4, Follows

LEMMA SearchKindTraced ==
    ASSUME IndexInv, Inv', Extended, NEW p \in Procs, SearchKind(p)
    PROVE  IndexInv'
  <1> DEFINE r == proc[p]
             cand == r.cand \cap Hits(Kind(Goal(r).kind))
             x == [r EXCEPT !.pc = "scan", !.cand = cand]
  <1>1. /\ r \in Registers /\ r.pc = "search_kind"
        /\ \A t \in r.cand : ByAuthor(t[2], Goal(r).pubkey, owner)
        /\ Goto(p, x) /\ UNCHANGED <<owner, conditions, time>>
    BY Tracing DEF SearchKind, Traced, db
  <1>2. x.pc = "scan" /\ x.event = r.event /\ x.tag = r.tag /\ x.cand = cand
    BY <1>1 DEF Registers
  <1> HIDE DEF x
  <1>3. Traced(p, x, owner')
    BY <1>1, <1>2, SearchTraced DEF Searching
  <1> QED
    BY <1>1, <1>3, Follows

\* The address searched for is the author's own.
LEMMA OwnGoal ==
    ASSUME OwnAddresses, NEW r, r.event \in Events, AtAddress(r)
    PROVE  Goal(r).pubkey = r.event.pubkey
  BY DEF OwnAddresses, Goal, Address, AtAddress, TagAt

LEMMA ScanTraced ==
    ASSUME IndexInv, Inv', Extended, NEW p \in Procs, Scan(p)
    PROVE  IndexInv'
  <1> DEFINE r == proc[p]
  <1>1. /\ r \in Registers /\ r.pc = "scan" /\ AtAddress(r) /\ r.event \in Events /\ r.event # None
        /\ \A t \in r.cand : ByAuthor(t[2], Goal(r).pubkey, owner)
        /\ UNCHANGED <<owner, conditions, time>>
    BY Tracing DEF Scan, Traced, db, Removing, Searching
  <1>2. ASSUME NEW t \in r.cand, Goto(p, Skip(r, t)) PROVE IndexInv'
    <2> DEFINE x == Skip(r, t)
    <2>1. x.pc = "scan" /\ x.event = r.event /\ x.tag = r.tag /\ x.cand = r.cand \ {t}
      BY <1>1 DEF Registers, Skip
    <2> HIDE DEF x
    <2>2. Traced(p, x, owner')
      BY <1>1, <2>1, SearchTraced DEF Searching
    <2> QED
      BY <1>1, <1>2, <2>2, Follows DEF x
  <1>3. ASSUME NEW t \in r.cand,
               Goto(p, [r EXCEPT !.pc = "remove", !.victim = t[2],
                                 !.status = "Outdated", !.cand = {}])
        PROVE  IndexInv'
    <2> DEFINE x == [r EXCEPT !.pc = "remove", !.victim = t[2],
                              !.status = "Outdated", !.cand = {}]
    <2>1. x.pc = "remove" /\ x.event = r.event /\ x.victim = t[2]
      BY <1>1 DEF Registers
    <2> HIDE DEF x
    <2>2. OwnAddresses => ByAuthor(x.victim, x.event.pubkey, owner)
      BY <1>1, <2>1, OwnGoal
    <2>3. Traced(p, x, owner')
      BY <1>1, <2>1, <2>2 DEF Traced, Searching
    <2> QED
      BY <1>1, <1>3, <2>3, Follows DEF x
  <1>4. Goto(p, Resume(r)) \/ Goto(p, Idle) => IndexInv'
    BY <1>1, IdleTraced, ResumeTraced, Follows
  <1>5. \/ Goto(p, Resume(r)) \/ Goto(p, Idle)
        \/ \E t \in r.cand :
              \/ Goto(p, Skip(r, t))
              \/ Goto(p, [r EXCEPT !.pc = "remove", !.victim = t[2],
                                   !.status = "Outdated", !.cand = {}])
    BY DEF Scan
  <1> QED
    BY <1>2, <1>3, <1>4, <1>5
-------------------------------------------------------------------------------
(* Deletion requests and removals.                                           *)

\* The steps after which nothing is traced.
LEMMA CalmFollows ==
    ASSUME IndexInv, Inv', Extended, NEW p \in Procs, NEW r, Goto(p, r),
           r.pc \in Calm, r.event = None => r.pc = "idle" \/ p = Expirer
    PROVE  Traces'
  BY CalmTraced, Follows

LEMMA TagStepTraced ==
    ASSUME IndexInv, Inv', Extended, NEW p \in Procs, TagStep(p)
    PROVE  IndexInv'
  <1> DEFINE r == proc[p]
             value == TagAt(r).value
             entry == hash_to_n[value.hash]
  <1>1. /\ r \in Registers /\ r.pc = "tags" /\ r.event \in Events /\ r.event # None
        /\ r.tag \in Nat /\ r.tag # 0 /\ UNCHANGED <<conditions, time>>
    BY Tracing DEF TagStep, Removing, db, RegisterOK, Registers
  <1>2. \/ Goto(p, [r EXCEPT !.pc = "insert", !.tag = 0])
        \/ \E n, by : Goto(p, [r EXCEPT !.pc = "set_requested", !.victim = n, !.by = by])
        \/ \E n : Goto(p, [r EXCEPT !.pc = "check_author", !.victim = n])
        \/ Goto(p, Resume(r))
        \/ /\ Goto(p, [r EXCEPT !.pc = "slot_author"])
           /\ r.tag <= Len(r.event.tags)
           /\ TagAt(r).name = "a" /\ value # None /\ value.type = "address"
    BY DEF TagStep, TagAt
  <1>3. CASE Goto(p, [r EXCEPT !.pc = "insert", !.tag = 0])
    <2> DEFINE x == [r EXCEPT !.pc = "insert", !.tag = 0]
    <2>1. x.pc = "insert" /\ x.event = r.event
      BY <1>1 DEF Registers
    <2> HIDE DEF x
    <2> QED
      BY <1>1, <1>3, <2>1, CalmFollows, StillIndexed DEF Calm, x, IndexInv
  <1>4. ASSUME NEW n, NEW by, Goto(p, [r EXCEPT !.pc = "set_requested", !.victim = n, !.by = by])
        PROVE  Traces'
    <2> DEFINE x == [r EXCEPT !.pc = "set_requested", !.victim = n, !.by = by]
    <2>1. x.pc = "set_requested" /\ x.event = r.event
      BY <1>1 DEF Registers
    <2> HIDE DEF x
    <2> QED
      BY <1>1, <1>4, <2>1, CalmFollows DEF Calm, x
  <1>5. ASSUME NEW n, Goto(p, [r EXCEPT !.pc = "check_author", !.victim = n])
        PROVE  Traces'
    <2> DEFINE x == [r EXCEPT !.pc = "check_author", !.victim = n]
    <2>1. x.pc = "check_author" /\ x.event = r.event
      BY <1>1 DEF Registers
    <2> HIDE DEF x
    <2> QED
      BY <1>1, <1>5, <2>1, CalmFollows DEF Calm, x
  <1>6. Goto(p, Resume(r)) => Traces'
    BY <1>1, ResumeTraced, Follows
  <1>7. ASSUME Goto(p, [r EXCEPT !.pc = "slot_author"]), r.tag <= Len(r.event.tags),
               TagAt(r).name = "a", value # None, value.type = "address"
        PROVE  Traces'
    <2>1. r.tag \in DOMAIN r.event.tags
      BY <1>1, <1>7, EventTags
    <2> DEFINE x == [r EXCEPT !.pc = "slot_author"]
    <2>2. x.pc = "slot_author" /\ x.event = r.event /\ x.tag = r.tag
      BY <1>1 DEF Registers
    <2> HIDE DEF x
    <2>3. AtAddress(x)
      BY <1>7, <2>1, <2>2, SameGoal DEF AtAddress
    <2>4. Traced(p, x, owner')
      BY <1>1, <2>2, <2>3 DEF Traced, Searching, Removing
    <2> QED
      BY <1>7, <2>4, Follows DEF x
  <1>8. Traces'
    BY <1>2, <1>3, <1>4, <1>5, <1>6, <1>7 DEF IndexInv
  <1> QED
    BY <1>1, <1>8, StillIndexed DEF IndexInv

LEMMA CheckAuthorTraced ==
    ASSUME IndexInv, Inv', Extended, NEW p \in Procs, CheckAuthor(p)
    PROVE  IndexInv'
  <1> DEFINE r == proc[p]
             stored == n_to_event[r.victim]
             x == [r EXCEPT !.pc = "remove", !.status = "Deleted"]
  <1>1. /\ r \in Registers /\ r.pc = "check_author" /\ r.event \in Events /\ r.event # None
        /\ r.victim \in Ns /\ UNCHANGED <<owner, conditions, time>>
    BY Tracing DEF CheckAuthor, Removing, db, RegisterOK
  <1>2. Goto(p, Resume(r)) \/ (Goto(p, x) /\ MayDelete(r.event, stored))
    BY DEF CheckAuthor
  <1>3. CASE Goto(p, Resume(r))
    BY <1>1, <1>3, ResumeTraced, Follows
  <1>4. CASE Goto(p, x) /\ MayDelete(r.event, stored)
    <2>1. /\ stored \in Events /\ owner[r.victim] = stored.id /\ stored.id \in Hashes
          /\ stored.pubkey = r.event.pubkey
      BY <1>1, <1>4, EventHashes DEF MayDelete, IndexInv, Inv, TypeOK, NumbersOwned
    <2>2. ByAuthor(r.victim, r.event.pubkey, owner)
      BY <1>1, <2>1 DEF ByAuthor, Owns
    <2>3. x.pc = "remove" /\ x.event = r.event /\ x.victim = r.victim
      BY <1>1 DEF Registers
    <2> HIDE DEF x
    <2>4. Traced(p, x, owner')
      BY <1>1, <2>2, <2>3 DEF Traced, Searching
    <2> QED
      BY <1>1, <1>4, <2>4, Follows
  <1> QED
    BY <1>2, <1>3, <1>4

\* A removal goes on with the same victim.
LEMMA RemovalTraced ==
    ASSUME IndexInv, NEW p \in Procs, proc[p].pc \in Removing, NEW x, x.pc \in Removing,
           x.event = proc[p].event, x.victim = proc[p].victim
    PROVE  Traced(p, x, owner)
  <1>1. Traced(p, proc[p], owner)
    BY Tracing
  <1> QED
    BY <1>1 DEF Traced, Removing, Searching

LEMMA RemoveTraced ==
    ASSUME IndexInv, Inv', Extended, NEW p \in Procs, Remove(p)
    PROVE  IndexInv'
  <1> DEFINE r == proc[p]
             e == n_to_event[r.victim]
             x == [r EXCEPT !.pc = "remove_status", !.removed = e, !.todo = Conditions(e)]
  <1>1. r \in Registers /\ r.pc = "remove" /\ UNCHANGED <<owner, conditions, time>>
    BY Tracing DEF Remove, db
  <1>2. Goto(p, Resume(r)) \/ Goto(p, x)
    BY DEF Remove
  <1>3. CASE Goto(p, Resume(r))
    BY <1>1, <1>3, ResumeTraced, Follows
  <1>4. CASE Goto(p, x)
    <2>1. x.pc = "remove_status" /\ x.event = r.event /\ x.victim = r.victim
      BY <1>1 DEF Registers
    <2> HIDE DEF x
    <2>2. Traced(p, x, owner')
      BY <1>1, <2>1, RemovalTraced DEF Removing
    <2> QED
      BY <1>1, <1>4, <2>2, Follows
  <1> QED
    BY <1>2, <1>3, <1>4

LEMMA RemoveStatusTraced ==
    ASSUME IndexInv, Inv', Extended, NEW p \in Procs, RemoveStatus(p)
    PROVE  IndexInv'
  <1> DEFINE r == proc[p]
             x == [r EXCEPT !.pc = "remove_keys"]
  <1>1. /\ r \in Registers /\ r.pc = "remove_status" /\ Goto(p, x)
        /\ UNCHANGED <<owner, conditions, time>>
    BY Tracing DEF RemoveStatus
  <1>2. x.pc = "remove_keys" /\ x.event = r.event /\ x.victim = r.victim
    BY <1>1 DEF Registers
  <1> HIDE DEF x
  <1>3. Traced(p, x, owner')
    BY <1>1, <1>2, RemovalTraced DEF Removing
  <1> QED
    BY <1>1, <1>3, Follows

LEMMA RemoveKeyTraced ==
    ASSUME IndexInv, Inv', Extended, NEW p \in Procs, RemoveKey(p)
    PROVE  IndexInv'
  <1> DEFINE r == proc[p]
             x == [r EXCEPT !.todo = Tail(@)]
  <1>1. /\ r \in Registers /\ r.pc = "remove_keys" /\ Goto(p, x) /\ UNCHANGED <<owner, time>>
        /\ conditions' \subseteq conditions
    BY Tracing DEF RemoveKey
  <1>2. x.pc = "remove_keys" /\ x.event = r.event /\ x.victim = r.victim
    BY <1>1 DEF Registers
  <1> HIDE DEF x
  <1>3. Traced(p, x, owner')
    BY <1>1, <1>2, RemovalTraced DEF Removing
  <1> QED
    BY <1>1, <1>3, Follows

LEMMA RemoveTimeTraced ==
    ASSUME IndexInv, Inv', Extended, NEW p \in Procs, RemoveTime(p)
    PROVE  IndexInv'
  <1> DEFINE r == proc[p]
             x == [r EXCEPT !.pc = "remove_event"]
  <1>1. /\ r \in Registers /\ r.pc = "remove_keys" /\ Goto(p, x) /\ UNCHANGED <<owner, conditions>>
        /\ time' \subseteq time
    BY Tracing DEF RemoveTime
  <1>2. x.pc = "remove_event" /\ x.event = r.event /\ x.victim = r.victim
    BY <1>1 DEF Registers
  <1> HIDE DEF x
  <1>3. Traced(p, x, owner')
    BY <1>1, <1>2, RemovalTraced DEF Removing
  <1> QED
    BY <1>1, <1>3, Follows
-------------------------------------------------------------------------------
(* The insertion.                                                            *)

LEMMA InsertTraced ==
    ASSUME IndexInv, Inv', Extended, NEW p \in Procs, Insert(p)
    PROVE  IndexInv'
  <1> DEFINE r == proc[p]
             x == [r EXCEPT !.pc = "insert_keys", !.todo = Conditions(r.event)]
  <1>1. /\ r \in Registers /\ r.event # None /\ Goto(p, x) /\ UNCHANGED <<owner, conditions, time>>
    BY Tracing DEF Insert, Removing
  <1>2. x.pc = "insert_keys" /\ x.event = r.event /\ x.todo = Conditions(r.event)
    BY <1>1 DEF Registers
  <1> HIDE DEF x
  <1>3. Traced(p, x, owner')
    BY <1>1, <1>2 DEF Traced, Removing, Searching
  <1> QED
    BY <1>1, <1>3, Follows

LEMMA InsertRefTraced ==
    ASSUME IndexInv, Inv', Extended, NEW p \in Procs, InsertRef(p)
    PROVE  IndexInv'
  <1> DEFINE r == proc[p]
  <1>1. /\ r.pc = "insert_keys" /\ r.event # None /\ r.todo # <<>> /\ HasHash(Head(r.todo))
        /\ r.todo \in Seq(AllConditions) /\ Range(r.todo) \subseteq Range(Conditions(r.event))
    BY Tracing DEF InsertRef, Removing, Traced, Registers
  <1>2. Head(r.todo)[2].hash \in Hashes
    <2>1. Head(r.todo) \in AllConditions
      BY <1>1
    <2> QED
      BY <1>1, <2>1, DbAssumption
  <1>3. ASSUME NEW x, NEW own, x.pc = "insert_key", x.event = r.event, x.todo = r.todo,
               Owns(x.ref, Head(r.todo)[2].hash, own)
        PROVE  Traced(p, x, own)
    BY <1>1, <1>3 DEF Traced, Searching, Removing
  <1> QED
    BY <1>1, <1>2, <1>3, GetOrCreateTraced DEF InsertRef

LEMMA InsertKeyTraced ==
    ASSUME IndexInv, Inv', Extended, NEW p \in Procs, InsertKey(p)
    PROVE  IndexInv'
  <1> DEFINE r == proc[p]
             c == Head(r.todo)
             key == Compact(c, r.ref)
             t == TimeOf(r.event, r.n)
             x == [r EXCEPT !.pc = "insert_keys", !.todo = Tail(@)]
  <1>1. /\ r \in Registers /\ r.pc \in {"insert_keys", "insert_key"}
        /\ r.event \in Events /\ r.event # None /\ r.todo # <<>>
        /\ r.todo \in Seq(AllConditions) /\ Range(r.todo) \subseteq Range(Conditions(r.event))
        /\ r.pc = "insert_keys" => ~HasHash(c)
        /\ r.pc = "insert_key" => Owns(r.ref, c[2].hash, owner)
        /\ conditions' = conditions \cup {<<key, t>>}
        /\ Goto(p, x) /\ UNCHANGED <<owner, time>>
    BY Tracing DEF InsertKey, Removing, Traced, Registers
  <1>2. Range(Tail(r.todo)) \subseteq Range(r.todo) /\ c \in Range(r.todo)
    <2>1. /\ 1 \in DOMAIN r.todo /\ c = r.todo[1]
          /\ \A i \in DOMAIN Tail(r.todo) : i + 1 \in DOMAIN r.todo /\ Tail(r.todo)[i] = r.todo[i + 1]
      BY <1>1
    <2> QED
      BY <2>1 DEF Range
  <1>3. IsTimeOf(t, r.event, owner)
    <2>1. HasNumber(r)
      BY <1>1 DEF HasNumber
    <2>2. r.n \in Ns /\ owner[r.n] = r.event.id /\ r.event.id \in Hashes
      BY <2>1, Numbered DEF IndexInv
    <2> QED
      BY <2>2 DEF IsTimeOf, TimeOf, Owns
  <1>4. IsKeyOf(key, c, owner)
    <2>1. CASE HasHash(c)
      BY <1>1, <2>1 DEF IsKeyOf, Owns
    <2>2. CASE ~HasHash(c)
      <3>1. IsPlain(c)
        BY <1>1, <1>2, EventConditions
      <3> QED
        BY <2>2, <3>1, Keys DEF IsKeyOf, IsPlain
    <2> QED
      BY <2>1, <2>2
  <1>5. x.pc = "insert_keys" /\ x.event = r.event /\ x.todo = Tail(r.todo)
    BY <1>1 DEF Registers
  <1> HIDE DEF x, key, t, c
  <1>6. Traced(p, x, owner')
    BY <1>1, <1>2, <1>5 DEF Traced, Searching, Removing
  <1>7. Indexed'
    <2>1. \A k \in conditions : \E e \in Events :
             /\ IsTimeOf(k[2], e, owner)
             /\ \E d \in Range(Conditions(e)) : IsKeyOf(k[1], d, owner)
      BY DEF IndexInv, Indexed
    <2>2. /\ IsTimeOf(<<key, t>>[2], r.event, owner)
          /\ \E d \in Range(Conditions(r.event)) : IsKeyOf(<<key, t>>[1], d, owner)
      BY <1>1, <1>2, <1>3, <1>4
    <2>3. \A k \in conditions' : \E e \in Events :
             /\ IsTimeOf(k[2], e, owner)
             /\ \E d \in Range(Conditions(e)) : IsKeyOf(k[1], d, owner)
      BY <1>1, <2>1, <2>2
    <2> QED
      BY <1>1, <2>3 DEF Indexed
  <1> QED
    BY <1>1, <1>6, <1>7, Follows, StillIndexed DEF IndexInv

LEMMA InsertTimeTraced ==
    ASSUME IndexInv, Inv', Extended, NEW p \in Procs, InsertTime(p)
    PROVE  IndexInv'
  <1> DEFINE r == proc[p]
             t == TimeOf(r.event, r.n)
  <1>1. /\ HasNumber(r) /\ r.event \in Events /\ Goto(p, Idle)
        /\ time' = time \cup {t} /\ UNCHANGED <<owner, conditions>>
    BY Tracing DEF InsertTime, HasNumber, Removing
  <1>2. IsTimeOf(t, r.event, owner)
    <2>1. r.n \in Ns /\ owner[r.n] = r.event.id /\ r.event.id \in Hashes
      BY <1>1, Numbered DEF IndexInv
    <2> QED
      BY <2>1 DEF IsTimeOf, TimeOf, Owns
  <1> HIDE DEF t
  <1>3. Dated'
    BY <1>1, <1>2 DEF IndexInv, Dated
  <1> QED
    BY <1>1, <1>3, IdleTraced, Follows, StillIndexed DEF IndexInv
-------------------------------------------------------------------------------
(* The invariant.                                                            *)

\* No step takes a number away from what it was given out for.
LEMMA OwnersKept == ASSUME Inv, Next PROVE Extended
  <1>1. ASSUME NEW h, Allocate(h) PROVE Extended
    <2>1. owner \in [Ns -> Hashes \cup {None}] /\ \A n \in Ns : owner[n] # None => n < n_count
      BY DEF Inv, TypeOK, NumbersOwned
    <2>2. \A n \in Ns : owner[n] # None => n # n_count
      BY <2>1 DEF Ns
    <2> QED
      BY <1>1, <2>1, <2>2 DEF Allocate, Extended
  <1>2. UNCHANGED owner \/ \E h : Allocate(h)
    <2>1. ASSUME NEW p \in Connections, NEW e \in Events, StartAdd(p, e) PROVE UNCHANGED owner
      BY <2>1 DEF StartAdd
    <2>2. ASSUME NEW e \in Events, NEW n \in Ns, StartExpire(e, n) PROVE UNCHANGED owner
      BY <2>2 DEF StartExpire
    <2>3. ASSUME NEW p \in Procs, GetAuthor(p) \/ Claim(p) \/ SlotAuthor(p) \/ TagStep(p) \/ InsertRef(p)
          PROVE  UNCHANGED owner \/ \E h : Allocate(h)
      BY <2>3 DEF GetAuthor, Claim, SlotAuthor, TagStep, InsertRef, GetOrCreate
    <2>4. ASSUME NEW p \in Procs, Step(p),
                 ~(GetAuthor(p) \/ Claim(p) \/ SlotAuthor(p) \/ TagStep(p) \/ InsertRef(p))
          PROVE  UNCHANGED owner
      BY <2>4 DEF Step, SetDeleted, SetHave, SearchTag, SearchAuthor, SearchKind, Scan,
         SetRequested, CheckAuthor, Remove, RemoveStatus, RemoveKey, RemoveTime, RemoveEvent,
         Insert, InsertKey, InsertTime
    <2> QED
      BY <2>1, <2>2, <2>3, <2>4 DEF Next
  <1>3. UNCHANGED owner => Extended
    BY DEF Extended
  <1> QED
    BY <1>1, <1>2, <1>3

LEMMA StepTraced ==
    ASSUME IndexInv, Inv', Extended, NEW p \in Procs, Step(p)
    PROVE  IndexInv'
  <1>1. CASE GetAuthor(p) \/ Claim(p) \/ SetHave(p)
    BY <1>1, GetAuthorTraced, ClaimTraced, SetHaveTraced
  <1>2. CASE SlotAuthor(p) \/ SearchTag(p) \/ SearchAuthor(p) \/ SearchKind(p) \/ Scan(p)
    BY <1>2, SlotAuthorTraced, SearchTagTraced, SearchAuthorTraced, SearchKindTraced, ScanTraced
  <1>3. CASE TagStep(p) \/ CheckAuthor(p)
    BY <1>3, TagStepTraced, CheckAuthorTraced
  <1>4. CASE Remove(p) \/ RemoveStatus(p) \/ RemoveKey(p) \/ RemoveTime(p)
    BY <1>4, RemoveTraced, RemoveStatusTraced, RemoveKeyTraced, RemoveTimeTraced
  <1>5. CASE Insert(p) \/ InsertRef(p) \/ InsertKey(p) \/ InsertTime(p)
    BY <1>5, InsertTraced, InsertRefTraced, InsertKeyTraced, InsertTimeTraced
  <1>6. CASE SetDeleted(p) \/ SetRequested(p) \/ RemoveEvent(p)
    <2>1. /\ Goto(p, Idle) \/ Goto(p, Resume(proc[p]))
          /\ UNCHANGED <<conditions, time>>
      BY <1>6 DEF SetDeleted, SetRequested, RemoveEvent
    <2>2. proc[p] \in Registers
      BY Tracing
    <2> QED
      BY <2>1, <2>2, IdleTraced, ResumeTraced, Follows
  <1> QED
    BY <1>1, <1>2, <1>3, <1>4, <1>5, <1>6 DEF Step

LEMMA StartAddTraced ==
    ASSUME IndexInv, Inv', Extended, NEW p \in Connections, NEW e \in Events, StartAdd(p, e)
    PROVE  IndexInv'
  <1> DEFINE x == [Idle EXCEPT !.pc = "author", !.event = e]
  <1>1. /\ Goto(p, x) /\ UNCHANGED <<conditions, time>> /\ p \in Procs
        /\ x.pc = "author" /\ x.event # None
    BY EventHashes DEF StartAdd, db, Idle, Procs
  <1> HIDE DEF x
  <1>2. Traced(p, x, owner')
    BY <1>1, CalmTraced DEF Calm
  <1> QED
    BY <1>1, <1>2, Follows

LEMMA StartExpireTraced ==
    ASSUME IndexInv, Inv', Extended, NEW e \in Events, NEW n \in Ns, StartExpire(e, n)
    PROVE  IndexInv'
  <1> DEFINE x == [Idle EXCEPT !.pc = "remove", !.victim = n, !.status = "Unknown"]
  <1>1. /\ Goto(Expirer, x) /\ UNCHANGED <<conditions, time>> /\ Expirer \in Procs
        /\ x.pc = "remove" /\ x.event = None
    BY DEF StartExpire, db, Idle, Procs
  <1> HIDE DEF x
  <1>2. Traced(Expirer, x, owner')
    BY <1>1 DEF Traced, Searching
  <1> QED
    BY <1>1, <1>2, Follows

LEMMA IndexInvariant == Spec => []IndexInv
  <1>1. Init => IndexInv
    <2> SUFFICES ASSUME Init PROVE IndexInv
      OBVIOUS
    <2>1. Traces
      BY IdleTraced DEF Init, Traces
    <2>2. Dated /\ Indexed
      BY DEF Init, Dated, Indexed
    <2> QED
      BY <2>1, <2>2, InitOK DEF IndexInv
  <1>2. IndexInv /\ Inv' /\ [Next]_vars => IndexInv'
    <2> SUFFICES ASSUME IndexInv, Inv', [Next]_vars PROVE IndexInv'
      OBVIOUS
    <2>1. CASE Next
      <3>1. Extended
        BY <2>1, OwnersKept DEF IndexInv
      <3> QED
        BY <2>1, <3>1, StepTraced, StartAddTraced, StartExpireTraced DEF Next
    <2>2. CASE UNCHANGED vars
      BY <2>2 DEF vars, db, IndexInv, Traces, Dated, Indexed
    <2> QED
      BY <2>1, <2>2
  <1> QED
    BY <1>1, <1>2, Invariance, PTL DEF Spec
-------------------------------------------------------------------------------
(* What queries find.                                                        *)

\* The key of a condition that is looked up is not the key of another one.
LEMMA SameCondition ==
    ASSUME IndexInv, NEW c, IsPlain(c), NEW d, IsPlain(d),
           NEW key, key = CompactNow(c), key # None, IsKeyOf(key, d, owner)
    PROVE  c = d
  <1>1. HasHash(c) => Owns(hash_to_n[c[2].hash].n, c[2].hash, owner)
    <2> SUFFICES ASSUME HasHash(c) PROVE Owns(hash_to_n[c[2].hash].n, c[2].hash, owner)
      OBVIOUS
    <2>1. c[2].hash \in Hashes /\ hash_to_n[c[2].hash] # None
      BY DEF IsPlain, IsCondition, CompactNow
    <2> QED
      BY <2>1 DEF IndexInv, Inv, TypeOK, NumbersOwned, Entries, Owns
  <1>2. HasHash(c) => key = <<KeyName(c[1]), [type |-> "n", n |-> hash_to_n[c[2].hash].n]>>
    BY Keys DEF CompactNow
  <1>3. ~HasHash(c) => key = c /\ c[2].type # "n"
    BY Keys DEF CompactNow, IsPlain, IsCondition
  <1>4. CASE HasHash(d)
    <2>1. PICK m \in Ns : Owns(m, d[2].hash, owner) /\ key = Compact(d, m)
      BY <1>4 DEF IsKeyOf
    <2>2. key = <<KeyName(d[1]), [type |-> "n", n |-> m]>>
      BY <1>4, <2>1, Keys
    <2>3. HasHash(c)
      BY <1>3, <2>2
    <2>4. c[1] = d[1] /\ hash_to_n[c[2].hash].n = m
      <3>1. KeyName(c[1]) = KeyName(d[1]) /\ hash_to_n[c[2].hash].n = m
        BY <1>2, <2>2, <2>3, Keys
      <3> QED
        BY <3>1, Keys DEF IsPlain
    <2>5. c[2].hash = d[2].hash
      BY <1>1, <2>1, <2>3, <2>4 DEF Owns
    <2> QED
      BY <1>4, <2>3, <2>4, <2>5 DEF IsPlain, IsCondition
  <1>5. CASE ~HasHash(d)
    <2>1. key = d /\ d[2].type # "n"
      BY <1>5 DEF IsKeyOf, IsPlain, IsCondition
    <2>2. ~HasHash(c)
      BY <1>2, <2>1
    <2> QED
      BY <1>3, <2>1, <2>2
  <1> QED
    BY <1>4, <1>5

\* The event that is stored under the number of a Time meets the conditions
\* that the Time is found under.
LEMMA FoundMeets ==
    ASSUME IndexInv, NEW t, n_to_event[t[2]] # None
    PROVE  /\ \A c : IsPlain(c) /\ <<CompactNow(c), t>> \in conditions =>
                        /\ n_to_event[t[2]].created_at = t[1]
                        /\ c \in Range(Conditions(n_to_event[t[2]]))
           /\ t \in time => n_to_event[t[2]].created_at = t[1]
  <1> DEFINE e == n_to_event[t[2]]
  <1>1. ASSUME NEW f \in Events, IsTimeOf(t, f, owner) PROVE f = e /\ e.created_at = t[1]
    <2>1. t[2] \in Ns /\ owner[t[2]] = f.id /\ f.created_at = t[1]
      BY <1>1 DEF IsTimeOf, Owns
    <2>2. e \in Events /\ owner[t[2]] = e.id
      BY <2>1 DEF IndexInv, Inv, TypeOK, NumbersOwned
    <2> QED
      BY <2>1, <2>2, SameEvent
  <1>2. ASSUME NEW c, IsPlain(c), <<CompactNow(c), t>> \in conditions
        PROVE  e.created_at = t[1] /\ c \in Range(Conditions(e))
    <2> DEFINE key == CompactNow(c)
    <2>1. key # None
      BY <1>2, ConditionsAssumption DEF IndexInv, Inv, TypeOK
    <2>2. PICK f \in Events : /\ IsTimeOf(t, f, owner)
                              /\ \E d \in Range(Conditions(f)) : IsKeyOf(key, d, owner)
      <3>1. \E f \in Events : /\ IsTimeOf(<<key, t>>[2], f, owner)
                              /\ \E d \in Range(Conditions(f)) : IsKeyOf(<<key, t>>[1], d, owner)
        BY <1>2 DEF IndexInv, Indexed
      <3> QED
        BY <3>1
    <2>3. PICK d \in Range(Conditions(f)) : IsKeyOf(key, d, owner)
      BY <2>2
    <2>4. f = e /\ e.created_at = t[1]
      BY <1>1, <2>2
    <2>5. c = d
      BY <1>2, <2>1, <2>3, EventConditions, SameCondition
    <2> QED
      BY <2>3, <2>4, <2>5
  <1>3. t \in time => e.created_at = t[1]
    BY <1>1 DEF IndexInv, Dated
  <1> QED
    BY <1>2, <1>3

\* No filter with ids has another field to check: handle_req leaves the others of
\* such a filter aside.
IdsAlone ==
    \A f \in Filters : f.ids # None =>
        ~f.search /\ f.conditions = {} /\ \A e \in Events : f.since <= e.created_at /\ e.created_at <= f.until

\* No filter asks for a tag named by one of the two characters that make its key
\* that of an author or of a kind.
PlainNames == \A f \in Filters : \A group \in f.conditions : \A c \in group : IsPlain(c)

\* What a query is served by its ids are the events with these ids.
LEMMA ServedById ==
    ASSUME IndexInv, NEW f, f.ids # None, NEW e \in Served(f)
    PROVE  e \in Events /\ e.id \in f.ids
  <1>1. PICK h \in Hashes \cap f.ids :
            /\ hash_to_n[h] # None
            /\ e = n_to_event[hash_to_n[h].n] /\ e # None
    BY DEF Served
  <1>2. hash_to_n[h].n \in Ns /\ owner[hash_to_n[h].n] = h
    BY <1>1 DEF IndexInv, Inv, TypeOK, NumbersOwned, Entries
  <1>3. e \in Events /\ owner[hash_to_n[h].n] = e.id
    BY <1>1, <1>2 DEF IndexInv, Inv, TypeOK, NumbersOwned
  <1> QED
    BY <1>1, <1>2, <1>3

\* What a query finds in the index meets its conditions and its times.
LEMMA ServedByIndex ==
    ASSUME IndexInv, PlainNames, NEW f \in Filters, f.ids = None, NEW e \in Served(f)
    PROVE  Matches(f, e)
  <1>1. PICK t : /\ t \in (IF f.conditions = {} THEN time ELSE {c[2] : c \in conditions})
                 /\ \A group \in f.conditions : \E c \in group :
                        <<CompactNow(c), t>> \in conditions
                 /\ ~f.search
                 /\ f.since <= t[1] /\ t[1] <= f.until
                 /\ e = n_to_event[t[2]] /\ e # None
    BY DEF Served
  <1>2. ASSUME NEW c, IsPlain(c), <<CompactNow(c), t>> \in conditions
        PROVE  e.created_at = t[1] /\ c \in Range(Conditions(e))
    BY <1>1, <1>2, FoundMeets
  <1>3. \A group \in f.conditions : \E c \in group :
            e.created_at = t[1] /\ c \in Range(Conditions(e))
    BY <1>1, <1>2 DEF PlainNames
  <1>4. e.created_at = t[1]
    <2>1. CASE f.conditions = {}
      BY <1>1, <2>1, FoundMeets
    <2>2. CASE f.conditions # {}
      BY <1>3, <2>2
    <2> QED
      BY <2>1, <2>2
  <1> QED
    BY <1>1, <1>3, <1>4 DEF Matches

\* Whatever is added and removed while handle_req runs, an event it sends for a
\* stored query matches the filter: the numbers in the keys are never those of
\* another event, author or tag.  There are two exceptions, which the hypotheses
\* exclude: a filter with ids that also has other fields, and a tag name of one
\* byte that makes the key of a tag that of an author or of a kind.
THEOREM ServedMatches == ASSUME IdsAlone, PlainNames PROVE Spec => []ServedMatch
  <1>1. IndexInv => ServedMatch
    <2> SUFFICES ASSUME IndexInv, NEW f \in Filters, NEW e \in Served(f)
                 PROVE  Matches(f, e)
      BY DEF ServedMatch
    <2>1. CASE f.ids = None
      BY <2>1, ServedByIndex
    <2>2. CASE f.ids # None
      <3>1. e \in Events /\ e.id \in f.ids
        BY <2>2, ServedById
      <3>2. ~f.search /\ f.conditions = {} /\ f.since <= e.created_at /\ e.created_at <= f.until
        BY <2>2, <3>1 DEF IdsAlone
      <3> QED
        BY <3>1, <3>2 DEF Matches
    <2> QED
      BY <2>1, <2>2
  <1> QED
    BY <1>1, IndexInvariant, PTL

\* Whatever the threads interleave, remove_event takes an event away for the
\* expiration task or for a thread that adds an event of the same author, as long
\* as the deletion requests name addresses of their own author: add_event does not
\* compare the pubkey of an "a" tag with that of the request.
THEOREM RemovedByAuthor == ASSUME OwnAddresses PROVE Spec => RemovedForAuthor
  <1> DEFINE ForAuthor ==
        \A n \in Ns : n_to_event[n] # None /\ n_to_event'[n] # n_to_event[n] =>
          \E p \in Procs :
             /\ proc[p].pc = "remove_event" /\ proc[p].victim = n
             /\ \/ p = Expirer
                \/ proc[p].event.pubkey = n_to_event[n].pubkey
  <1>1. IndexInv /\ [Next]_vars => [ForAuthor]_vars
    <2> SUFFICES ASSUME IndexInv, Next, NEW n \in Ns,
                        n_to_event[n] # None, n_to_event'[n] # n_to_event[n]
                 PROVE  \E p \in Procs :
                           /\ proc[p].pc = "remove_event" /\ proc[p].victim = n
                           /\ p = Expirer \/ proc[p].event.pubkey = n_to_event[n].pubkey
      OBVIOUS
    <2>1. PICK p \in Procs : RemoveEvent(p) /\ proc[p].victim = n
      BY SlotEmptied DEF IndexInv
    <2>2. proc[p].pc = "remove_event" /\ Traced(p, proc[p], owner)
      BY <2>1, Tracing DEF RemoveEvent
    <2>3. ASSUME p # Expirer PROVE proc[p].event.pubkey = n_to_event[n].pubkey
      <3>1. proc[p].event # None
        BY <2>2, <2>3 DEF Traced
      <3>2. ByAuthor(n, proc[p].event.pubkey, owner)
        BY <2>1, <2>2, <3>1 DEF Traced, Removing
      <3>3. PICK e \in Events : owner[n] = e.id /\ e.pubkey = proc[p].event.pubkey
        BY <3>2 DEF ByAuthor, Owns
      <3>4. n_to_event[n] \in Events /\ owner[n] = n_to_event[n].id
        BY DEF IndexInv, Inv, TypeOK, NumbersOwned
      <3> QED
        BY <3>3, <3>4, SameEvent
    <2> QED
      BY <2>1, <2>2, <2>3
  <1> QED
    BY <1>1, IndexInvariant, PTL DEF Spec, RemovedForAuthor
-------------------------------------------------------------------------------
(* What stays decided.  Across crashes numbers are given out again, and what *)
(* was said of them so far is lost.  What a put relies on is then only what  *)
(* the thread itself has read: Careful says so of its registers, whatever    *)
(* else the databases hold.                                                  *)

Final == {"Deleted", "Outdated"}

Gone(h) == \E e \in expired : e.id = h

\* Nothing final is said of the hash, unless its event has expired.
Free(h) == h \in Hashes /\ hash_to_n[h] # None /\ hash_to_n[h].status \in Final => Gone(h)

FinalKept ==
    \A h \in Hashes : hash_to_n[h] # None /\ hash_to_n[h].status \in Final =>
        hash_to_n'[h].status \in Final \/ Gone(h)

Mapped == hash_to_n = [h \in Hashes |-> hash_to_n[h]] /\ proc = [p \in Procs |-> proc[p]]

Fields == {"pc", "event", "author", "n", "miss", "ref", "tag", "cand", "victim", "status",
           "removed", "by", "todo"}

\* The registers are a record with these fields, of whatever type.
Shaped(r) == DOMAIN r = Fields /\ r = [f \in Fields |-> r[f]]

\* The registers of add_event when no put is due.
Calmed(r) ==
    /\ Shaped(r) /\ ~r.miss
    /\ r.pc # "idle" => r.event \in Events
    /\ r.pc \notin {"set_have", "set_requested"}
    /\ r.pc \in {"remove", "remove_status"} => r.status \in Final

\* What add_event is about to put is final, or is put where nothing final is said.
Careful(r) ==
    /\ Shaped(r)
    /\ r.pc # "idle" => r.event \in Events
    /\ r.miss =>
          /\ r.pc \in {"author", "slot_author", "insert_keys"} /\ Free(Sought(r))
          /\ r.pc = "insert_keys" => r.todo # <<>> /\ HasHash(Head(r.todo))
    /\ r.pc = "set_have" => Free(r.event.id)
    /\ r.pc = "set_requested" => Free(TagAt(r).value.hash)
    /\ r.pc \in {"remove", "remove_status"} => r.status \in Final

\* What a step of p has to show: nothing final is undone, by it or by the next.
Carried(p) ==
    /\ FinalKept /\ Mapped' /\ Careful(proc[p])'
    /\ \A q \in Procs : q # p => proc'[q] = proc[q]

LEMMA PutFinal ==
    ASSUME Mapped, NEW g, NEW entry, SetEntry(g, entry), entry.status \in Final \/ Free(g)
    PROVE  FinalKept
  BY DEF Mapped, SetEntry, FinalKept, Free

LEMMA StillMapped ==
    ASSUME Mapped, NEW p, NEW x, Goto(p, x),
           UNCHANGED hash_to_n \/ \E g, entry : SetEntry(g, entry)
    PROVE  Mapped'
  BY DEF Mapped, Goto, SetEntry

LEMMA CalmedCareful == ASSUME NEW p, Calmed(proc'[p]) PROVE Careful(proc[p])'
  BY DEF Calmed, Careful

LEMMA IdleCalmed == Calmed(Idle)
  BY DEF Calmed, Shaped, Fields, Idle

LEMMA ResumeCalmed ==
    ASSUME NEW r, r.event \in Events \cup {None}
    PROVE  Calmed(Resume(r)) /\ (r.event = None => Resume(r) = Idle)
  <1>1. CASE r.event = None
    BY <1>1, IdleCalmed DEF Resume
  <1>2. CASE r.event # None
    <2> DEFINE isRequest == r.event.kind = EVENT_DELETION
               l == IF isRequest THEN "tags" ELSE "insert"
               k == IF isRequest THEN r.tag + 1 ELSE 0
               y == [Idle EXCEPT !.pc = l, !.event = r.event, !.author = r.author, !.n = r.n,
                                 !.tag = k]
    <2>1. Resume(r) = y
      BY <1>2 DEF Resume
    <2>2. l \in {"tags", "insert"}
      OBVIOUS
    <2> HIDE DEF l, k
    <2>3. Shaped(y) /\ y.pc = l /\ y.event = r.event /\ ~y.miss
      BY DEF Shaped, Fields, Idle
    <2> QED
      BY <1>2, <2>1, <2>2, <2>3 DEF Calmed
  <1> QED
    BY <1>1, <1>2

LEMMA At ==
    ASSUME Mapped, NEW p \in Procs, NEW x, Goto(p, x)
    PROVE  proc'[p] = x /\ \A q \in Procs : q # p => proc'[q] = proc[q]
  BY DEF Mapped, Goto

\* A step that leaves the hashes alone, and one that puts an entry.
LEMMA RestsFinal ==
    ASSUME Mapped, NEW p \in Procs, NEW x, Goto(p, x), Calmed(x), UNCHANGED hash_to_n
    PROVE  Carried(p)
  <1>1. proc'[p] = x /\ Mapped'
    BY At, StillMapped
  <1>2. Calmed(proc'[p])
    BY <1>1
  <1>3. Careful(proc[p])'
    BY <1>2, CalmedCareful
  <1> QED
    BY <1>1, <1>3, At DEF FinalKept, Carried

LEMMA PutsFinal ==
    ASSUME Mapped, NEW p \in Procs, NEW x, Goto(p, x), Calmed(x),
           NEW g, NEW entry, SetEntry(g, entry), entry.status \in Final \/ Free(g)
    PROVE  Carried(p)
  <1>1. proc'[p] = x /\ Mapped'
    BY At, StillMapped
  <1>2. Calmed(proc'[p])
    BY <1>1
  <1>3. Careful(proc[p])'
    BY <1>2, CalmedCareful
  <1> QED
    BY <1>1, <1>3, PutFinal, At DEF Carried

LEMMA SoughtSame ==
    ASSUME NEW x, NEW y, x.pc = y.pc, x.event = y.event, x.tag = y.tag, x.todo = y.todo
    PROVE  Sought(x) = Sought(y)
  <1>1. CASE x.pc = "author"
    BY <1>1 DEF Sought
  <1>2. CASE x.pc = "slot_author"
    BY <1>2 DEF Sought, Goal
  <1>3. CASE x.pc \notin {"author", "slot_author"}
    BY <1>3 DEF Sought
  <1> QED
    BY <1>1, <1>2, <1>3

\* Getting or creating the number of a hash.
LEMMA GetOrCreateFinal ==
    ASSUME Mapped, NEW p \in Procs, Careful(proc[p]), NEW h, h = Sought(proc[p]),
           NEW next \in {"claim", "search_tag", "insert_key"}, GetOrCreate(p, h, next),
           proc[p].pc \in {"author", "slot_author", "insert_keys"},
           proc[p].pc = "insert_keys" => proc[p].todo # <<>> /\ HasHash(Head(proc[p].todo))
    PROVE  Carried(p)
  <1> DEFINE r == proc[p]
             X(n) == [r EXCEPT !.pc = next, !.ref = n]
             y == [r EXCEPT !.miss = TRUE]
             Z(n) == [r EXCEPT !.pc = next, !.ref = n, !.miss = FALSE]
  <1>1. Shaped(r) /\ r.event \in Events
    BY DEF Careful
  <1>2. CASE ~r.miss /\ Goto(p, X(hash_to_n[h].n)) /\ UNCHANGED hash_to_n
    <2> DEFINE x == X(hash_to_n[h].n)
    <2>1. Shaped(x) /\ x.pc = next /\ x.event = r.event /\ x.miss = r.miss
      BY <1>1 DEF Shaped, Fields
    <2>3. Goto(p, x) /\ UNCHANGED hash_to_n
      BY <1>2
    <2> HIDE DEF x
    <2>2. Calmed(x)
      BY <1>1, <1>2, <2>1 DEF Calmed
    <2> QED
      BY <2>2, <2>3, RestsFinal
  <1>3. CASE ~r.miss /\ hash_to_n[h] = None /\ Goto(p, y) /\ UNCHANGED hash_to_n
    <2>1. /\ Shaped(y) /\ y.pc = r.pc /\ y.event = r.event /\ y.miss /\ y.tag = r.tag
          /\ y.todo = r.todo
      BY <1>1 DEF Shaped, Fields
    <2> HIDE DEF y
    <2>2. Sought(y) = h
      BY <2>1, SoughtSame
    <2>3. proc'[p] = y
      BY <1>3, At
    <2>4. Sought(proc'[p]) = h /\ hash_to_n'[h] = None
      BY <1>3, <2>2, <2>3
    <2>5. Free(Sought(proc[p]))'
      BY <2>4 DEF Free, Sought, Goal
    <2>6. Careful(proc[p])'
      BY <1>1, <2>1, <2>3, <2>5 DEF Careful
    <2> QED
      BY <1>3, <2>6, StillMapped, At DEF FinalKept, Carried
  <1>4. CASE r.miss /\ SetEntry(h, Entry(n_count, "Unknown", {})) /\ Goto(p, Z(n_count))
    <2> DEFINE z == Z(n_count)
    <2>1. Shaped(z) /\ z.pc = next /\ z.event = r.event /\ ~z.miss
      BY <1>1 DEF Shaped, Fields
    <2>4. Goto(p, z)
      BY <1>4
    <2> HIDE DEF z
    <2>2. Calmed(z)
      BY <1>1, <2>1 DEF Calmed
    <2>3. Free(h)
      BY <1>4 DEF Careful
    <2> QED
      BY <1>4, <2>2, <2>3, <2>4, PutsFinal
  <1> QED
    BY <1>2, <1>3, <1>4 DEF GetOrCreate

\* A step within add_event that writes no entry.
LEMMA ProceedsFinal ==
    ASSUME Mapped, NEW p \in Procs, Careful(proc[p]), proc[p].pc # "idle", ~proc[p].miss,
           UNCHANGED hash_to_n,
           NEW y, Goto(p, y), Shaped(y), y.event = proc[p].event, y.miss = proc[p].miss,
           y.pc \notin {"set_have", "set_requested"},
           y.pc \in {"remove", "remove_status"} => y.status \in Final
    PROVE  Carried(p)
  <1>1. Calmed(y)
    BY DEF Calmed, Careful
  <1> QED
    BY <1>1, RestsFinal

LEMMA ResumesFinal ==
    ASSUME Mapped, NEW p \in Procs, Careful(proc[p]), proc[p].pc # "idle",
           UNCHANGED hash_to_n, Goto(p, Resume(proc[p])) \/ Goto(p, Idle)
    PROVE  Carried(p)
  <1>1. Calmed(Resume(proc[p]))
    BY ResumeCalmed DEF Careful
  <1> QED
    BY <1>1, IdleCalmed, RestsFinal

\* What add_event says of the hashes whose entries it writes.
LEMMA NamingFinal ==
    ASSUME Mapped, NEW p \in Procs, Careful(proc[p]), GetAuthor(p) \/ SlotAuthor(p) \/ InsertRef(p)
    PROVE  Carried(p)
  <1> DEFINE r == proc[p]
  <1>1. CASE GetAuthor(p)
    <2>1. r.pc = "author" /\ r.event.pubkey = Sought(r)
      BY <1>1 DEF GetAuthor, Sought
    <2> QED
      BY <1>1, <2>1, GetOrCreateFinal DEF GetAuthor
  <1>2. CASE SlotAuthor(p)
    <2>1. r.pc = "slot_author" /\ Goal(r).pubkey = Sought(r)
      BY <1>2 DEF SlotAuthor, Sought
    <2> QED
      BY <1>2, <2>1, GetOrCreateFinal DEF SlotAuthor
  <1>3. CASE InsertRef(p)
    <2>1. r.pc = "insert_keys" /\ Head(r.todo)[2].hash = Sought(r)
      BY <1>3 DEF InsertRef, Sought
    <2> QED
      BY <1>3, <2>1, GetOrCreateFinal DEF InsertRef
  <1> QED
    BY <1>1, <1>2, <1>3

LEMMA ClaimFinal ==
    ASSUME Mapped, NEW p \in Procs, Careful(proc[p]), Claim(p)
    PROVE  Carried(p)
  <1> DEFINE r == proc[p]
             entry == hash_to_n[r.event.id]
             l == IF entry # None /\ r.ref \in entry.by THEN "set_deleted" ELSE "set_have"
             m == IF entry = None THEN n_count ELSE entry.n
             y == [r EXCEPT !.pc = l, !.author = r.ref, !.n = m]
  <1>1. /\ r.pc = "claim" /\ UNCHANGED <<hash_to_n, expired>>
        /\ Shaped(r) /\ r.event \in Events /\ ~r.miss
    BY DEF Claim, db, book, Careful
  <1>2. l \in {"set_deleted", "set_have"}
    OBVIOUS
  <1>3. \/ Goto(p, Idle)
        \/ Goto(p, y) /\ (entry = None \/ entry.status = "Unknown")
    <2>1. CASE entry = None
      <3>1. l = "set_have" /\ m = n_count
        BY <2>1
      <3> HIDE DEF l, m
      <3> QED
        BY <2>1, <3>1 DEF Claim
    <2>2. CASE entry # None /\ entry.status = "Unknown"
      <3>1. l = (IF r.ref \in entry.by THEN "set_deleted" ELSE "set_have") /\ m = entry.n
        BY <2>2
      <3> HIDE DEF l, m
      <3> QED
        BY <2>2, <3>1 DEF Claim, Undecided
    <2>3. CASE entry # None /\ entry.status # "Unknown"
      BY <2>3 DEF Claim, Undecided
    <2> QED
      BY <2>1, <2>2, <2>3
  <1> HIDE DEF l, m
  <1>4. Shaped(y) /\ y.pc = l /\ y.event = r.event /\ ~y.miss
    BY <1>1 DEF Shaped, Fields
  <1> HIDE DEF y
  <1>5. CASE Goto(p, Idle)
    BY <1>1, <1>5, IdleCalmed, RestsFinal
  <1>6. CASE Goto(p, y) /\ (entry = None \/ entry.status = "Unknown")
    <2>1. proc'[p] = y /\ Mapped'
      BY <1>1, <1>6, At, StillMapped
    <2>2. Free(proc[p].event.id)'
      BY <1>1, <1>4, <1>6, <2>1 DEF Free, Final
    <2>3. Careful(proc[p])'
      BY <1>1, <1>2, <1>4, <2>1, <2>2 DEF Careful
    <2> QED
      BY <1>1, <1>6, <2>1, <2>3, At DEF FinalKept, Carried
  <1> QED
    BY <1>3, <1>5, <1>6

LEMMA DecidesFinal ==
    ASSUME Mapped, NEW p \in Procs, Careful(proc[p]), SetDeleted(p) \/ SetHave(p)
    PROVE  Carried(p)
  <1> DEFINE r == proc[p]
             e == r.event
  <1>1. CASE SetDeleted(p)
    <2>1. Entry(r.n, "Deleted", {}).status \in Final
      BY DEF Entry, Final
    <2> QED
      BY <1>1, <2>1, IdleCalmed, PutsFinal DEF SetDeleted
  <1>2. CASE SetHave(p)
    <2> DEFINE l == CASE IsReplaceable(e.kind) -> "search_author"
                      [] IsAddressable(e.kind) /\ FirstDValue(e) # None -> "slot_author"
                      [] e.kind = EVENT_DELETION -> "tags"
                      [] OTHER -> "insert"
               k == IF e.kind = EVENT_DELETION THEN 1 ELSE 0
               y == [r EXCEPT !.pc = l, !.tag = k]
    <2>1. r.pc = "set_have" /\ SetEntry(e.id, Entry(r.n, "Have", {})) /\ Goto(p, y)
      BY <1>2 DEF SetHave
    <2>2. l \in {"search_author", "slot_author", "tags", "insert"}
      OBVIOUS
    <2> HIDE DEF l, k
    <2>3. Shaped(r) /\ e \in Events /\ ~r.miss /\ Free(e.id)
      BY <2>1 DEF Careful
    <2>4. Shaped(y) /\ y.pc = l /\ y.event = e /\ ~y.miss
      BY <2>3 DEF Shaped, Fields
    <2> HIDE DEF y
    <2>5. Calmed(y)
      BY <2>2, <2>3, <2>4 DEF Calmed
    <2> QED
      BY <2>1, <2>3, <2>5, PutsFinal
  <1> QED
    BY <1>1, <1>2

LEMMA SearchFinal ==
    ASSUME Mapped, NEW p \in Procs, Careful(proc[p]),
           SearchTag(p) \/ SearchAuthor(p) \/ SearchKind(p)
    PROVE  Carried(p)
  <1> DEFINE r == proc[p]
  <1>1. UNCHANGED hash_to_n /\ r.pc \in {"search_tag", "search_author", "search_kind"}
    <2>1. CASE SearchTag(p)
      BY <2>1 DEF SearchTag, db
    <2>2. CASE SearchAuthor(p)
      BY <2>2 DEF SearchAuthor, db
    <2>3. CASE SearchKind(p)
      BY <2>3 DEF SearchKind, db
    <2> QED
      BY <2>1, <2>2, <2>3
  <1>2. Shaped(r) /\ ~r.miss /\ r.pc # "idle"
    BY <1>1 DEF Careful
  <1> DEFINE X(l, hits) == [r EXCEPT !.pc = l, !.cand = hits]
  <1>3. ASSUME NEW l \in {"search_author", "search_kind", "scan"}, NEW hits, Goto(p, X(l, hits))
        PROVE  Carried(p)
    <2> DEFINE y == X(l, hits)
    <2>1. Shaped(y) /\ y.pc = l /\ y.event = r.event /\ y.miss = r.miss
      BY <1>2 DEF Shaped, Fields
    <2>2. Goto(p, y)
      BY <1>3
    <2> HIDE DEF y
    <2> QED
      BY <1>1, <1>2, <2>1, <2>2, ProceedsFinal
  <1>4. CASE SearchTag(p)
    <2> DEFINE key == CompactNow(<<"d", Goal(r).d>>)
               hits == Hits(key)
    <2>1. Goto(p, IF key = None THEN Resume(r) ELSE X("search_author", hits))
      BY <1>4 DEF SearchTag
    <2> HIDE DEF key, hits, X
    <2>2. CASE key = None
      BY <1>1, <1>2, <2>1, <2>2, ResumesFinal
    <2>3. CASE key # None
      BY <1>3, <2>1, <2>3
    <2> QED
      BY <2>2, <2>3
  <1>5. CASE SearchAuthor(p)
    <2> DEFINE hits == Hits(Compact(Author(Goal(r).pubkey), r.ref))
               left == IF Goal(r).d = None THEN hits ELSE r.cand \cap hits
    <2>1. Goto(p, [r EXCEPT !.pc = "search_kind",
                            !.cand = IF Goal(r).d = None THEN hits ELSE @ \cap hits])
      BY <1>5 DEF SearchAuthor
    <2> HIDE DEF hits
    <2>2. Goto(p, X("search_kind", left))
      BY <2>1
    <2> HIDE DEF left, X
    <2> QED
      BY <1>3, <2>2
  <1>6. CASE SearchKind(p)
    <2> DEFINE hits == Hits(Kind(Goal(r).kind))
               left == r.cand \cap hits
    <2>1. Goto(p, [r EXCEPT !.pc = "scan", !.cand = @ \cap hits])
      BY <1>6 DEF SearchKind
    <2> HIDE DEF hits
    <2>2. Goto(p, X("scan", left))
      BY <2>1
    <2> HIDE DEF left, X
    <2> QED
      BY <1>3, <2>2
  <1> QED
    BY <1>4, <1>5, <1>6

LEMMA ScanFinal ==
    ASSUME Mapped, NEW p \in Procs, Careful(proc[p]), Scan(p)
    PROVE  Carried(p)
  <1> DEFINE r == proc[p]
             X(n) == [r EXCEPT !.pc = "remove", !.victim = n, !.status = "Outdated", !.cand = {}]
  <1>0. r.pc = "scan" /\ UNCHANGED db
    BY DEF Scan
  <1>1. UNCHANGED hash_to_n /\ r.pc = "scan"
    BY <1>0 DEF db
  <1>2. Shaped(r) /\ ~r.miss /\ r.pc # "idle"
    BY <1>1 DEF Careful
  <1>3. \/ Goto(p, Resume(r)) \/ Goto(p, Idle)
        \/ \E t \in r.cand : Goto(p, Skip(r, t)) \/ Goto(p, X(t[2]))
    BY DEF Scan
  <1> HIDE DEF X
  <1>4. ASSUME NEW t, Goto(p, Skip(r, t))
        PROVE  Carried(p)
    <2> DEFINE y == [r EXCEPT !.cand = r.cand \ {t}]
    <2>1. Shaped(y) /\ y.pc = r.pc /\ y.event = r.event /\ y.miss = r.miss
      BY <1>2 DEF Shaped, Fields
    <2>2. Goto(p, y)
      BY <1>4 DEF Skip
    <2> HIDE DEF y
    <2> QED
      BY <1>1, <1>2, <2>1, <2>2, ProceedsFinal
  <1>5. ASSUME NEW n, Goto(p, X(n))
        PROVE  Carried(p)
    <2> DEFINE y == X(n)
    <2>1. DOMAIN y = Fields /\ y = [f \in Fields |-> y[f]]
      BY <1>2 DEF Shaped, Fields, X
    <2>2. y.pc = "remove" /\ y.event = r.event /\ y.miss = r.miss /\ y.status = "Outdated"
      BY <1>2 DEF Shaped, Fields, X
    <2>3. Goto(p, y)
      BY <1>5
    <2> HIDE DEF y
    <2>4. Shaped(y)
      BY <2>1 DEF Shaped
    <2> QED
      BY <1>1, <1>2, <2>2, <2>3, <2>4, ProceedsFinal DEF Final
  <1> QED
    BY <1>1, <1>2, <1>3, <1>4, <1>5, ResumesFinal

\* The tags of a request.
LEMMA TagStepFinal ==
    ASSUME Mapped, NEW p \in Procs, Careful(proc[p]), TagStep(p)
    PROVE  Carried(p)
  <1> DEFINE r == proc[p]
             h == TagAt(r).value.hash
             entry == hash_to_n[h]
             X == [r EXCEPT !.pc = "insert", !.tag = 0]
             Y(n) == [r EXCEPT !.pc = "check_author", !.victim = n]
             Z(n, by) == [r EXCEPT !.pc = "set_requested", !.victim = n, !.by = by]
             W == [r EXCEPT !.pc = "slot_author"]
  <1>0. r.pc = "tags" /\ UNCHANGED <<db, book>>
    BY DEF TagStep
  <1>1. UNCHANGED hash_to_n /\ UNCHANGED expired
    BY <1>0 DEF db, book
  <1>2. Shaped(r) /\ ~r.miss /\ r.pc # "idle" /\ r.event \in Events
    BY <1>0 DEF Careful
  <1>3. CASE Goto(p, X)
    <2> DEFINE y == X
    <2>1. Shaped(y) /\ y.pc = "insert" /\ y.event = r.event /\ y.miss = r.miss
      BY <1>2 DEF Shaped, Fields
    <2>2. Goto(p, y)
      BY <1>3
    <2> HIDE DEF y
    <2> QED
      BY <1>1, <1>2, <2>1, <2>2, ProceedsFinal
  <1>4. CASE Goto(p, W)
    <2> DEFINE y == W
    <2>1. Shaped(y) /\ y.pc = "slot_author" /\ y.event = r.event /\ y.miss = r.miss
      BY <1>2 DEF Shaped, Fields
    <2>2. Goto(p, y)
      BY <1>4
    <2> HIDE DEF y
    <2> QED
      BY <1>1, <1>2, <2>1, <2>2, ProceedsFinal
  <1>5. ASSUME NEW n, Goto(p, Y(n))
        PROVE  Carried(p)
    <2> DEFINE y == Y(n)
    <2>1. Shaped(y) /\ y.pc = "check_author" /\ y.event = r.event /\ y.miss = r.miss
      BY <1>2 DEF Shaped, Fields
    <2>2. Goto(p, y)
      BY <1>5
    <2> HIDE DEF y
    <2> QED
      BY <1>1, <1>2, <2>1, <2>2, ProceedsFinal
  <1>6. ASSUME Free(h), NEW n, NEW by, Goto(p, Z(n, by))
        PROVE  Carried(p)
    <2> DEFINE y == Z(n, by)
    <2>1. DOMAIN y = Fields /\ y = [f \in Fields |-> y[f]]
      BY <1>2 DEF Shaped, Fields
    <2>2. y.pc = "set_requested" /\ y.event = r.event /\ y.miss = r.miss /\ y.tag = r.tag
      BY <1>2 DEF Shaped, Fields
    <2>3. Goto(p, y)
      BY <1>6
    <2> HIDE DEF y, h
    <2>4. Shaped(y)
      BY <2>1 DEF Shaped
    <2>5. proc'[p] = y /\ Mapped'
      BY <1>1, <2>3, At, StillMapped
    <2>6. proc'[p].event = r.event /\ proc'[p].tag = r.tag
      BY <2>2, <2>5
    <2>7. PICK g : g = h
      OBVIOUS
    <2>t. TagAt(proc'[p]).value.hash = g
      BY <2>6, <2>7 DEF h, TagAt
    <2>8. Free(g)'
      BY <1>1, <1>6, <2>7 DEF Free, Gone
    <2>9. Free(TagAt(proc[p]).value.hash)'
      BY <2>t, <2>8 DEF Free, Gone, TagAt
    <2>10. Careful(proc[p])'
      BY <1>2, <2>2, <2>4, <2>5, <2>9 DEF Careful
    <2> QED
      BY <1>1, <2>3, <2>5, <2>10, At DEF FinalKept, Carried
  <1>7. \/ Goto(p, X) \/ Goto(p, Resume(r)) \/ Goto(p, W)
        \/ entry = None /\ Goto(p, Z(n_count, {r.author}))
        \/ /\ entry # None
           /\ Goto(p, CASE Undecided(entry) -> Z(entry.n, Requested(entry, r.author))
                        [] ~Undecided(entry) /\ entry.status = "Have" -> Y(entry.n)
                        [] OTHER -> Resume(r))
    BY DEF TagStep, TagAt
  <1> HIDE DEF X, Y, Z, W
  <1>8. ASSUME entry = None \/ Undecided(entry) PROVE Free(h)
    BY <1>8 DEF Free, Final, Undecided
  <1>9. CASE entry = None /\ Goto(p, Z(n_count, {r.author}))
    BY <1>6, <1>8, <1>9
  <1>10. CASE /\ entry # None
              /\ Goto(p, CASE Undecided(entry) -> Z(entry.n, Requested(entry, r.author))
                           [] ~Undecided(entry) /\ entry.status = "Have" -> Y(entry.n)
                           [] OTHER -> Resume(r))
    <2>1. CASE Undecided(entry)
      <3>1. Goto(p, Z(entry.n, Requested(entry, r.author)))
        BY <1>10, <2>1
      <3> QED
        BY <1>6, <1>8, <2>1, <3>1
    <2>2. CASE ~Undecided(entry) /\ entry.status = "Have"
      <3>1. Goto(p, Y(entry.n))
        BY <1>10, <2>2
      <3> QED
        BY <1>5, <3>1
    <2>3. CASE ~Undecided(entry) /\ entry.status # "Have"
      <3>1. Goto(p, Resume(r))
        BY <1>10, <2>3
      <3> QED
        BY <1>1, <1>2, <3>1, ResumesFinal
    <2> QED
      BY <2>1, <2>2, <2>3
  <1> QED
    BY <1>1, <1>2, <1>3, <1>4, <1>7, <1>9, <1>10, ResumesFinal

LEMMA SetRequestedFinal ==
    ASSUME Mapped, NEW p \in Procs, Careful(proc[p]), SetRequested(p)
    PROVE  Carried(p)
  <1> DEFINE r == proc[p]
             entry == Entry(r.victim, "Unknown", r.by)
  <1>1. r.pc = "set_requested" /\ SetEntry(TagAt(r).value.hash, entry) /\ Goto(p, Resume(r))
    BY DEF SetRequested, TagAt
  <1>2. Free(TagAt(r).value.hash) /\ Calmed(Resume(r))
    BY <1>1, ResumeCalmed DEF Careful
  <1> HIDE DEF entry
  <1> QED
    BY <1>1, <1>2, PutsFinal

LEMMA CheckAuthorFinal ==
    ASSUME Mapped, NEW p \in Procs, Careful(proc[p]), CheckAuthor(p)
    PROVE  Carried(p)
  <1> DEFINE r == proc[p]
             y == [r EXCEPT !.pc = "remove", !.status = "Deleted"]
  <1>1. UNCHANGED hash_to_n /\ r.pc = "check_author" /\ (Goto(p, Resume(r)) \/ Goto(p, y))
    BY DEF CheckAuthor, db
  <1>2. Shaped(r) /\ ~r.miss /\ r.pc # "idle"
    BY <1>1 DEF Careful
  <1>3. Shaped(y) /\ y.pc = "remove" /\ y.event = r.event /\ y.miss = r.miss
    BY <1>2 DEF Shaped, Fields
  <1>4. y.status = "Deleted"
    BY <1>2 DEF Shaped, Fields
  <1> HIDE DEF y
  <1> QED
    BY <1>1, <1>2, <1>3, <1>4, ResumesFinal, ProceedsFinal DEF Final

LEMMA RemoveFinal ==
    ASSUME Mapped, NEW p \in Procs, Careful(proc[p]), Remove(p)
    PROVE  Carried(p)
  <1> DEFINE r == proc[p]
             e == n_to_event[r.victim]
             keys == Conditions(e)
             y == [r EXCEPT !.pc = "remove_status", !.removed = e, !.todo = keys]
  <1>1. UNCHANGED hash_to_n /\ r.pc = "remove" /\ (Goto(p, Resume(r)) \/ Goto(p, y))
    BY DEF Remove, db
  <1> HIDE DEF keys
  <1>2. Shaped(r) /\ ~r.miss /\ r.pc # "idle" /\ r.status \in Final
    BY <1>1 DEF Careful
  <1>3. Shaped(y) /\ y.pc = "remove_status" /\ y.event = r.event /\ y.miss = r.miss
    BY <1>2 DEF Shaped, Fields
  <1>4. y.status = r.status
    BY <1>2 DEF Shaped, Fields
  <1> HIDE DEF y
  <1> QED
    BY <1>1, <1>2, <1>3, <1>4, ResumesFinal, ProceedsFinal

LEMMA RemoveStatusFinal ==
    ASSUME Mapped, NEW p \in Procs, Careful(proc[p]), RemoveStatus(p)
    PROVE  Carried(p)
  <1> DEFINE r == proc[p]
             y == [r EXCEPT !.pc = "remove_keys"]
             entry == Entry(r.victim, r.status, {})
  <1>1. r.pc = "remove_status" /\ SetEntry(r.removed.id, entry) /\ Goto(p, y)
    BY DEF RemoveStatus
  <1>2. Shaped(r) /\ ~r.miss /\ r.event \in Events /\ r.status \in Final
    BY <1>1 DEF Careful
  <1>3. entry.status \in Final
    BY <1>2 DEF Entry
  <1>4. Shaped(y) /\ y.pc = "remove_keys" /\ y.event = r.event /\ y.miss = r.miss
    BY <1>2 DEF Shaped, Fields
  <1> HIDE DEF y, entry
  <1>5. Calmed(y)
    BY <1>2, <1>4 DEF Calmed
  <1> QED
    BY <1>1, <1>3, <1>5, PutsFinal

LEMMA RemovalFinal ==
    ASSUME Mapped, NEW p \in Procs, Careful(proc[p]),
           RemoveKey(p) \/ RemoveTime(p) \/ RemoveEvent(p)
    PROVE  Carried(p)
  <1> DEFINE r == proc[p]
             tail == Tail(r.todo)
             y == [r EXCEPT !.todo = tail]
             z == [r EXCEPT !.pc = "remove_event"]
  <1>1. CASE RemoveKey(p)
    <2>1. r.pc = "remove_keys" /\ UNCHANGED hash_to_n /\ Goto(p, y)
      BY <1>1 DEF RemoveKey
    <2> HIDE DEF tail
    <2>2. Shaped(r) /\ ~r.miss /\ r.pc # "idle"
      BY <2>1 DEF Careful
    <2>3. Shaped(y) /\ y.pc = r.pc /\ y.event = r.event /\ y.miss = r.miss
      BY <2>2 DEF Shaped, Fields
    <2> HIDE DEF y
    <2> QED
      BY <2>1, <2>2, <2>3, ProceedsFinal
  <1>2. CASE RemoveTime(p)
    <2>1. r.pc = "remove_keys" /\ UNCHANGED hash_to_n /\ Goto(p, z)
      BY <1>2 DEF RemoveTime
    <2>2. Shaped(r) /\ ~r.miss /\ r.pc # "idle"
      BY <2>1 DEF Careful
    <2>3. Shaped(z) /\ z.pc = "remove_event" /\ z.event = r.event /\ z.miss = r.miss
      BY <2>2 DEF Shaped, Fields
    <2> HIDE DEF z
    <2> QED
      BY <2>1, <2>2, <2>3, ProceedsFinal
  <1>3. CASE RemoveEvent(p)
    <2>1. r.pc = "remove_event" /\ UNCHANGED hash_to_n /\ Goto(p, Resume(r))
      BY <1>3 DEF RemoveEvent
    <2> QED
      BY <2>1, ResumesFinal
  <1> QED
    BY <1>1, <1>2, <1>3

LEMMA InsertionFinal ==
    ASSUME Mapped, NEW p \in Procs, Careful(proc[p]),
           Insert(p) \/ InsertKey(p) \/ InsertTime(p)
    PROVE  Carried(p)
  <1> DEFINE r == proc[p]
             keys == Conditions(r.event)
             tail == Tail(r.todo)
             y == [r EXCEPT !.pc = "insert_keys", !.todo = keys]
             z == [r EXCEPT !.pc = "insert_keys", !.todo = tail]
  <1>1. CASE Insert(p)
    <2>1. r.pc = "insert" /\ UNCHANGED hash_to_n /\ Goto(p, y)
      BY <1>1 DEF Insert
    <2> HIDE DEF keys
    <2>2. Shaped(r) /\ ~r.miss /\ r.pc # "idle"
      BY <2>1 DEF Careful
    <2>3. Shaped(y) /\ y.pc = "insert_keys" /\ y.event = r.event /\ y.miss = r.miss
      BY <2>2 DEF Shaped, Fields
    <2> HIDE DEF y
    <2> QED
      BY <2>1, <2>2, <2>3, ProceedsFinal
  <1>2. CASE InsertKey(p)
    <2>1. /\ UNCHANGED hash_to_n /\ Goto(p, z)
          /\ r.pc = "insert_key" \/ (r.pc = "insert_keys" /\ ~HasHash(Head(r.todo)))
      BY <1>2 DEF InsertKey
    <2> HIDE DEF tail
    <2>2. Shaped(r) /\ ~r.miss /\ r.pc # "idle"
      BY <2>1 DEF Careful
    <2>3. Shaped(z) /\ z.pc = "insert_keys" /\ z.event = r.event /\ z.miss = r.miss
      BY <2>2 DEF Shaped, Fields
    <2> HIDE DEF z
    <2> QED
      BY <2>1, <2>2, <2>3, ProceedsFinal
  <1>3. CASE InsertTime(p)
    <2>1. r.pc = "insert_keys" /\ UNCHANGED hash_to_n /\ Goto(p, Idle)
      BY <1>3 DEF InsertTime
    <2> QED
      BY <2>1, ResumesFinal
  <1> QED
    BY <1>1, <1>2, <1>3

LEMMA StepFinal ==
    ASSUME Mapped, NEW p \in Procs, Careful(proc[p]), Step(p)
    PROVE  Carried(p)
  <1>1. CASE GetAuthor(p) \/ SlotAuthor(p) \/ InsertRef(p)
    BY <1>1, NamingFinal
  <1>2. CASE Claim(p)
    BY <1>2, ClaimFinal
  <1>3. CASE SetDeleted(p) \/ SetHave(p)
    BY <1>3, DecidesFinal
  <1>4. CASE SearchTag(p) \/ SearchAuthor(p) \/ SearchKind(p)
    BY <1>4, SearchFinal
  <1>5. CASE Scan(p)
    BY <1>5, ScanFinal
  <1>6. CASE TagStep(p)
    BY <1>6, TagStepFinal
  <1>7. CASE SetRequested(p)
    BY <1>7, SetRequestedFinal
  <1>8. CASE CheckAuthor(p)
    BY <1>8, CheckAuthorFinal
  <1>9. CASE Remove(p)
    BY <1>9, RemoveFinal
  <1>10. CASE RemoveStatus(p)
    BY <1>10, RemoveStatusFinal
  <1>11. CASE RemoveKey(p) \/ RemoveTime(p) \/ RemoveEvent(p)
    BY <1>11, RemovalFinal
  <1>12. CASE Insert(p) \/ InsertKey(p) \/ InsertTime(p)
    BY <1>12, InsertionFinal
  <1> QED
    BY <1>1, <1>2, <1>3, <1>4, <1>5, <1>6, <1>7, <1>8, <1>9, <1>10, <1>11, <1>12 DEF Step

LEMMA StartAddFinal ==
    ASSUME Mapped, NEW p \in Procs, NEW e \in Events, StartAdd(p, e)
    PROVE  Carried(p)
  <1> DEFINE y == [Idle EXCEPT !.pc = "author", !.event = e]
  <1>1. UNCHANGED hash_to_n /\ Goto(p, y)
    BY DEF StartAdd, db
  <1>0. Shaped(Idle) /\ ~Idle.miss
    BY DEF Shaped, Fields, Idle
  <1>2. Shaped(y) /\ y.pc = "author" /\ y.event = e /\ y.miss = Idle.miss
    BY <1>0 DEF Shaped, Fields
  <1> HIDE DEF y
  <1>3. Calmed(y)
    BY <1>0, <1>2 DEF Calmed
  <1> QED
    BY <1>1, <1>3, RestsFinal

\* A thread that is idle has nothing to put.
LEMMA IdleFinal == \A p \in Procs : proc[p] = Idle => Careful(proc[p])
  BY IdleCalmed DEF Calmed, Careful

LEMMA StillIdle == ASSUME NEW p, proc'[p] = Idle PROVE Careful(proc[p])'
  <1>1. Calmed(proc'[p])
    BY IdleCalmed
  <1> QED
    BY <1>1, CalmedCareful

\* Only a thread that is busy moves.
LEMMA StepBusy == ASSUME NEW p \in Procs, Step(p) PROVE proc[p] # Idle
  <1>1. CASE GetAuthor(p) \/ Claim(p) \/ SetDeleted(p) \/ SetHave(p) \/ SlotAuthor(p)
    BY <1>1 DEF GetAuthor, Claim, SetDeleted, SetHave, SlotAuthor, Idle
  <1>2. CASE SearchTag(p) \/ SearchAuthor(p) \/ SearchKind(p)
    BY <1>2 DEF SearchTag, SearchAuthor, SearchKind, Idle
  <1>6. CASE Scan(p) \/ TagStep(p)
    <2>1. proc[p].pc \in {"scan", "tags"}
      BY <1>6 DEF Scan, TagStep
    <2> QED
      BY <2>1 DEF Idle
  <1>3. CASE SetRequested(p) \/ CheckAuthor(p) \/ Remove(p) \/ RemoveStatus(p)
    BY <1>3 DEF SetRequested, CheckAuthor, Remove, RemoveStatus, Idle
  <1>4. CASE RemoveKey(p) \/ RemoveTime(p) \/ RemoveEvent(p)
    BY <1>4 DEF RemoveKey, RemoveTime, RemoveEvent, Idle
  <1>5. CASE Insert(p) \/ InsertRef(p) \/ InsertKey(p) \/ InsertTime(p)
    BY <1>5 DEF Insert, InsertRef, InsertKey, InsertTime, Idle
  <1> QED
    BY <1>1, <1>2, <1>3, <1>4, <1>5, <1>6 DEF Step

\* Nothing but the end of add_event writes the book.
LEMMA BookKept == ASSUME NEW p \in Procs, Step(p), ~InsertTime(p) PROVE UNCHANGED book
  <1>1. CASE GetAuthor(p) \/ Claim(p) \/ SlotAuthor(p) \/ TagStep(p) \/ InsertRef(p)
    BY <1>1 DEF GetAuthor, Claim, SlotAuthor, TagStep, InsertRef
  <1>2. CASE ~(GetAuthor(p) \/ Claim(p) \/ SlotAuthor(p) \/ TagStep(p) \/ InsertRef(p))
    BY <1>2 DEF Step, SetDeleted, SetHave, SearchTag, SearchAuthor, SearchKind, Scan,
       SetRequested, CheckAuthor, Remove, RemoveStatus, RemoveKey, RemoveTime, RemoveEvent,
       Insert, InsertKey
  <1> QED
    BY <1>1, <1>2

\* No event has an expiration.
NoneExpire == \A e \in Events : ~Expires(e)

\* Any number of lifetimes in which events are added one at a time.
Turns == \A p, q \in Procs : proc[p] # Idle /\ proc[q] # Idle => p = q

CrashTurns == Init /\ [][(Next /\ Turns') \/ Restart]_vars

CrashOK ==
    /\ Mapped /\ Turns /\ expirations = {}
    /\ \A p \in Procs : Careful(proc[p])

\* Nothing is queued for the expiration task.
LEMMA NothingQueued ==
    ASSUME NoneExpire, CrashOK, (\E p \in Procs : Step(p)) \/ UNCHANGED book
    PROVE  expirations' = {}
  <1>1. CASE UNCHANGED book
    BY <1>1 DEF book, CrashOK
  <1>2. ASSUME NEW p \in Procs, Step(p) PROVE expirations' = {}
    <2>1. CASE InsertTime(p)
      <3>1. proc[p].event \in Events
        BY <2>1 DEF CrashOK, Careful, InsertTime
      <3> QED
        BY <2>1, <3>1 DEF InsertTime, Armed, NoneExpire, CrashOK
    <2>2. CASE ~InsertTime(p)
      BY <1>1, <1>2, <2>2, BookKept
    <2> QED
      BY <2>1, <2>2
  <1> QED
    BY <1>1, <1>2

LEMMA CrashNextOK ==
    ASSUME NoneExpire, CrashOK, [(Next /\ Turns') \/ Restart]_vars
    PROVE  CrashOK' /\ (FinalKept \/ UNCHANGED vars)
  <1>1. ASSUME NEW p \in Procs, Step(p), Turns'
        PROVE  CrashOK' /\ FinalKept
    <2>1. Carried(p) /\ proc[p] # Idle
      BY <1>1, StepFinal, StepBusy DEF CrashOK
    <2>2. ASSUME NEW q \in Procs, q # p PROVE Careful(proc[q])'
      <3>1. proc'[q] = Idle
        BY <2>1, <2>2 DEF CrashOK, Turns, Carried
      <3> QED
        BY <3>1, StillIdle
    <2>3. expirations' = {}
      BY <1>1, NothingQueued
    <2> QED
      BY <1>1, <2>1, <2>2, <2>3 DEF CrashOK, Carried
  <1>2. ASSUME NEW p \in Connections, NEW e \in Events, StartAdd(p, e), Turns'
        PROVE  CrashOK' /\ FinalKept
    <2>1. p \in Procs
      BY DEF Procs
    <2>2. Carried(p)
      BY <1>2, <2>1, StartAddFinal DEF CrashOK
    <2>3. expirations' = {}
      BY <1>2 DEF StartAdd, book, CrashOK
    <2>4. proc'[p] # Idle
      <3>1. proc'[p] = [Idle EXCEPT !.pc = "author", !.event = e]
        BY <1>2, <2>1, At DEF StartAdd, CrashOK
      <3>2. [Idle EXCEPT !.pc = "author", !.event = e].pc = "author" /\ Idle.pc = "idle"
        BY DEF Idle
      <3> QED
        BY <3>1, <3>2
    <2>5. ASSUME NEW q \in Procs, q # p PROVE Careful(proc[q])'
      <3>1. proc'[q] = Idle
        BY <1>2, <2>1, <2>4, <2>5 DEF Turns
      <3> QED
        BY <3>1, StillIdle
    <2> QED
      BY <1>2, <2>2, <2>3, <2>5 DEF CrashOK, Carried
  <1>3. ASSUME NEW e \in Events, NEW n \in Ns, StartExpire(e, n) PROVE FALSE
    BY <1>3 DEF StartExpire, CrashOK
  <1>4. CASE Restart
    <2>1. UNCHANGED <<hash_to_n, expired, expirations>> /\ proc' = [p \in Procs |-> Idle]
      BY <1>4 DEF Restart, db, book
    <2>2. Mapped' /\ FinalKept /\ Turns'
      BY <2>1 DEF CrashOK, Mapped, FinalKept, Turns
    <2>3. ASSUME NEW q \in Procs PROVE Careful(proc[q])'
      <3>1. proc'[q] = Idle
        BY <2>1
      <3> QED
        BY <3>1, StillIdle
    <2> QED
      BY <2>1, <2>2, <2>3 DEF CrashOK
  <1>5. CASE UNCHANGED vars
    <2>1. UNCHANGED <<hash_to_n, expired, expirations, proc>>
      BY <1>5 DEF vars, db, book
    <2>2. ASSUME NEW q \in Procs PROVE Careful(proc[q])'
      <3>1. Careful(proc[q]) /\ proc'[q] = proc[q]
        BY <2>1 DEF CrashOK
      <3>2. ASSUME Free(Sought(proc[q])) PROVE Free(Sought(proc[q]))'
        BY <2>1, <3>1, <3>2 DEF Free, Gone, Sought, Goal
      <3>3. ASSUME Free(TagAt(proc[q]).value.hash) PROVE Free(TagAt(proc[q]).value.hash)'
        BY <2>1, <3>1, <3>3 DEF Free, Gone, TagAt
      <3>4. ASSUME Free(proc[q].event.id) PROVE Free(proc[q].event.id)'
        BY <2>1, <3>1, <3>4 DEF Free, Gone
      <3> QED
        BY <3>1, <3>2, <3>3, <3>4 DEF Careful
    <2> QED
      BY <1>5, <2>1, <2>2 DEF CrashOK, Mapped, Turns
  <1> QED
    BY <1>1, <1>2, <1>3, <1>4, <1>5 DEF Next

\* An id that was deleted or replaced stays so, wherever crashes cut operations
\* short and whatever number is given out again, when no event expires.
THEOREM NothingRevived == ASSUME NoneExpire PROVE CrashTurns => TombstonesFinal
  <1>1. Init => CrashOK
    <2> SUFFICES ASSUME Init PROVE CrashOK
      OBVIOUS
    <2>1. \A p \in Procs : proc[p] = Idle
      BY DEF Init
    <2> QED
      BY <2>1, IdleFinal DEF Init, CrashOK, Mapped, Turns
  <1>2. CrashOK /\ [(Next /\ Turns') \/ Restart]_vars => CrashOK'
    BY CrashNextOK
  <1>3. CrashOK /\ [(Next /\ Turns') \/ Restart]_vars =>
            [\A h \in Hashes : hash_to_n[h] # None /\ hash_to_n[h].status \in {"Deleted", "Outdated"} =>
                \/ hash_to_n'[h].status \in {"Deleted", "Outdated"}
                \/ \E e \in expired : e.id = h]_vars
    BY CrashNextOK DEF FinalKept, Final, Gone
  <1> QED
    BY <1>1, <1>2, <1>3, PTL DEF CrashTurns, TombstonesFinal

-------------------------------------------------------------------------------
(* Within one lifetime, with the expiration task at any moment.              *)

\* Events are added one at a time.
AddInTurns == \A p, q \in Procs \ {Expirer} : proc[p] # Idle /\ proc[q] # Idle => p = q

LifeTurns == Init /\ [][Next /\ AddInTurns']_vars

\* The task removes what has expired: the number is still that event's.
Expiring(r) ==
    /\ r.event = None /\ r.pc \in Removing \cup {"idle"}
    /\ r.pc \in Removing => \E e \in expired : Owns(r.victim, e.id, owner)

LifeOK ==
    /\ Inv /\ AddInTurns /\ Expiring(proc[Expirer])
    /\ \A a \in accepted : Owns(a[2], a[1].id, owner)
    /\ \A p \in Procs \ {Expirer} : Careful(proc[p])

\* What the task does to the id of an expired event concerns nobody.
LEMMA StillCareful ==
    ASSUME Mapped, NEW q, Careful(proc[q]), proc'[q] = proc[q], expired \subseteq expired',
           UNCHANGED hash_to_n \/ \E g, entry : SetEntry(g, entry) /\ Gone(g)
    PROVE  Careful(proc[q])'
  <1>1. ASSUME NEW h, Free(h) PROVE Free(h)'
    <2>1. Gone(h) => Gone(h)'
      BY DEF Gone
    <2>2. CASE UNCHANGED hash_to_n
      BY <1>1, <2>1, <2>2 DEF Free
    <2>3. ASSUME NEW g, NEW entry, SetEntry(g, entry), Gone(g) PROVE Free(h)'
      <3>1. h = g \/ h \notin Hashes \/ hash_to_n'[h] = hash_to_n[h]
        BY <2>3 DEF SetEntry, Mapped
      <3> QED
        BY <1>1, <2>1, <2>3, <3>1 DEF Free
    <2> QED
      BY <2>2, <2>3
  <1>2. ASSUME Free(Sought(proc[q])) PROVE Free(Sought(proc[q]))'
    <2>1. PICK g : g = Sought(proc[q])
      OBVIOUS
    <2>2. Free(g)' /\ Sought(proc'[q]) = g
      BY <1>1, <1>2, <2>1
    <2> QED
      BY <2>2 DEF Free, Gone, Sought, Goal
  <1>3. ASSUME Free(TagAt(proc[q]).value.hash) PROVE Free(TagAt(proc[q]).value.hash)'
    <2>1. PICK g : g = TagAt(proc[q]).value.hash
      OBVIOUS
    <2>2. Free(g)' /\ TagAt(proc'[q]).value.hash = g
      BY <1>1, <1>3, <2>1
    <2> QED
      BY <2>2 DEF Free, Gone, TagAt
  <1>4. ASSUME Free(proc[q].event.id) PROVE Free(proc[q].event.id)'
    <2>1. PICK g : g = proc[q].event.id
      OBVIOUS
    <2>2. Free(g)' /\ proc'[q].event.id = g
      BY <1>1, <1>4, <2>1
    <2> QED
      BY <2>2 DEF Free, Gone
  <1> QED
    BY <1>2, <1>3, <1>4 DEF Careful

\* What is expired and what was accepted keep their numbers.
LEMMA StillExpiring ==
    ASSUME Extended, NEW r, Expiring(r), expired \subseteq expired'
    PROVE  /\ r.event = None /\ r.pc \in Removing \cup {"idle"}
           /\ r.pc \in Removing => \E e \in expired' : Owns(r.victim, e.id, owner')
  BY StillOwned DEF Expiring

LEMMA AddStepOK ==
    ASSUME LifeOK, NEW p \in Procs \ {Expirer}, Step(p), AddInTurns'
    PROVE  LifeOK' /\ FinalKept
  <1>1. Inv' /\ Extended /\ Mapped /\ Expirer \in Procs
    BY StepOK, OwnersKept DEF LifeOK, Next, Mapped, Inv, TypeOK, Procs
  <1>2. Carried(p) /\ proc[p] # Idle
    BY <1>1, StepFinal, StepBusy DEF LifeOK
  <1>3. ASSUME NEW q \in Procs \ {Expirer}, q # p PROVE Careful(proc[q])'
    <2>1. proc'[q] = Idle
      BY <1>2, <1>3 DEF LifeOK, AddInTurns, Carried
    <2> QED
      BY <2>1, StillIdle
  <1>4. /\ UNCHANGED expired
        /\ UNCHANGED accepted \/ (accepted' = accepted \cup {<<proc[p].event, proc[p].n>>}
                                  /\ InsertTime(p))
    <2>1. CASE InsertTime(p)
      BY <2>1 DEF InsertTime
    <2>2. CASE ~InsertTime(p)
      BY <2>2, BookKept DEF book
    <2> QED
      BY <2>1, <2>2
  <1>5. Expiring(proc[Expirer])'
    <2>1. proc'[Expirer] = proc[Expirer]
      BY <1>1, <1>2 DEF Carried
    <2>2. Expiring(proc[Expirer])
      BY DEF LifeOK
    <2> QED
      BY <1>1, <1>4, <2>1, <2>2, StillExpiring DEF Expiring
  <1>6. ASSUME NEW a \in accepted' PROVE Owns(a[2], a[1].id, owner')
    <2>1. CASE a \in accepted
      BY <1>1, <2>1, StillOwned DEF LifeOK
    <2>2. CASE a \notin accepted
      <3>1. a = <<proc[p].event, proc[p].n>> /\ InsertTime(p)
        BY <1>4, <1>6, <2>2
      <3>2. proc[p].pc = "insert_keys"
        BY <3>1 DEF InsertTime
      <3>3. /\ proc[p].n \in Ns /\ proc[p].event \in Events
            /\ owner[proc[p].n] = proc[p].event.id
        BY <3>2, EventHashes DEF LifeOK, Inv, RegistersOK, RegistersOwned, RegisterOK, RegisterOwned,
           HasNumber, Removing
      <3>4. Owns(proc[p].n, proc[p].event.id, owner)
        BY <3>3, EventHashes DEF Owns
      <3>5. Owns(proc[p].n, proc[p].event.id, owner')
        BY <1>1, <3>4, StillOwned
      <3> QED
        BY <3>1, <3>5
    <2> QED
      BY <2>1, <2>2
  <1> QED
    BY <1>1, <1>2, <1>3, <1>5, <1>6 DEF LifeOK, Carried

LEMMA RemovingOnly ==
    ASSUME NEW p, Step(p), proc[p].pc \in Removing \cup {"idle"}
    PROVE  Remove(p) \/ RemoveStatus(p) \/ RemoveKey(p) \/ RemoveTime(p) \/ RemoveEvent(p)
  <1>1. ~(GetAuthor(p) \/ Claim(p) \/ SetDeleted(p) \/ SetHave(p) \/ SlotAuthor(p))
    BY DEF GetAuthor, Claim, SetDeleted, SetHave, SlotAuthor, Removing
  <1>2. ~(SearchTag(p) \/ SearchAuthor(p) \/ SearchKind(p))
    BY DEF SearchTag, SearchAuthor, SearchKind, Removing
  <1>3. ~(Scan(p) \/ TagStep(p))
    <2>1. Scan(p) \/ TagStep(p) => proc[p].pc \in {"scan", "tags"}
      BY DEF Scan, TagStep
    <2> QED
      BY <2>1 DEF Removing
  <1>4. ~(SetRequested(p) \/ CheckAuthor(p))
    BY DEF SetRequested, CheckAuthor, Removing
  <1>5. ~(Insert(p) \/ InsertRef(p) \/ InsertKey(p) \/ InsertTime(p))
    BY DEF Insert, InsertRef, InsertKey, InsertTime, Removing
  <1> QED
    BY <1>1, <1>2, <1>3, <1>4, <1>5 DEF Step

\* The task removes one event, step by step, or finds it removed.
LEMMA ExpirerGoes ==
    ASSUME LifeOK, Expirer \in Procs, Step(Expirer)
    PROVE  LET r == proc[Expirer]
               x == proc'[Expirer]
           IN  /\ r.pc \in Removing
               /\ UNCHANGED hash_to_n \/ \E g, entry : SetEntry(g, entry) /\ Gone(g)
               /\ \A q \in Procs : q # Expirer => proc'[q] = proc[q]
               /\ \/ x = Idle
                  \/ x.event = r.event /\ x.pc \in Removing /\ x.victim = r.victim
  <1> DEFINE r == proc[Expirer]
             x == proc'[Expirer]
  <1> DEFINE Others == \A q \in Procs : q # Expirer => proc'[q] = proc[q]
  <1>1. r \in Registers /\ Expiring(r) /\ \A y : Goto(Expirer, y) => x = y /\ Others
    BY DEF LifeOK, Inv, TypeOK, Goto
  <1> HIDE DEF Others
  <1>2. Resume(r) = Idle
    BY <1>1 DEF Resume, Expiring
  <1>3. \/ Remove(Expirer) \/ RemoveStatus(Expirer) \/ RemoveKey(Expirer)
        \/ RemoveTime(Expirer) \/ RemoveEvent(Expirer)
    BY <1>1, RemovingOnly DEF Expiring
  <1>4. CASE Remove(Expirer)
    <2> DEFINE e == n_to_event[r.victim]
               keys == Conditions(e)
               y == [r EXCEPT !.pc = "remove_status", !.removed = e, !.todo = keys]
    <2>1. r.pc = "remove" /\ UNCHANGED db /\ (Goto(Expirer, Resume(r)) \/ Goto(Expirer, y))
      BY <1>4 DEF Remove
    <2> HIDE DEF keys, e
    <2>2. y.event = r.event /\ y.pc = "remove_status" /\ y.victim = r.victim
      BY <1>1 DEF Registers
    <2> HIDE DEF y
    <2> QED
      BY <1>1, <1>2, <2>1, <2>2 DEF db, Removing, Others
  <1>5. CASE RemoveStatus(Expirer)
    <2> DEFINE y == [r EXCEPT !.pc = "remove_keys"]
    <2>1. /\ r.pc = "remove_status" /\ Goto(Expirer, y)
          /\ SetEntry(r.removed.id, Entry(r.victim, r.status, {}))
      BY <1>5 DEF RemoveStatus
    <2>2. y.event = r.event /\ y.pc = "remove_keys" /\ y.victim = r.victim
      BY <1>1 DEF Registers
    <2> HIDE DEF y
    <2>3. owner[r.victim] = r.removed.id
      BY <2>1 DEF LifeOK, Inv, RegistersOwned, RegisterOwned, HasRemoved
    <2>4. Gone(r.removed.id)
      BY <1>1, <2>1, <2>3 DEF Expiring, Gone, Owns, Removing
    <2> QED
      BY <1>1, <2>1, <2>2, <2>4 DEF Removing, Others
  <1>6. CASE RemoveKey(Expirer)
    <2> DEFINE tail == Tail(r.todo)
               y == [r EXCEPT !.todo = tail]
    <2>1. r.pc = "remove_keys" /\ UNCHANGED hash_to_n /\ Goto(Expirer, y)
      BY <1>6 DEF RemoveKey
    <2> HIDE DEF tail
    <2>2. y.event = r.event /\ y.pc = r.pc /\ y.victim = r.victim
      BY <1>1 DEF Registers
    <2> HIDE DEF y
    <2> QED
      BY <1>1, <2>1, <2>2 DEF Removing, Others
  <1>7. CASE RemoveTime(Expirer)
    <2> DEFINE y == [r EXCEPT !.pc = "remove_event"]
    <2>1. r.pc = "remove_keys" /\ UNCHANGED hash_to_n /\ Goto(Expirer, y)
      BY <1>7 DEF RemoveTime
    <2>2. y.event = r.event /\ y.pc = "remove_event" /\ y.victim = r.victim
      BY <1>1 DEF Registers
    <2> HIDE DEF y
    <2> QED
      BY <1>1, <2>1, <2>2 DEF Removing, Others
  <1>8. CASE RemoveEvent(Expirer)
    <2>1. r.pc = "remove_event" /\ UNCHANGED hash_to_n /\ Goto(Expirer, Resume(r))
      BY <1>8 DEF RemoveEvent
    <2> QED
      BY <1>1, <1>2, <2>1 DEF Removing, Others
  <1> QED
    BY <1>3, <1>4, <1>5, <1>6, <1>7, <1>8

LEMMA ExpireStepOK ==
    ASSUME LifeOK, Expirer \in Procs, Step(Expirer)
    PROVE  LifeOK' /\ FinalKept
  <1> DEFINE r == proc[Expirer]
             x == proc'[Expirer]
  <1>1. Inv' /\ Extended /\ Mapped
    BY StepOK, OwnersKept DEF LifeOK, Next, Mapped, Inv, TypeOK
  <1>2. /\ r.pc \in Removing
        /\ UNCHANGED hash_to_n \/ \E g, entry : SetEntry(g, entry) /\ Gone(g)
        /\ \A q \in Procs : q # Expirer => proc'[q] = proc[q]
        /\ x = Idle \/ (x.event = r.event /\ x.pc \in Removing /\ x.victim = r.victim)
    BY ExpirerGoes
  <1>3. UNCHANGED book
    <2>1. ~InsertTime(Expirer)
      BY <1>2 DEF InsertTime, Removing
    <2> QED
      BY <2>1, BookKept
  <1>4. UNCHANGED <<accepted, expired>> /\ \A q \in Procs : q # Expirer => proc'[q] = proc[q]
    BY <1>2, <1>3 DEF book
  <1>5. FinalKept
    <2>1. CASE UNCHANGED hash_to_n
      BY <2>1 DEF FinalKept
    <2>2. ASSUME NEW g, NEW entry, SetEntry(g, entry), Gone(g) PROVE FinalKept
      <3>1. Free(g)
        BY <2>2 DEF Free
      <3> QED
        BY <1>1, <2>2, <3>1, PutFinal
    <2> QED
      BY <1>2, <2>1, <2>2
  <1>6. ASSUME NEW q \in Procs \ {Expirer} PROVE Careful(proc[q])'
    <2>1. Careful(proc[q]) /\ proc'[q] = proc[q]
      BY <1>4 DEF LifeOK
    <2> QED
      BY <1>1, <1>2, <1>4, <2>1, StillCareful
  <1>7. Expiring(proc[Expirer])'
    <2>1. Expiring(r)
      BY DEF LifeOK
    <2>2. CASE x = Idle
      BY <2>2 DEF Expiring, Idle, Removing
    <2>3. CASE x.event = r.event /\ x.pc \in Removing /\ x.victim = r.victim
      BY <1>1, <1>2, <1>4, <2>1, <2>3, StillExpiring DEF Expiring
    <2> QED
      BY <1>2, <2>2, <2>3
  <1>8. AddInTurns'
    BY <1>4 DEF LifeOK, AddInTurns
  <1>9. \A a \in accepted' : Owns(a[2], a[1].id, owner')
    BY <1>1, <1>4, StillOwned DEF LifeOK
  <1> QED
    BY <1>1, <1>5, <1>6, <1>7, <1>8, <1>9 DEF LifeOK

LEMMA StartsOK ==
    ASSUME LifeOK, AddInTurns',
           NEW e \in Events,
           (\E p \in Connections : StartAdd(p, e)) \/ (\E n \in Ns : StartExpire(e, n))
    PROVE  LifeOK' /\ FinalKept
  <1>1. Inv' /\ Extended /\ Mapped /\ Expirer \in Procs
    BY NextOK, OwnersKept DEF LifeOK, Next, Mapped, Inv, TypeOK, Procs
  <1>2. UNCHANGED <<hash_to_n, accepted, owner>>
    BY DEF StartAdd, StartExpire, db, book
  <1>3. FinalKept
    BY <1>2 DEF FinalKept
  <1>4. ASSUME NEW p \in Connections, StartAdd(p, e)
        PROVE  Expiring(proc[Expirer])' /\ \A q \in Procs \ {Expirer} : Careful(proc[q])'
    <2>1. p \in Procs /\ p # Expirer /\ UNCHANGED expired
      BY <1>4 DEF Procs, StartAdd, book
    <2>2. Carried(p)
      BY <1>1, <1>4, <2>1, StartAddFinal
    <2>3. Expiring(proc[Expirer])'
      BY <1>1, <1>2, <2>1, <2>2 DEF Carried, LifeOK, Expiring
    <2>4. ASSUME NEW q \in Procs \ {Expirer}, q # p PROVE Careful(proc[q])'
      <3>1. Careful(proc[q]) /\ proc'[q] = proc[q]
        BY <2>2, <2>4 DEF Carried, LifeOK
      <3> QED
        BY <1>1, <1>2, <2>1, <3>1, StillCareful
    <2> QED
      BY <2>2, <2>3, <2>4 DEF Carried
  <1>5. ASSUME NEW n \in Ns, StartExpire(e, n)
        PROVE  Expiring(proc[Expirer])' /\ \A q \in Procs \ {Expirer} : Careful(proc[q])'
    <2> DEFINE y == [Idle EXCEPT !.pc = "remove", !.victim = n, !.status = "Unknown"]
    <2>1. Goto(Expirer, y) /\ expired' = expired \cup {e} /\ <<e, n>> \in expirations
      BY <1>5 DEF StartExpire
    <2>2. y.pc = "remove" /\ y.victim = n /\ y.event = None
      BY DEF Idle
    <2> HIDE DEF y
    <2>3. proc'[Expirer] = y /\ \A q \in Procs : q # Expirer => proc'[q] = proc[q]
      BY <1>1, <2>1, At
    <2>4. <<e, n>> \in accepted
      BY <2>1 DEF LifeOK, Inv, TypeOK
    <2>5. Owns(n, e.id, owner)
      BY <2>4 DEF LifeOK
    <2>6. Expiring(proc[Expirer])'
      BY <1>2, <2>1, <2>2, <2>3, <2>5 DEF Expiring, Removing, Owns
    <2>7. ASSUME NEW q \in Procs \ {Expirer} PROVE Careful(proc[q])'
      <3>1. Careful(proc[q]) /\ proc'[q] = proc[q]
        BY <2>3 DEF LifeOK
      <3> QED
        BY <1>1, <1>2, <2>1, <3>1, StillCareful
    <2> QED
      BY <2>6, <2>7
  <1> QED
    BY <1>1, <1>2, <1>3, <1>4, <1>5 DEF LifeOK

LEMMA LifeNextOK ==
    ASSUME LifeOK, [Next /\ AddInTurns']_vars
    PROVE  LifeOK' /\ (FinalKept \/ UNCHANGED vars)
  <1>1. CASE Next /\ AddInTurns'
    <2>1. ASSUME NEW p \in Procs, Step(p) PROVE LifeOK' /\ FinalKept
      BY <1>1, <2>1, AddStepOK, ExpireStepOK
    <2>2. ASSUME NEW e \in Events,
                 (\E p \in Connections : StartAdd(p, e)) \/ (\E n \in Ns : StartExpire(e, n))
          PROVE  LifeOK' /\ FinalKept
      BY <1>1, <2>2, StartsOK
    <2> QED
      BY <1>1, <2>1, <2>2 DEF Next
  <1>2. CASE UNCHANGED vars
    <2>1. UNCHANGED <<hash_to_n, expired, accepted, owner, proc>> /\ Mapped
      BY <1>2 DEF vars, db, book, LifeOK, Inv, TypeOK, Mapped
    <2>2. Inv'
      BY <1>2, NextOK DEF LifeOK
    <2>3. ASSUME NEW q \in Procs \ {Expirer} PROVE Careful(proc[q])'
      <3>1. Careful(proc[q]) /\ proc'[q] = proc[q]
        BY <2>1 DEF LifeOK
      <3> QED
        BY <2>1, <3>1, StillCareful
    <2> QED
      BY <1>2, <2>1, <2>2, <2>3 DEF LifeOK, AddInTurns, Expiring
  <1> QED
    BY <1>1, <1>2

\* Events that are added one at a time stay deleted or replaced, whatever the
\* expiration task removes meanwhile, at whatever step of an add.
THEOREM RevivedOnlyExpired == LifeTurns => TombstonesFinal
  <1>1. Init => LifeOK
    <2> SUFFICES ASSUME Init PROVE LifeOK
      OBVIOUS
    <2>1. \A p \in Procs : proc[p] = Idle
      BY DEF Init
    <2>2. Expiring(Idle)
      BY DEF Expiring, Idle, Removing
    <2>3. Expirer \in Procs
      BY DEF Procs
    <2> QED
      BY <2>1, <2>2, <2>3, IdleFinal, InitOK DEF Init, LifeOK, AddInTurns
  <1>2. LifeOK /\ [Next /\ AddInTurns']_vars => LifeOK'
    BY LifeNextOK
  <1>3. LifeOK /\ [Next /\ AddInTurns']_vars =>
            [\A h \in Hashes : hash_to_n[h] # None /\ hash_to_n[h].status \in {"Deleted", "Outdated"} =>
                \/ hash_to_n'[h].status \in {"Deleted", "Outdated"}
                \/ \E e \in expired : e.id = h]_vars
    BY LifeNextOK DEF FinalKept, Final, Gone
  <1> QED
    BY <1>1, <1>2, <1>3, PTL DEF LifeTurns, TombstonesFinal
================================================================================
