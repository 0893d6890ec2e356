------------------------------ MODULE DbTurnsProofs -----------------------------
(*****************************************************************************)
(* Proofs about the event store when its callers take turns: between two     *)
(* operations the index is exactly that of the stored events, every stored   *)
(* event is known under its id, an address has one version, a deletion       *)
(* request is honoured, and an accepted event is only lost for a reason.     *)
(*                                                                           *)
(* What holds between two operations does not hold within one: add_event     *)
(* claims an id and stores the event much later, puts the event before its   *)
(* keys, and remove_event works from the other end.  TurnOK says how far the *)
(* one operation under way has got, by its registers: which entry, key or    *)
(* Time is still missing, and which is already gone.                         *)
(*****************************************************************************)
EXTENDS DbProofs, DbStore
-------------------------------------------------------------------------------
(* One operation at a time: what holds between two steps of an operation.    *)

Alone == \A p, q \in Busy : p = q

\* The registers of the operation under way.
Running == IF Busy = {} THEN Idle ELSE proc[CHOOSE p \in Busy : TRUE]

Known(h, n) == hash_to_n[h] # None /\ hash_to_n[h].n = n

\* The stored event under n is on its way out: its status has been written.
Leaving(r, n) == r.pc \in {"remove_keys", "remove_event"} /\ r.victim = n

Entering(r) == r.pc \in {"insert_keys", "insert_key"}

\* A hash that had no number still has none.
Missing(r) ==
    r.miss =>
        /\ r.pc \in {"author", "slot_author", "insert_keys"}
        /\ r.pc = "insert_keys" => r.todo # <<>> /\ HasHash(Head(r.todo))
        /\ hash_to_n[Sought(r)] = None

\* The hash in a key that is about to be put has its number.
Found(r) ==
    r.pc = "insert_key" =>
        /\ r.todo # <<>> /\ HasHash(Head(r.todo))
        /\ Known(Head(r.todo)[2].hash, r.ref)

\* What is known of the event that is being added.
Claimed(r) ==
    /\ r.pc \in {"set_have", "set_deleted"} =>
          /\ hash_to_n[r.event.id] # None => Known(r.event.id, r.n)
          /\ n_to_event[r.n] = None
    /\ HasNumber(r) /\ r.pc \notin {"set_have", "set_deleted"} =>
          /\ hash_to_n[r.event.id] = Entry(r.n, "Have", {})
          /\ n_to_event[r.n] = IF Entering(r) THEN r.event ELSE None

\* What is known of an id that a deletion request names.
Named(r) ==
    r.pc = "set_requested" =>
        LET h == TagAt(r).value.hash IN
        hash_to_n[h] # None => hash_to_n[h].status = "Unknown" /\ hash_to_n[h].n = r.victim

\* The event being removed is still there.
Removable(r) ==
    /\ HasRemoved(r) => n_to_event[r.victim] = r.removed
    /\ r.pc = "remove_status" => r.todo = Conditions(r.removed)
    /\ r.pc = "remove_event" => r.todo = <<>>

StoredHave(r) ==
    \A n \in Stored : ~Leaving(r, n) => hash_to_n[n_to_event[n].id] = Entry(n, "Have", {})

\* The times are those of the stored events, but for the one that comes or goes.
TimesExact(r) ==
    /\ \A n \in Stored :
          \/ TimeOf(n_to_event[n], n) \in time
          \/ Entering(r) /\ r.n = n
          \/ r.pc = "remove_event" /\ r.victim = n
    /\ \A t \in time : \E n \in Stored :
          /\ t = TimeOf(n_to_event[n], n)
          /\ ~(r.pc = "remove_event" /\ r.victim = n)

\* So are the conditions, but for those still to put and those already deleted.
KeysExact(r) ==
    /\ \A n \in Stored : \A c \in Range(Conditions(n_to_event[n])) :
          \/ <<CompactNow(c), TimeOf(n_to_event[n], n)>> \in conditions
          \/ Entering(r) /\ r.n = n /\ c \in Range(r.todo)
          \/ Leaving(r, n)
    /\ \A k \in conditions : \E n \in Stored : \E c \in Range(Conditions(n_to_event[n])) :
          /\ k = <<CompactNow(c), TimeOf(n_to_event[n], n)>>
          /\ Leaving(r, n) => c \in Range(r.todo)

TurnOK(r) ==
    /\ Missing(r) /\ Found(r) /\ Claimed(r) /\ Named(r) /\ Removable(r)
    /\ StoredHave(r) /\ TimesExact(r) /\ KeysExact(r)

TurnInv == IndexInv /\ Alone /\ TurnOK(Running)
-------------------------------------------------------------------------------
(* What the steps of an operation have in common.                            *)

\* The thread that takes a step is the one that is running.
LEMMA Turn ==
    ASSUME Inv, Alone, Alone', NEW p \in Procs, NEW x, Goto(p, x),
           proc[p] # Idle \/ x # Idle
    PROVE  Running = proc[p] /\ Running' = x /\ proc'[p] = x
  <1>1. proc'[p] = x /\ \A q \in Procs : q # p => proc'[q] = proc[q]
    BY DEF Inv, TypeOK, Goto
  <1>2. Busy \subseteq {p}
    <2> SUFFICES ASSUME NEW q \in Busy, q # p PROVE FALSE
      OBVIOUS
    <2>1. q \in Procs /\ proc'[q] # Idle
      BY <1>1 DEF Busy
    <2>2. CASE proc[p] # Idle
      BY <2>2 DEF Busy, Alone
    <2>3. CASE x # Idle
      BY <1>1, <2>1, <2>3 DEF Busy, Alone
    <2> QED
      BY <2>2, <2>3
  <1>3. Busy' \subseteq {p}
    <2> SUFFICES ASSUME NEW q \in Procs, proc'[q] # Idle PROVE q = p
      BY DEF Busy
    <2>1. q # p => q \in Busy
      BY <1>1 DEF Busy
    <2> QED
      BY <1>2, <2>1
  <1>4. Running = proc[p]
    <2>1. CASE proc[p] = Idle
      <3>1. Busy = {}
        BY <1>2, <2>1 DEF Busy
      <3> QED
        BY <2>1, <3>1 DEF Running
    <2>2. CASE proc[p] # Idle
      <3>1. Busy = {p}
        BY <1>2, <2>2 DEF Busy
      <3>2. (CHOOSE q \in {p} : TRUE) = p
        OBVIOUS
      <3> QED
        BY <3>1, <3>2 DEF Running
    <2> QED
      BY <2>1, <2>2
  <1>5. Running' = x
    <2>1. CASE x = Idle
      <3>1. Busy' = {}
        BY <1>1, <1>3, <2>1 DEF Busy
      <3> QED
        BY <2>1, <3>1 DEF Running
    <2>2. CASE x # Idle
      <3>1. Busy' = {p}
        BY <1>1, <1>3, <2>2 DEF Busy
      <3>2. (CHOOSE q \in {p} : TRUE) = p
        OBVIOUS
      <3>3. Running' = proc'[CHOOSE q \in {p} : TRUE]
        BY <3>1 DEF Running
      <3> QED
        BY <1>1, <3>2, <3>3
    <2> QED
      BY <2>1, <2>2
  <1> QED
    BY <1>1, <1>4, <1>5

\* A hash keeps its number.
Stable ==
    \A h \in Hashes : hash_to_n[h] # None =>
        hash_to_n'[h] # None /\ hash_to_n'[h].n = hash_to_n[h].n

Aside == {"remove_keys", "remove_event", "insert_keys", "insert_key"}

\* Entries are not None.
LEMMA EntryIsSome ==
    /\ \A n \in Ns, status \in Status : \A by \in SUBSET Ns : Entry(n, status, by) # None
    /\ \A n, status, by : /\ Entry(n, status, by).n = n
                          /\ Entry(n, status, by).status = status
                          /\ Entry(n, status, by).by = by
    /\ {} \in SUBSET Ns /\ "Have" \in Status
  <1>1. \A n \in Ns, status \in Status : \A by \in SUBSET Ns :
            Entry(n, status, by) \in [n : Ns, status : Status, by : SUBSET Ns]
    BY DEF Entry
  <1>2. None \notin [n : Ns, status : Status, by : SUBSET Ns]
    BY DbAssumption
  <1> QED
    BY <1>1, <1>2 DEF Entry, Status

\* The key of a condition stays what it is.
LEMMA StillCompact ==
    ASSUME Stable, NEW c, IsCondition(c), CompactNow(c) # None
    PROVE  CompactNow(c)' = CompactNow(c)
  <1>1. CASE HasHash(c)
    <2>1. c[2].hash \in Hashes /\ hash_to_n[c[2].hash] # None
      BY <1>1 DEF IsCondition, CompactNow
    <2>2. hash_to_n'[c[2].hash] # None /\ hash_to_n'[c[2].hash].n = hash_to_n[c[2].hash].n
      BY <2>1 DEF Stable
    <2> QED
      BY <1>1, <2>1, <2>2 DEF CompactNow
  <1>2. CASE ~HasHash(c)
    BY <1>2 DEF CompactNow, Compact
  <1> QED
    BY <1>1, <1>2

\* A key in the index is not None.
LEMMA KeyIsSome ==
    ASSUME IndexInv, NEW k \in conditions
    PROVE  k[1] # None
  BY ConditionsAssumption DEF IndexInv, Inv, TypeOK

\* The index stays exact while it and the stored events are left alone.
LEMMA StillExact ==
    ASSUME IndexInv, Stable, TimesExact(Running), KeysExact(Running),
           UNCHANGED <<n_to_event, conditions, time>>,
           \/ Running.pc \notin Aside /\ Running'.pc \notin Aside
           \/ /\ Entering(Running) /\ Entering(Running)'
              /\ Running'.n = Running.n /\ Running'.todo = Running.todo
    PROVE  TimesExact(Running)' /\ KeysExact(Running)'
  <1>1. /\ Entering(Running)' <=> Entering(Running)
        /\ Entering(Running) => Running'.n = Running.n /\ Running'.todo = Running.todo
        /\ \A n : ~Leaving(Running, n) /\ ~Leaving(Running, n)'
        /\ Running.pc # "remove_event" /\ Running'.pc # "remove_event"
        /\ Stored' = Stored
    BY DEF Aside, Entering, Leaving, Stored
  <1>2. ASSUME NEW n \in Stored
        PROVE  n_to_event[n] \in Events
    BY DEF Stored, IndexInv, Inv, TypeOK
  <1>3. ASSUME NEW n \in Stored, NEW c \in Range(Conditions(n_to_event[n])),
               CompactNow(c) # None
        PROVE  CompactNow(c)' = CompactNow(c)
    BY <1>2, <1>3, EventConditions, StillCompact
  <1>4. TimesExact(Running)'
    BY <1>1 DEF TimesExact
  <1>5. ASSUME NEW n \in Stored, NEW c \in Range(Conditions(n_to_event[n])),
               <<CompactNow(c), TimeOf(n_to_event[n], n)>> \in conditions
        PROVE  CompactNow(c)' = CompactNow(c)
    <2>1. <<CompactNow(c), TimeOf(n_to_event[n], n)>>[1] # None
      BY <1>5, KeyIsSome
    <2> QED
      BY <1>3, <2>1
  <1>6. KeysExact(Running)'
    <2>1. ASSUME NEW n \in Stored, NEW c \in Range(Conditions(n_to_event[n]))
          PROVE  \/ <<CompactNow(c)', TimeOf(n_to_event[n], n)>> \in conditions
                 \/ Entering(Running) /\ Running.n = n /\ c \in Range(Running.todo)
      BY <1>1, <1>5, <2>1 DEF KeysExact
    <2>2. ASSUME NEW k \in conditions
          PROVE  \E n \in Stored : \E c \in Range(Conditions(n_to_event[n])) :
                     k = <<CompactNow(c)', TimeOf(n_to_event[n], n)>>
      BY <1>5, <2>2 DEF KeysExact
    <2> QED
      BY <1>1, <2>1, <2>2 DEF KeysExact
  <1> QED
    BY <1>4, <1>6

\* The stored events stay known while their entries are left alone.
LEMMA StillHave ==
    ASSUME StoredHave(Running), UNCHANGED n_to_event,
           \A n \in Stored : hash_to_n'[n_to_event[n].id] = hash_to_n[n_to_event[n].id],
           \A n : Leaving(Running, n) => Leaving(Running, n)'
    PROVE  StoredHave(Running)'
  BY DEF StoredHave, Stored

\* A step that leaves the databases alone.
LEMMA ReadsTurn ==
    ASSUME IndexInv, TurnOK(Running), UNCHANGED <<hash_to_n, n_to_event, conditions, time>>,
           NEW x, Running' = x, Running.pc \notin Aside, x.pc \notin Aside,
           ~x.miss, Claimed(x), Named(x), Removable(x)
    PROVE  TurnOK(Running)'
  <1>1. Stable
    BY DEF Stable
  <1>2. TimesExact(Running)' /\ KeysExact(Running)'
    BY <1>1, StillExact DEF TurnOK
  <1>3. \A n : ~Leaving(Running, n)
    BY DEF Leaving, Aside
  <1>4. StoredHave(Running)'
    BY <1>3, StillHave DEF TurnOK
  <1>5. Missing(Running)' /\ Found(Running)'
    BY DEF Missing, Found, Aside
  <1>6. Claimed(Running)' /\ Named(Running)' /\ Removable(Running)'
    BY DEF Claimed, Named, Removable, HasNumber, HasRemoved, Entering, Known, TagAt
  <1> QED
    BY <1>2, <1>4, <1>5, <1>6 DEF TurnOK

\* An entry that is put under a hash has the number of the hash.
LEMMA PutStable ==
    ASSUME Inv, NEW h \in Hashes, NEW entry, SetEntry(h, entry), entry # None,
           hash_to_n[h] # None => hash_to_n[h].n = entry.n
    PROVE  /\ Stable /\ hash_to_n'[h] = entry
           /\ \A g \in Hashes : g # h => hash_to_n'[g] = hash_to_n[g]
  <1>1. hash_to_n' = [hash_to_n EXCEPT ![h] = entry] /\ DOMAIN hash_to_n = Hashes
    BY DEF SetEntry, Inv, TypeOK
  <1>2. hash_to_n'[h] = entry /\ \A g \in Hashes : g # h => hash_to_n'[g] = hash_to_n[g]
    BY <1>1
  <1> QED
    BY <1>2 DEF Stable

\* What is claimed or stored has an entry of its own: it does not mind what is
\* put under another hash.
LEMMA StoredIds ==
    ASSUME IndexInv, NEW n \in Stored
    PROVE  n_to_event[n] \in Events /\ n_to_event[n].id \in Hashes /\ n \in Ns
  BY EventHashes DEF IndexInv, Inv, TypeOK, Stored

\* Getting or creating the number of a hash: the thread goes on when the hash has one,
\* and the entries that are there stay.
LEMMA Looked ==
    ASSUME IndexInv, TurnOK(Running), NEW p \in Procs, NEW h \in Hashes, NEW next,
           GetOrCreate(p, h, next), Running = proc[p], Running' = proc'[p],
           h = Sought(proc[p]), UNCHANGED <<n_to_event, conditions, time>>,
           \/ proc[p].pc = "author" /\ next = "claim"
           \/ proc[p].pc = "slot_author" /\ next = "search_tag" /\ HasNumber(proc[p])
           \/ /\ proc[p].pc = "insert_keys" /\ next = "insert_key" /\ HasNumber(proc[p])
              /\ proc[p].todo # <<>> /\ HasHash(Head(proc[p].todo))
    PROVE  LET r == proc[p]
               x == proc'[p]
           IN  /\ r \in Registers /\ r.pc \in {"author", "slot_author", "insert_keys"}
               /\ x.event = r.event /\ x.tag = r.tag /\ x.todo = r.todo /\ x.n = r.n
               /\ x.author = r.author /\ x.pc \in {r.pc, next}
               /\ x.miss => x.pc = r.pc /\ hash_to_n'[h] = None
               /\ x.pc = next => hash_to_n'[h] # None /\ hash_to_n'[h].n = x.ref
               /\ Stable /\ \A g \in Hashes : hash_to_n[g] # None => hash_to_n'[g] = hash_to_n[g]
               /\ \A g \in Hashes : hash_to_n[g] = None /\ hash_to_n'[g] # None =>
                     hash_to_n'[g].status = "Unknown" /\ hash_to_n'[g].by = {}
  <1> DEFINE r == proc[p]
             x == proc'[p]
  <1>1. /\ r \in Registers /\ p \in DOMAIN proc
        /\ r.pc \in {"author", "slot_author", "insert_keys"}
    BY DEF IndexInv, Inv, TypeOK
  <1>2. /\ x.event = r.event /\ x.tag = r.tag /\ x.todo = r.todo /\ x.n = r.n
        /\ x.author = r.author
        /\ \/ x.pc = r.pc /\ x.miss = TRUE /\ ~r.miss /\ hash_to_n[h] = None
              /\ UNCHANGED hash_to_n
           \/ x.pc = next /\ x.miss = r.miss /\ ~r.miss /\ hash_to_n[h] # None
              /\ x.ref = hash_to_n[h].n /\ UNCHANGED hash_to_n
           \/ x.pc = next /\ x.miss = FALSE /\ r.miss /\ x.ref = n_count /\ Allocate(h)
              /\ SetEntry(h, Entry(n_count, "Unknown", {}))
    <2>1. ASSUME NEW y, Goto(p, y) PROVE x = y
      BY <1>1, <2>1 DEF Goto
    <2>2. CASE ~r.miss /\ hash_to_n[h] # None
      <3> DEFINE y == [r EXCEPT !.pc = next, !.ref = hash_to_n[h].n]
      <3>1. Goto(p, y) /\ UNCHANGED hash_to_n
        BY <2>2 DEF GetOrCreate
      <3>2. /\ y.event = r.event /\ y.tag = r.tag /\ y.todo = r.todo /\ y.n = r.n
            /\ y.author = r.author
            /\ y.pc = next /\ y.miss = r.miss /\ y.ref = hash_to_n[h].n
        BY <1>1 DEF Registers
      <3> HIDE DEF y
      <3> QED
        BY <2>1, <2>2, <3>1, <3>2
    <2>3. CASE ~r.miss /\ hash_to_n[h] = None
      <3> DEFINE y == [r EXCEPT !.miss = TRUE]
      <3>1. Goto(p, y) /\ UNCHANGED hash_to_n
        BY <2>3 DEF GetOrCreate
      <3>2. /\ y.event = r.event /\ y.tag = r.tag /\ y.todo = r.todo /\ y.n = r.n
            /\ y.author = r.author
            /\ y.pc = r.pc /\ y.miss = TRUE
        BY <1>1 DEF Registers
      <3> HIDE DEF y
      <3> QED
        BY <2>1, <2>3, <3>1, <3>2
    <2>4. CASE r.miss
      <3> DEFINE y == [r EXCEPT !.pc = next, !.ref = n_count, !.miss = FALSE]
      <3>1. Goto(p, y) /\ Allocate(h) /\ SetEntry(h, Entry(n_count, "Unknown", {}))
        BY <2>4 DEF GetOrCreate
      <3>2. /\ y.event = r.event /\ y.tag = r.tag /\ y.todo = r.todo /\ y.n = r.n
            /\ y.author = r.author
            /\ y.pc = next /\ y.miss = FALSE /\ y.ref = n_count
        BY <1>1 DEF Registers
      <3> HIDE DEF y
      <3> QED
        BY <2>1, <2>4, <3>1, <3>2
    <2> QED
      BY <2>2, <2>3, <2>4
  <1>3. r.miss => hash_to_n[h] = None
    BY DEF TurnOK, Missing
  <1>4. /\ Stable /\ \A g \in Hashes : hash_to_n[g] # None => hash_to_n'[g] = hash_to_n[g]
        /\ x.pc = next => hash_to_n'[h] # None /\ hash_to_n'[h].n = x.ref
        /\ \A g \in Hashes : hash_to_n[g] = None /\ hash_to_n'[g] # None =>
              hash_to_n'[g].status = "Unknown" /\ hash_to_n'[g].by = {}
    <2>1. CASE r.miss
      <3>1. n_count \in Ns
        BY <1>2, <2>1 DEF Allocate
      <3>2. /\ Entry(n_count, "Unknown", {}) # None /\ Entry(n_count, "Unknown", {}).n = n_count
            /\ Entry(n_count, "Unknown", {}).status = "Unknown"
            /\ Entry(n_count, "Unknown", {}).by = {}
        BY <3>1, EntryIsSome DEF Status
      <3>3. /\ Stable /\ hash_to_n'[h] = Entry(n_count, "Unknown", {})
            /\ \A g \in Hashes : g # h => hash_to_n'[g] = hash_to_n[g]
        BY <1>2, <1>3, <2>1, <3>2, PutStable DEF IndexInv
      <3> QED
        BY <1>2, <1>3, <2>1, <3>2, <3>3
    <2>2. CASE ~r.miss
      BY <1>2, <2>2 DEF Stable
    <2> QED
      BY <2>1, <2>2
  <1> QED
    BY <1>1, <1>2, <1>4

LEMMA GetOrCreateTurn ==
    ASSUME IndexInv, TurnOK(Running), NEW p \in Procs, NEW h \in Hashes, NEW next,
           GetOrCreate(p, h, next), Running = proc[p], Running' = proc'[p],
           h = Sought(proc[p]), UNCHANGED <<n_to_event, conditions, time>>,
           \/ proc[p].pc = "author" /\ next = "claim"
           \/ proc[p].pc = "slot_author" /\ next = "search_tag" /\ HasNumber(proc[p])
           \/ /\ proc[p].pc = "insert_keys" /\ next = "insert_key" /\ HasNumber(proc[p])
              /\ proc[p].todo # <<>> /\ HasHash(Head(proc[p].todo))
    PROVE  TurnOK(Running)'
  <1> DEFINE r == proc[p]
             x == proc'[p]
  <1>1. /\ r \in Registers /\ p \in DOMAIN proc
        /\ r.pc \in {"author", "slot_author", "insert_keys"}
    BY DEF IndexInv, Inv, TypeOK
  <1>2. /\ x.event = r.event /\ x.tag = r.tag /\ x.todo = r.todo /\ x.n = r.n
        /\ x.pc \in {r.pc, next} /\ (x.miss => x.pc = r.pc /\ hash_to_n'[h] = None)
    BY Looked
  <1>3. r.pc # next
    BY <1>1
  <1>4. /\ Stable /\ \A g \in Hashes : hash_to_n[g] # None => hash_to_n'[g] = hash_to_n[g]
        /\ x.pc = next => hash_to_n'[h] # None /\ hash_to_n'[h].n = x.ref
    BY Looked
  <1>5. TimesExact(Running)' /\ KeysExact(Running)'
    <2>1. CASE r.pc = "insert_keys"
      BY <1>2, <1>4, <2>1, StillExact DEF TurnOK, Entering
    <2>2. CASE r.pc # "insert_keys"
      BY <1>1, <1>2, <1>4, <2>2, StillExact DEF TurnOK, Aside
    <2> QED
      BY <2>1, <2>2
  <1>6. StoredHave(Running)'
    <2>1. \A n : ~Leaving(Running, n)
      BY <1>1 DEF Leaving
    <2>2. ASSUME NEW n \in Stored PROVE hash_to_n[n_to_event[n].id] # None
      <3>1. n_to_event[n].id \in Hashes /\ n \in Ns
        BY StoredIds
      <3>2. hash_to_n[n_to_event[n].id] = Entry(n, "Have", {})
        BY <2>1 DEF TurnOK, StoredHave
      <3> QED
        BY <3>1, <3>2, EntryIsSome
    <2>3. \A n \in Stored : hash_to_n'[n_to_event[n].id] = hash_to_n[n_to_event[n].id]
      BY <1>4, <2>2, StoredIds
    <2> QED
      BY <2>1, <2>3, StillHave DEF TurnOK
  <1>7. Missing(Running)' /\ Found(Running)'
    <2>1. x.pc = r.pc => Sought(x) = Sought(r)
      BY <1>1, <1>2, SameGoal DEF Sought
    <2>2. Missing(Running)'
      <3>1. CASE x.miss
        <4>1. x.pc = r.pc /\ hash_to_n'[h] = None
          BY <1>2, <3>1
        <4>2. Sought(Running)' = h
          BY <2>1, <4>1 DEF Sought
        <4> QED
          BY <1>1, <1>2, <4>1, <4>2 DEF Missing
      <3>2. CASE ~x.miss
        BY <3>2 DEF Missing
      <3> QED
        BY <3>1, <3>2
    <2>3. Found(Running)'
      <3>1. CASE next = "insert_key" /\ x.pc = next
        <4>1. h = Head(r.todo)[2].hash
          BY <1>1, <3>1 DEF Sought
        <4> QED
          BY <1>2, <1>4, <3>1, <4>1 DEF Found, Known
      <3>2. CASE x.pc # "insert_key"
        BY <3>2 DEF Found
      <3> QED
        BY <1>1, <1>2, <3>1, <3>2
    <2> QED
      BY <2>2, <2>3
  <1>8. Claimed(Running)' /\ Named(Running)' /\ Removable(Running)'
    <2>1. x.pc \in {"author", "claim", "slot_author", "search_tag", "insert_keys", "insert_key"}
      BY <1>1, <1>2
    <2>2. Named(Running)' /\ Removable(Running)'
      BY <2>1 DEF Named, Removable, HasRemoved
    <2>3. CASE HasNumber(r)
      <3>1. /\ hash_to_n[r.event.id] = Entry(r.n, "Have", {})
            /\ n_to_event[r.n] = IF Entering(r) THEN r.event ELSE None
        BY <1>1, <2>3 DEF TurnOK, Claimed
      <3>2. r.event.id \in Hashes /\ r.n \in Ns
        BY <2>3, Numbered DEF IndexInv
      <3>3. hash_to_n'[r.event.id] = Entry(r.n, "Have", {})
        BY <1>4, <3>1, <3>2, EntryIsSome
      <3>4. Entering(Running)' <=> Entering(r)
        BY <1>1, <1>2, <2>3 DEF Entering, HasNumber
      <3>5. n_to_event'[Running'.n] = IF Entering(Running)' THEN r.event ELSE None
        BY <1>2, <3>1, <3>4
      <3> QED
        BY <1>2, <2>1, <2>2, <3>3, <3>5 DEF Claimed
    <2>4. CASE ~HasNumber(r)
      <3>1. x.pc \in {"author", "claim"}
        BY <1>1, <1>2, <2>4 DEF HasNumber
      <3> QED
        BY <2>2, <3>1 DEF Claimed, HasNumber
    <2> QED
      BY <2>3, <2>4
  <1> QED
    BY <1>5, <1>6, <1>7, <1>8 DEF TurnOK
-------------------------------------------------------------------------------
(* The steps that leave the databases alone.                                 *)

LEMMA NoMiss ==
    ASSUME Inv, TurnOK(Running), NEW p \in Procs, Running = proc[p],
           proc[p].pc \notin {"author", "slot_author", "insert_keys"}
    PROVE  ~proc[p].miss
  BY DEF TurnOK, Missing

\* The thread goes on with the same event.
LEMMA GoesOnTurn ==
    ASSUME IndexInv, TurnOK(Running), UNCHANGED <<hash_to_n, n_to_event, conditions, time>>,
           Running.pc \notin Aside \cup {"set_have", "set_deleted"},
           NEW x, Running' = x, ~x.miss,
           x.pc \notin Aside \cup {"set_have", "set_deleted", "set_requested", "remove_status"},
           \/ x.event = None
           \/ x.pc \in {"idle", "author", "claim"}
           \/ HasNumber(Running) /\ x.event = Running.event /\ x.n = Running.n
    PROVE  TurnOK(Running)'
  <1>1. Named(x) /\ Removable(x)
    BY DEF Named, Removable, HasRemoved, Aside
  <1>2. Claimed(x)
    <2>1. CASE HasNumber(Running) /\ x.event = Running.event /\ x.n = Running.n
      <3>1. /\ hash_to_n[Running.event.id] = Entry(Running.n, "Have", {})
            /\ n_to_event[Running.n] = None
        BY <2>1 DEF TurnOK, Claimed, Entering, Aside
      <3> QED
        BY <2>1, <3>1 DEF Claimed, Entering, Aside
    <2>2. CASE x.event = None \/ x.pc \in {"idle", "author", "claim"}
      BY <2>2 DEF Claimed, HasNumber
    <2> QED
      BY <2>1, <2>2
  <1> QED
    BY <1>1, <1>2, ReadsTurn

LEMMA IdleTurn ==
    ASSUME IndexInv, TurnOK(Running), UNCHANGED <<hash_to_n, n_to_event, conditions, time>>,
           Running.pc \notin Aside \cup {"set_have", "set_deleted"}, Running' = Idle
    PROVE  TurnOK(Running)'
  <1> DEFINE x == Idle
  <1>1. x.pc = "idle" /\ ~x.miss
    BY DEF Idle
  <1>2. Running' = x
    OBVIOUS
  <1> HIDE DEF x
  <1> QED
    BY <1>1, <1>2, GoesOnTurn DEF Aside

\* What Resume makes of the registers.
LEMMA Resumed ==
    ASSUME NEW r
    PROVE  /\ r.event = None => Resume(r).event = None
           /\ r.event # None =>
                  /\ Resume(r).pc \in {"tags", "insert"}
                  /\ Resume(r).event = r.event /\ Resume(r).n = r.n
           /\ Resume(r).pc \in {"idle", "tags", "insert"} /\ ~Resume(r).miss
  <1>1. Idle.pc = "idle" /\ ~Idle.miss /\ Idle.event = None
    BY DEF Idle
  <1>2. CASE r.event = None
    BY <1>1, <1>2 DEF Resume
  <1>3. CASE r.event # None
    BY <1>3 DEF Resume, Idle
  <1> QED
    BY <1>2, <1>3

LEMMA ResumeTurn ==
    ASSUME IndexInv, TurnOK(Running), UNCHANGED <<hash_to_n, n_to_event, conditions, time>>,
           Running.pc \notin Aside \cup {"set_have", "set_deleted", "idle", "author", "claim"},
           Running' = Resume(Running)
    PROVE  TurnOK(Running)'
  <1> DEFINE x == Resume(Running)
  <1>1. /\ x.pc \in {"idle", "tags", "insert"} /\ ~x.miss
        /\ x.event # None => x.event = Running.event /\ x.n = Running.n
    BY Resumed
  <1>2. x.event # None /\ x.event = Running.event => HasNumber(Running)
    BY DEF HasNumber
  <1> HIDE DEF x
  <1>3. Running' = x
    BY DEF x
  <1> QED
    BY <1>1, <1>2, <1>3, GoesOnTurn DEF Aside

LEMMA GetAuthorTurn ==
    ASSUME IndexInv, TurnOK(Running), NEW p \in Procs, GetAuthor(p),
           Running = proc[p], Running' = proc'[p]
    PROVE  TurnOK(Running)'
  <1>1. proc[p].pc = "author" /\ proc[p].event.pubkey \in Hashes
    BY Tracing, EventHashes DEF GetAuthor, Removing
  <1>2. proc[p].event.pubkey = Sought(proc[p])
    BY <1>1 DEF Sought
  <1> QED
    BY <1>1, <1>2, GetOrCreateTurn DEF GetAuthor

LEMMA SlotAuthorTurn ==
    ASSUME IndexInv, TurnOK(Running), NEW p \in Procs, SlotAuthor(p),
           Running = proc[p], Running' = proc'[p]
    PROVE  TurnOK(Running)'
  <1> DEFINE r == proc[p]
  <1>1. r.pc = "slot_author" /\ RegisterOK(r) /\ HasNumber(r) /\ r.event \in Events
    BY Tracing DEF SlotAuthor, HasNumber, Removing
  <1>2. Goal(r).pubkey \in Hashes
    BY <1>1, EventHashes DEF Goal, Address, RegisterOK, TagAt
  <1>3. Goal(r).pubkey = Sought(r)
    BY <1>1 DEF Sought
  <1> QED
    BY <1>1, <1>2, <1>3, GetOrCreateTurn DEF SlotAuthor

LEMMA InsertRefTurn ==
    ASSUME IndexInv, TurnOK(Running), NEW p \in Procs, InsertRef(p),
           Running = proc[p], Running' = proc'[p]
    PROVE  TurnOK(Running)'
  <1> DEFINE r == proc[p]
  <1>1. /\ r.pc = "insert_keys" /\ HasNumber(r) /\ r.todo # <<>> /\ HasHash(Head(r.todo))
        /\ r.todo \in Seq(AllConditions)
    BY Tracing DEF InsertRef, Removing, HasNumber, Registers
  <1>2. Head(r.todo)[2].hash \in Hashes
    <2>1. Head(r.todo) \in AllConditions
      BY <1>1
    <2> QED
      BY <1>1, <2>1, DbAssumption
  <1>3. Head(r.todo)[2].hash = Sought(r)
    BY <1>1 DEF Sought
  <1> QED
    BY <1>1, <1>2, <1>3, GetOrCreateTurn DEF InsertRef

LEMMA SearchTurn ==
    ASSUME IndexInv, TurnOK(Running), NEW p \in Procs,
           SearchTag(p) \/ SearchAuthor(p) \/ SearchKind(p) \/ Scan(p),
           Running = proc[p], Running' = proc'[p]
    PROVE  TurnOK(Running)'
  <1> DEFINE r == proc[p]
             x == proc'[p]
  <1>1. /\ r \in Registers /\ r.pc \in Searching /\ r.event # None /\ HasNumber(r)
        /\ UNCHANGED <<hash_to_n, n_to_event, conditions, time>> /\ ~r.miss
    BY Tracing, NoMiss DEF SearchTag, SearchAuthor, SearchKind, Scan, Removing, HasNumber,
       Searching, db, IndexInv
  <1>2. ASSUME NEW y, Goto(p, y) PROVE x = y
    BY <1>2 DEF Goto, IndexInv, Inv, TypeOK
  <1>3. \/ x = Resume(r) \/ x = Idle
        \/ /\ x.pc \in {"search_author", "search_kind", "scan", "remove"}
           /\ x.event = r.event /\ x.n = r.n /\ ~x.miss
    <2>1. CASE SearchTag(p)
      <3> DEFINE cand == Hits(CompactNow(<<"d", Goal(r).d>>))
                 y == [r EXCEPT !.pc = "search_author", !.cand = cand]
      <3>1. Goto(p, Resume(r)) \/ Goto(p, y)
        BY <2>1 DEF SearchTag
      <3>2. y.pc = "search_author" /\ y.event = r.event /\ y.n = r.n /\ y.miss = r.miss
        BY <1>1 DEF Registers
      <3> HIDE DEF y
      <3> QED
        BY <1>1, <1>2, <3>1, <3>2
    <2>2. CASE SearchAuthor(p)
      <3> DEFINE hits == Hits(Compact(Author(Goal(r).pubkey), r.ref))
                 cand == IF Goal(r).d = None THEN hits ELSE r.cand \cap hits
                 y == [r EXCEPT !.pc = "search_kind", !.cand = cand]
      <3>1. Goto(p, y)
        BY <2>2 DEF SearchAuthor
      <3>2. y.pc = "search_kind" /\ y.event = r.event /\ y.n = r.n /\ y.miss = r.miss
        BY <1>1 DEF Registers
      <3> HIDE DEF y
      <3> QED
        BY <1>1, <1>2, <3>1, <3>2
    <2>3. CASE SearchKind(p)
      <3> DEFINE cand == r.cand \cap Hits(Kind(Goal(r).kind))
                 y == [r EXCEPT !.pc = "scan", !.cand = cand]
      <3>1. Goto(p, y)
        BY <2>3 DEF SearchKind
      <3>2. y.pc = "scan" /\ y.event = r.event /\ y.n = r.n /\ y.miss = r.miss
        BY <1>1 DEF Registers
      <3> HIDE DEF y
      <3> QED
        BY <1>1, <1>2, <3>1, <3>2
    <2>4. CASE Scan(p)
      <3>1. ASSUME NEW t PROVE LET y == Skip(r, t) IN
                 y.pc = r.pc /\ y.event = r.event /\ y.n = r.n /\ y.miss = r.miss
        BY <1>1 DEF Registers, Skip
      <3>2. ASSUME NEW t
            PROVE  LET y == [r EXCEPT !.pc = "remove", !.victim = t[2],
                                      !.status = "Outdated", !.cand = {}] IN
                   y.pc = "remove" /\ y.event = r.event /\ y.n = r.n /\ y.miss = r.miss
        BY <1>1 DEF Registers
      <3>3. \/ Goto(p, Resume(r)) \/ Goto(p, Idle)
            \/ \E t \in r.cand :
                  \/ Goto(p, Skip(r, t))
                  \/ Goto(p, [r EXCEPT !.pc = "remove", !.victim = t[2],
                                       !.status = "Outdated", !.cand = {}])
        BY <2>4 DEF Scan
      <3>4. CASE Goto(p, Resume(r)) \/ Goto(p, Idle)
        BY <1>2, <3>4
      <3>5. ASSUME NEW t \in r.cand, Goto(p, Skip(r, t))
            PROVE  /\ x.pc = r.pc /\ x.event = r.event /\ x.n = r.n /\ x.miss = r.miss
        BY <1>2, <3>1, <3>5
      <3>6. ASSUME NEW t \in r.cand,
                   Goto(p, [r EXCEPT !.pc = "remove", !.victim = t[2],
                                     !.status = "Outdated", !.cand = {}])
            PROVE  /\ x.pc = "remove" /\ x.event = r.event /\ x.n = r.n /\ x.miss = r.miss
        BY <1>2, <3>2, <3>6
      <3>7. r.pc = "scan"
        BY <2>4 DEF Scan
      <3> QED
        BY <1>1, <3>3, <3>4, <3>5, <3>6, <3>7
    <2> QED
      BY <2>1, <2>2, <2>3, <2>4
  <1>4. r.pc \notin Aside \cup {"set_have", "set_deleted", "idle", "author", "claim"}
    BY <1>1 DEF Searching, Aside
  <1>5. CASE x = Resume(r)
    BY <1>1, <1>4, <1>5, ResumeTurn
  <1>6. CASE x = Idle
    BY <1>1, <1>4, <1>6, IdleTurn
  <1>7. CASE /\ x.pc \in {"search_author", "search_kind", "scan", "remove"}
             /\ x.event = r.event /\ x.n = r.n /\ ~x.miss
    BY <1>1, <1>4, <1>7, GoesOnTurn DEF Aside
  <1> QED
    BY <1>3, <1>5, <1>6, <1>7

LEMMA CheckAuthorTurn ==
    ASSUME IndexInv, TurnOK(Running), NEW p \in Procs, CheckAuthor(p),
           Running = proc[p], Running' = proc'[p]
    PROVE  TurnOK(Running)'
  <1> DEFINE r == proc[p]
             y == [r EXCEPT !.pc = "remove", !.status = "Deleted"]
  <1>1. /\ r \in Registers /\ r.pc = "check_author" /\ r.event # None /\ HasNumber(r)
        /\ UNCHANGED <<hash_to_n, n_to_event, conditions, time>> /\ ~r.miss
    BY Tracing, NoMiss DEF CheckAuthor, Removing, HasNumber, db, IndexInv
  <1>2. ASSUME NEW x, Goto(p, x) PROVE Running' = x
    BY <1>2 DEF Goto, IndexInv, Inv, TypeOK
  <1>3. Goto(p, Resume(r)) \/ Goto(p, y)
    BY DEF CheckAuthor
  <1>4. y.pc = "remove" /\ y.event = r.event /\ y.n = r.n /\ ~y.miss
    BY <1>1 DEF Registers
  <1> HIDE DEF y
  <1>5. CASE Goto(p, Resume(r))
    BY <1>1, <1>2, <1>5, ResumeTurn DEF Aside
  <1>6. CASE Goto(p, y)
    BY <1>1, <1>2, <1>4, <1>6, GoesOnTurn DEF Aside
  <1> QED
    BY <1>3, <1>5, <1>6

LEMMA RemoveTurn ==
    ASSUME IndexInv, TurnOK(Running), NEW p \in Procs, Remove(p),
           Running = proc[p], Running' = proc'[p]
    PROVE  TurnOK(Running)'
  <1> DEFINE r == proc[p]
             e == n_to_event[r.victim]
             y == [r EXCEPT !.pc = "remove_status", !.removed = e, !.todo = Conditions(e)]
  <1>1. /\ r \in Registers /\ r.pc = "remove"
        /\ UNCHANGED <<hash_to_n, n_to_event, conditions, time>> /\ ~r.miss
    BY Tracing, NoMiss DEF Remove, db, IndexInv
  <1>2. ASSUME NEW x, Goto(p, x) PROVE Running' = x
    BY <1>2 DEF Goto, IndexInv, Inv, TypeOK
  <1>3. Goto(p, Resume(r)) \/ Goto(p, y)
    BY DEF Remove
  <1>4. /\ y.pc = "remove_status" /\ y.event = r.event /\ y.n = r.n /\ ~y.miss
        /\ y.removed = e /\ y.todo = Conditions(e) /\ y.victim = r.victim
    BY <1>1 DEF Registers
  <1> HIDE DEF y
  <1>5. CASE Goto(p, Resume(r))
    BY <1>1, <1>2, <1>5, ResumeTurn DEF Aside
  <1>6. CASE Goto(p, y)
    <2>1. Named(y) /\ Removable(y)
      BY <1>4 DEF Named, Removable, HasRemoved
    <2>2. Claimed(y)
      BY <1>1, <1>4 DEF TurnOK, Claimed, HasNumber, Entering
    <2> QED
      BY <1>1, <1>2, <1>4, <1>6, <2>1, <2>2, ReadsTurn DEF Aside
  <1> QED
    BY <1>3, <1>5, <1>6

LEMMA TagStepTurn ==
    ASSUME IndexInv, TurnOK(Running), NEW p \in Procs, TagStep(p),
           Running = proc[p], Running' = proc'[p]
    PROVE  TurnOK(Running)'
  <1> DEFINE r == proc[p]
             value == TagAt(r).value
             entry == hash_to_n[value.hash]
  <1>1. /\ r \in Registers /\ r.pc = "tags" /\ r.event # None /\ HasNumber(r)
        /\ UNCHANGED <<hash_to_n, n_to_event, conditions, time>> /\ ~r.miss
    BY Tracing, NoMiss DEF TagStep, Removing, HasNumber, db, IndexInv
  <1>2. ASSUME NEW x, Goto(p, x) PROVE Running' = x
    BY <1>2 DEF Goto, IndexInv, Inv, TypeOK
  <1>3. \/ Goto(p, [r EXCEPT !.pc = "insert", !.tag = 0])
        \/ \E n, by : /\ Goto(p, [r EXCEPT !.pc = "set_requested", !.victim = n, !.by = by])
                      /\ entry # None => entry.status = "Unknown" /\ entry.n = n
        \/ \E n : Goto(p, [r EXCEPT !.pc = "check_author", !.victim = n])
        \/ Goto(p, Resume(r))
        \/ Goto(p, [r EXCEPT !.pc = "slot_author"])
    BY DEF TagStep, TagAt, Undecided
  <1>4. CASE Goto(p, [r EXCEPT !.pc = "insert", !.tag = 0])
    <2> DEFINE y == [r EXCEPT !.pc = "insert", !.tag = 0]
    <2>1. y.pc = "insert" /\ y.event = r.event /\ y.n = r.n /\ ~y.miss
      BY <1>1 DEF Registers
    <2>2. Running' = y
      BY <1>2, <1>4
    <2> HIDE DEF y
    <2> QED
      BY <1>1, <2>1, <2>2, GoesOnTurn DEF Aside
  <1>5. ASSUME NEW n, NEW by,
               Goto(p, [r EXCEPT !.pc = "set_requested", !.victim = n, !.by = by]),
               entry # None => entry.status = "Unknown" /\ entry.n = n
        PROVE  TurnOK(Running)'
    <2> DEFINE y == [r EXCEPT !.pc = "set_requested", !.victim = n, !.by = by]
    <2>1. /\ y.pc = "set_requested" /\ y.event = r.event /\ y.n = r.n /\ ~y.miss
          /\ y.victim = n /\ y.tag = r.tag
      BY <1>1 DEF Registers
    <2>2. Running' = y
      BY <1>2, <1>5
    <2> HIDE DEF y
    <2>3. Named(y)
      BY <1>5, <2>1 DEF Named, TagAt
    <2>4. Claimed(y) /\ Removable(y)
      BY <1>1, <2>1 DEF TurnOK, Claimed, HasNumber, Entering, Removable, HasRemoved
    <2> QED
      BY <1>1, <2>1, <2>2, <2>3, <2>4, ReadsTurn DEF Aside
  <1>6. ASSUME NEW n, Goto(p, [r EXCEPT !.pc = "check_author", !.victim = n])
        PROVE  TurnOK(Running)'
    <2> DEFINE y == [r EXCEPT !.pc = "check_author", !.victim = n]
    <2>1. y.pc = "check_author" /\ y.event = r.event /\ y.n = r.n /\ ~y.miss
      BY <1>1 DEF Registers
    <2>2. Running' = y
      BY <1>2, <1>6
    <2> HIDE DEF y
    <2> QED
      BY <1>1, <2>1, <2>2, GoesOnTurn DEF Aside
  <1>7. CASE Goto(p, Resume(r))
    BY <1>1, <1>2, <1>7, ResumeTurn DEF Aside
  <1>8. CASE Goto(p, [r EXCEPT !.pc = "slot_author"])
    <2> DEFINE y == [r EXCEPT !.pc = "slot_author"]
    <2>1. y.pc = "slot_author" /\ y.event = r.event /\ y.n = r.n /\ ~y.miss
      BY <1>1 DEF Registers
    <2>2. Running' = y
      BY <1>2, <1>8
    <2> HIDE DEF y
    <2> QED
      BY <1>1, <2>1, <2>2, GoesOnTurn DEF Aside
  <1> QED
    BY <1>3, <1>4, <1>5, <1>6, <1>7, <1>8

\* The slot of a number that nobody has, or of an id that nothing has been decided
\* about, is empty.
LEMMA SlotEmpty ==
    ASSUME IndexInv, StoredHave(Running), Running.pc \notin {"remove_keys", "remove_event"},
           NEW e \in Events, NEW n \in Ns
    PROVE  /\ owner[n] = None => n_to_event[n] = None
           /\ /\ hash_to_n[e.id] # None /\ hash_to_n[e.id].n = n
              /\ hash_to_n[e.id].status = "Unknown"
              => n_to_event[n] = None
  <1> SUFFICES ASSUME n_to_event[n] # None
               PROVE  /\ owner[n] # None
                      /\ ~(/\ hash_to_n[e.id] # None /\ hash_to_n[e.id].n = n
                           /\ hash_to_n[e.id].status = "Unknown")
    OBVIOUS
  <1>1. n \in Stored /\ n_to_event[n].id \in Hashes /\ owner[n] = n_to_event[n].id
    <2>1. n \in Stored
      BY DEF Stored
    <2> QED
      BY <2>1, StoredIds DEF IndexInv, Inv, NumbersOwned
  <1>2. owner[n] # None
    BY <1>1, EventHashes
  <1>3. ASSUME hash_to_n[e.id] # None, hash_to_n[e.id].n = n, hash_to_n[e.id].status = "Unknown"
        PROVE  FALSE
    <2>1. owner[n] = e.id
      BY <1>3, EventHashes DEF IndexInv, Inv, NumbersOwned
    <2>2. hash_to_n[e.id] = Entry(n, "Have", {})
      BY <1>1, <2>1 DEF StoredHave, Leaving
    <2> QED
      BY <1>3, <2>2, EntryIsSome
  <1> QED
    BY <1>2, <1>3

LEMMA ClaimTurn ==
    ASSUME IndexInv, TurnOK(Running), NEW p \in Procs, Claim(p),
           Running = proc[p], Running' = proc'[p]
    PROVE  TurnOK(Running)'
  <1> DEFINE r == proc[p]
             entry == hash_to_n[r.event.id]
  <1>1. /\ r \in Registers /\ r.pc = "claim" /\ r.event \in Events /\ r.event # None
        /\ UNCHANGED <<hash_to_n, n_to_event, conditions, time>> /\ ~r.miss
        /\ r.event.id \in Hashes
    BY Tracing, NoMiss, EventHashes DEF Claim, Removing, db, IndexInv
  <1>2. ASSUME NEW x, Goto(p, x) PROVE Running' = x
    BY <1>2 DEF Goto, IndexInv, Inv, TypeOK
  <1>3. \/ Goto(p, Idle)
        \/ \E l \in {"set_have", "set_deleted"} : \E n \in Ns :
              /\ Goto(p, [r EXCEPT !.pc = l, !.author = r.ref, !.n = n])
              /\ \/ entry = None /\ Allocate(r.event.id) /\ n = n_count
                 \/ entry # None /\ entry.status = "Unknown" /\ entry.n = n
    <2>1. entry # None => entry.n \in Ns
      BY <1>1 DEF IndexInv, Inv, TypeOK, Entries
    <2>2. Allocate(r.event.id) => n_count \in Ns
      BY DEF Allocate
    <2> QED
      BY <2>1, <2>2 DEF Claim, Undecided
  <1>4. CASE Goto(p, Idle)
    BY <1>1, <1>2, <1>4, IdleTurn DEF Aside
  <1>5. ASSUME NEW l \in {"set_have", "set_deleted"}, NEW n \in Ns,
               Goto(p, [r EXCEPT !.pc = l, !.author = r.ref, !.n = n]),
               \/ entry = None /\ Allocate(r.event.id) /\ n = n_count
               \/ entry # None /\ entry.status = "Unknown" /\ entry.n = n
        PROVE  TurnOK(Running)'
    <2> DEFINE y == [r EXCEPT !.pc = l, !.author = r.ref, !.n = n]
    <2>1. y.pc = l /\ y.event = r.event /\ y.n = n /\ ~y.miss
      BY <1>1 DEF Registers
    <2>2. Running' = y
      BY <1>2, <1>5
    <2> HIDE DEF y
    <2>3. n_to_event[n] = None
      <3>1. entry = None /\ n = n_count => owner[n] = None
        <4>1. n_count \in Nat /\ \A m \in Ns : owner[m] # None => m < n_count
          BY DbAssumption DEF IndexInv, Inv, TypeOK, NumbersOwned
        <4> QED
          BY <4>1
      <3> QED
        BY <1>1, <1>5, <3>1, SlotEmpty DEF TurnOK
    <2>4. Claimed(y)
      BY <1>5, <2>1, <2>3 DEF Claimed, Known
    <2>5. Named(y) /\ Removable(y)
      BY <2>1 DEF Named, Removable, HasRemoved
    <2> QED
      BY <1>1, <2>1, <2>2, <2>4, <2>5, ReadsTurn DEF Aside
  <1> QED
    BY <1>3, <1>4, <1>5
-------------------------------------------------------------------------------
(* The steps that put an entry.                                              *)

\* An entry is put under the id of an event that is not stored.
LEMMA PutTurn ==
    ASSUME IndexInv, TurnOK(Running), NEW h \in Hashes, NEW entry, SetEntry(h, entry),
           entry # None, hash_to_n[h] # None => hash_to_n[h].n = entry.n,
           \A n \in Stored : n_to_event[n].id # h,
           UNCHANGED <<n_to_event, conditions, time>>,
           NEW x, Running' = x, ~x.miss, Running.pc \notin Aside,
           x.pc \notin Aside \cup {"set_have", "set_deleted", "set_requested", "remove_status"},
           x.event # None =>
               hash_to_n'[x.event.id] = Entry(x.n, "Have", {}) /\ n_to_event[x.n] = None
    PROVE  TurnOK(Running)'
  <1>1. Stable /\ \A g \in Hashes : g # h => hash_to_n'[g] = hash_to_n[g]
    BY PutStable DEF IndexInv
  <1>2. TimesExact(Running)' /\ KeysExact(Running)'
    BY <1>1, StillExact DEF TurnOK
  <1>3. \A n : ~Leaving(Running, n)
    BY DEF Leaving, Aside
  <1>4. \A n \in Stored : hash_to_n'[n_to_event[n].id] = hash_to_n[n_to_event[n].id]
    BY <1>1, StoredIds
  <1>5. StoredHave(Running)'
    BY <1>3, <1>4, StillHave DEF TurnOK
  <1>6. Missing(Running)' /\ Found(Running)'
    BY DEF Missing, Found, Aside
  <1>7. Named(Running)' /\ Removable(Running)'
    BY DEF Named, Removable, HasRemoved, Aside
  <1>8. Claimed(Running)'
    <2>1. ~Entering(x)
      BY DEF Entering, Aside
    <2> QED
      BY <2>1 DEF Claimed, HasNumber, Entering
  <1> QED
    BY <1>2, <1>5, <1>6, <1>7, <1>8 DEF TurnOK

\* The id that is claimed is that of no stored event.
LEMMA ClaimedFree ==
    ASSUME IndexInv, TurnOK(Running), NEW p \in Procs, Running = proc[p],
           proc[p].pc \in {"set_have", "set_deleted"}
    PROVE  /\ proc[p].event.id \in Hashes /\ proc[p].n \in Ns /\ HasNumber(proc[p])
           /\ hash_to_n[proc[p].event.id] # None => hash_to_n[proc[p].event.id].n = proc[p].n
           /\ n_to_event[proc[p].n] = None
           /\ \A n \in Stored : n_to_event[n].id # proc[p].event.id
  <1> DEFINE r == proc[p]
  <1>1. HasNumber(r) /\ r.event.id \in Hashes /\ r.n \in Ns
    <2>1. HasNumber(r)
      BY Tracing DEF HasNumber, Removing
    <2> QED
      BY <2>1, Numbered DEF IndexInv
  <1>2. /\ hash_to_n[r.event.id] # None => hash_to_n[r.event.id].n = r.n
        /\ n_to_event[r.n] = None
    BY DEF TurnOK, Claimed, Known
  <1>3. ASSUME NEW n \in Stored, n_to_event[n].id = r.event.id PROVE FALSE
    <2>1. hash_to_n[r.event.id] = Entry(n, "Have", {})
      BY <1>3 DEF TurnOK, StoredHave, Leaving
    <2>2. n = r.n
      BY <1>2, <2>1, EntryIsSome DEF Stored
    <2> QED
      BY <1>2, <2>2 DEF Stored
  <1> QED
    BY <1>1, <1>2, <1>3

LEMMA SetDeletedTurn ==
    ASSUME IndexInv, TurnOK(Running), NEW p \in Procs, SetDeleted(p),
           Running = proc[p], Running' = proc'[p]
    PROVE  TurnOK(Running)'
  <1> DEFINE r == proc[p]
             x == Idle
             entry == Entry(r.n, "Deleted", {})
  <1>1. /\ r.pc = "set_deleted" /\ SetEntry(r.event.id, entry) /\ Goto(p, x)
        /\ UNCHANGED <<n_to_event, conditions, time>>
    BY DEF SetDeleted
  <1>2. x.pc = "idle" /\ ~x.miss /\ x.event = None
    BY DEF Idle
  <1>3. /\ r.event.id \in Hashes /\ r.n \in Ns
        /\ hash_to_n[r.event.id] # None => hash_to_n[r.event.id].n = r.n
        /\ \A n \in Stored : n_to_event[n].id # r.event.id
    BY <1>1, ClaimedFree
  <1>4. entry # None /\ entry.n = r.n
    BY <1>3, EntryIsSome DEF Status
  <1> HIDE DEF x, entry
  <1>5. Running' = x
    BY <1>1 DEF Goto, IndexInv, Inv, TypeOK
  <1> QED
    BY <1>1, <1>2, <1>3, <1>4, <1>5, PutTurn DEF Aside

LEMMA SetHaveTurn ==
    ASSUME IndexInv, TurnOK(Running), NEW p \in Procs, SetHave(p),
           Running = proc[p], Running' = proc'[p]
    PROVE  TurnOK(Running)'
  <1> DEFINE r == proc[p]
             e == r.event
             entry == Entry(r.n, "Have", {})
             l == CASE IsReplaceable(e.kind) -> "search_author"
                    [] IsAddressable(e.kind) /\ FirstDValue(e) # None -> "slot_author"
                    [] e.kind = EVENT_DELETION -> "tags"
                    [] OTHER -> "insert"
             k == IF e.kind = EVENT_DELETION THEN 1 ELSE 0
             x == [r EXCEPT !.pc = l, !.tag = k]
  <1>1. /\ r \in Registers /\ r.pc = "set_have" /\ ~r.miss
        /\ SetEntry(e.id, entry) /\ Goto(p, x) /\ UNCHANGED <<n_to_event, conditions, time>>
    BY Tracing, NoMiss DEF SetHave, IndexInv
  <1>2. l \in {"search_author", "slot_author", "tags", "insert"}
    OBVIOUS
  <1> HIDE DEF l, k
  <1>3. x.pc = l /\ x.event = e /\ x.n = r.n /\ ~x.miss
    BY <1>1 DEF Registers
  <1> HIDE DEF x
  <1>4. /\ e.id \in Hashes /\ r.n \in Ns /\ n_to_event[r.n] = None
        /\ hash_to_n[e.id] # None => hash_to_n[e.id].n = r.n
        /\ \A n \in Stored : n_to_event[n].id # e.id
    BY <1>1, ClaimedFree
  <1>5. entry # None /\ entry.n = r.n
    BY <1>4, EntryIsSome DEF Status
  <1>6. Running' = x
    BY <1>1 DEF Goto, IndexInv, Inv, TypeOK
  <1>7. hash_to_n'[e.id] = entry
    BY <1>1, <1>4, <1>5, PutStable DEF IndexInv
  <1>8. hash_to_n'[x.event.id] = Entry(x.n, "Have", {}) /\ n_to_event[x.n] = None
    BY <1>3, <1>4, <1>7
  <1> HIDE DEF entry
  <1> QED
    BY <1>1, <1>2, <1>3, <1>4, <1>5, <1>6, <1>8, PutTurn DEF Aside

LEMMA SetRequestedTurn ==
    ASSUME IndexInv, TurnOK(Running), NEW p \in Procs, SetRequested(p),
           Running = proc[p], Running' = proc'[p]
    PROVE  TurnOK(Running)'
  <1> DEFINE r == proc[p]
             h == TagAt(r).value.hash
             entry == Entry(r.victim, "Unknown", r.by)
             x == Resume(r)
  <1>1. /\ r \in Registers /\ RegisterOK(r) /\ r.pc = "set_requested" /\ HasNumber(r)
        /\ r.event \in Events /\ r.event # None /\ r.by \in SUBSET Ns
    BY Tracing DEF SetRequested, HasNumber, Removing, Registers
  <1>2. h \in Hashes /\ r.victim \in Ns /\ r.event.id \in Hashes
    BY <1>1, EventHashes DEF RegisterOK, TagAt
  <1>3. /\ SetEntry(h, entry) /\ Goto(p, x) /\ UNCHANGED <<n_to_event, conditions, time>>
    BY DEF SetRequested, TagAt
  <1>4. entry # None /\ entry.n = r.victim
    BY <1>1, <1>2, EntryIsSome DEF Status
  <1>5. hash_to_n[h] # None => hash_to_n[h].status = "Unknown" /\ hash_to_n[h].n = r.victim
    BY <1>1 DEF TurnOK, Named
  <1>6. /\ hash_to_n[r.event.id] = Entry(r.n, "Have", {}) /\ n_to_event[r.n] = None
        /\ r.n \in Ns
    BY <1>1, Numbered DEF TurnOK, Claimed, Entering, IndexInv
  <1>7. r.event.id # h
    BY <1>5, <1>6, EntryIsSome
  <1>8. \A n \in Stored : n_to_event[n].id # h
    <2> SUFFICES ASSUME NEW n \in Stored, n_to_event[n].id = h PROVE FALSE
      OBVIOUS
    <2>1. hash_to_n[h] = Entry(n, "Have", {}) /\ n \in Ns
      BY <1>1 DEF TurnOK, StoredHave, Leaving, Stored
    <2> QED
      BY <1>5, <2>1, EntryIsSome
  <1> HIDE DEF entry
  <1>9. hash_to_n'[r.event.id] = hash_to_n[r.event.id]
    BY <1>2, <1>3, <1>4, <1>5, <1>7, PutStable DEF IndexInv
  <1>10. /\ x.pc \in {"tags", "insert"} /\ ~x.miss
         /\ x.event = r.event /\ x.n = r.n
    BY <1>1, Resumed
  <1>11. Running' = x
    BY <1>3 DEF Goto, IndexInv, Inv, TypeOK
  <1> HIDE DEF x, h
  <1>12. hash_to_n'[x.event.id] = Entry(x.n, "Have", {}) /\ n_to_event[x.n] = None
    BY <1>6, <1>9, <1>10
  <1> QED
    BY <1>1, <1>2, <1>3, <1>4, <1>5, <1>8, <1>10, <1>11, <1>12, PutTurn DEF Aside
-------------------------------------------------------------------------------
(* The removal.                                                              *)

LEMMA HeadAndTail ==
    ASSUME NEW elems, NEW s \in Seq(elems), s # <<>>
    PROVE  /\ Head(s) \in Range(s) /\ Range(Tail(s)) \subseteq Range(s)
           /\ \A c \in Range(s) : c = Head(s) \/ c \in Range(Tail(s))
  <1>1. /\ Len(s) \in Nat /\ DOMAIN s = 1..Len(s) /\ 1 \in DOMAIN s /\ Head(s) = s[1]
        /\ DOMAIN Tail(s) = 1..(Len(s) - 1)
        /\ \A i \in DOMAIN Tail(s) : i + 1 \in DOMAIN s /\ Tail(s)[i] = s[i + 1]
    OBVIOUS
  <1>2. ASSUME NEW i \in DOMAIN s, i # 1
        PROVE  i - 1 \in DOMAIN Tail(s) /\ Tail(s)[i - 1] = s[i]
    <2>1. i - 1 \in DOMAIN Tail(s) /\ (i - 1) + 1 = i
      BY <1>1, <1>2
    <2> QED
      BY <1>1, <2>1
  <1>3. ASSUME NEW c \in Range(s), c # Head(s) PROVE c \in Range(Tail(s))
    <2>1. PICK i \in DOMAIN s : s[i] = c
      BY DEF Range
    <2>2. i # 1
      BY <1>1, <1>3, <2>1
    <2>3. i - 1 \in DOMAIN Tail(s) /\ Tail(s)[i - 1] = c
      BY <1>2, <2>1, <2>2
    <2> QED
      BY <2>3 DEF Range
  <1>4. Head(s) \in Range(s) /\ Range(Tail(s)) \subseteq Range(s)
    BY <1>1 DEF Range
  <1> QED
    BY <1>3, <1>4

\* The key under which a stored event is found stays its key.
LEMMA KeyStill ==
    ASSUME IndexInv, Stable, NEW e \in Events, NEW c \in Range(Conditions(e)), NEW t,
           <<CompactNow(c), t>> \in conditions
    PROVE  CompactNow(c)' = CompactNow(c)
  <1>1. <<CompactNow(c), t>>[1] # None
    BY KeyIsSome
  <1> QED
    BY <1>1, EventConditions, StillCompact

\* What is known of the event that is being removed.
LEMMA VictimStored ==
    ASSUME IndexInv, TurnOK(Running), NEW p \in Procs, Running = proc[p], HasRemoved(proc[p])
    PROVE  /\ proc[p].victim \in Stored /\ proc[p].victim \in Ns
           /\ proc[p].removed \in Events /\ proc[p].removed.id \in Hashes
           /\ n_to_event[proc[p].victim] = proc[p].removed /\ ~proc[p].miss
           /\ proc[p].event # None => HasNumber(proc[p])
  <1> DEFINE r == proc[p]
  <1>1. /\ r.victim \in Ns /\ r.removed \in Events /\ r.removed.id \in Hashes
        /\ r.event # None => HasNumber(r)
    BY RemovedOwned DEF IndexInv
  <1>2. n_to_event[r.victim] = r.removed
    BY DEF TurnOK, Removable
  <1>3. r.victim \in Stored
    BY <1>1, <1>2, EventHashes DEF Stored
  <1>4. ~r.miss
    BY NoMiss DEF HasRemoved, IndexInv
  <1> QED
    BY <1>1, <1>2, <1>3, <1>4

LEMMA RemoveStatusTurn ==
    ASSUME IndexInv, TurnOK(Running), NEW p \in Procs, RemoveStatus(p),
           Running = proc[p], Running' = proc'[p]
    PROVE  TurnOK(Running)'
  <1> DEFINE r == proc[p]
             h == r.removed.id
             entry == Entry(r.victim, r.status, {})
             x == [r EXCEPT !.pc = "remove_keys"]
  <1>1. /\ r \in Registers /\ r.pc = "remove_status" /\ HasRemoved(r) /\ r.status \in Status
        /\ SetEntry(h, entry) /\ Goto(p, x) /\ UNCHANGED <<n_to_event, conditions, time>>
    BY Tracing DEF RemoveStatus, HasRemoved, Registers
  <1>2. /\ r.victim \in Stored /\ r.victim \in Ns /\ r.removed \in Events /\ h \in Hashes
        /\ n_to_event[r.victim] = r.removed /\ ~r.miss
        /\ r.event # None => HasNumber(r)
    BY <1>1, VictimStored
  <1>3. r.todo = Conditions(r.removed)
    BY <1>1 DEF TurnOK, Removable
  <1>4. /\ x.pc = "remove_keys" /\ x.event = r.event /\ x.n = r.n /\ ~x.miss
        /\ x.victim = r.victim /\ x.removed = r.removed /\ x.todo = r.todo
    BY <1>1, <1>2 DEF Registers
  <1>5. Running' = x
    BY <1>1 DEF Goto, IndexInv, Inv, TypeOK
  <1> HIDE DEF x
  <1>6. hash_to_n[h] = Entry(r.victim, "Have", {})
    BY <1>1, <1>2 DEF TurnOK, StoredHave, Leaving
  <1>7. Stable /\ \A g \in Hashes : g # h => hash_to_n'[g] = hash_to_n[g]
    <2>1. entry # None /\ entry.n = r.victim /\ hash_to_n[h].n = r.victim
      BY <1>1, <1>2, <1>6, EntryIsSome
    <2> HIDE DEF entry
    <2> QED
      BY <1>1, <1>2, <2>1, PutStable DEF IndexInv
  <1>8. ASSUME NEW g \in Hashes, NEW n \in Ns, hash_to_n[g] = Entry(n, "Have", {}), n # r.victim
        PROVE  hash_to_n'[g] = Entry(n, "Have", {})
    BY <1>6, <1>7, <1>8, EntryIsSome
  <1>9. StoredHave(Running)'
    <2>1. ASSUME NEW n \in Stored, n # r.victim
          PROVE  hash_to_n'[n_to_event[n].id] = Entry(n, "Have", {})
      BY <1>1, <1>8, <2>1, StoredIds DEF TurnOK, StoredHave, Leaving
    <2>2. Stored' = Stored /\ n_to_event' = n_to_event
      BY <1>1 DEF Stored
    <2> QED
      BY <1>4, <1>5, <2>1, <2>2 DEF StoredHave, Leaving
  <1>10. TimesExact(Running)'
    BY <1>1, <1>4, <1>5 DEF TurnOK, TimesExact, Entering, Stored
  <1>11. KeysExact(Running)'
    <2>1. Stored' = Stored /\ n_to_event' = n_to_event /\ conditions' = conditions
      BY <1>1 DEF Stored
    <2>2. ASSUME NEW n \in Stored, NEW c \in Range(Conditions(n_to_event[n]))
          PROVE  <<CompactNow(c)', TimeOf(n_to_event[n], n)>> \in conditions
      <3>1. <<CompactNow(c), TimeOf(n_to_event[n], n)>> \in conditions
        BY <1>1 DEF TurnOK, KeysExact, Entering, Leaving
      <3> QED
        BY <1>7, <3>1, KeyStill, StoredIds
    <2>3. ASSUME NEW k \in conditions
          PROVE  \E n \in Stored : \E c \in Range(Conditions(n_to_event[n])) :
                    /\ k = <<CompactNow(c)', TimeOf(n_to_event[n], n)>>
                    /\ n = r.victim => c \in Range(r.todo)
      <3>1. PICK n \in Stored : \E c \in Range(Conditions(n_to_event[n])) :
                k = <<CompactNow(c), TimeOf(n_to_event[n], n)>>
        BY DEF TurnOK, KeysExact
      <3>2. PICK c \in Range(Conditions(n_to_event[n])) :
                k = <<CompactNow(c), TimeOf(n_to_event[n], n)>>
        BY <3>1
      <3>3. CompactNow(c)' = CompactNow(c)
        BY <1>7, <3>2, KeyStill, StoredIds
      <3> QED
        BY <1>2, <1>3, <3>2, <3>3
    <2> QED
      BY <1>4, <1>5, <2>1, <2>2, <2>3 DEF KeysExact, Leaving
  <1>12. Claimed(Running)'
    <2>1. CASE r.event # None
      <3>1. /\ hash_to_n[r.event.id] = Entry(r.n, "Have", {}) /\ n_to_event[r.n] = None
            /\ r.event.id \in Hashes /\ r.n \in Ns
        BY <1>1, <1>2, <2>1, Numbered DEF TurnOK, Claimed, Entering, IndexInv
      <3>2. r.n # r.victim
        BY <1>2, <3>1 DEF Stored
      <3> QED
        BY <1>1, <1>4, <1>5, <1>8, <3>1, <3>2 DEF Claimed, Entering
    <2>2. CASE r.event = None
      BY <1>4, <1>5, <2>2 DEF Claimed, HasNumber
    <2> QED
      BY <2>1, <2>2
  <1>13. Missing(Running)' /\ Found(Running)' /\ Named(Running)' /\ Removable(Running)'
    BY <1>1, <1>2, <1>4, <1>5 DEF Missing, Found, Named, Removable
  <1> QED
    BY <1>9, <1>10, <1>11, <1>12, <1>13 DEF TurnOK

\* The removal goes on with the index, or is done with it.
LEMMA RemovalTurn ==
    ASSUME IndexInv, TurnOK(Running), NEW p \in Procs, Running = proc[p],
           proc[p].pc = "remove_keys", UNCHANGED <<hash_to_n, n_to_event>>,
           NEW x, Running' = x, ~x.miss, x.pc \in {"remove_keys", "remove_event"},
           x.event = proc[p].event, x.n = proc[p].n, x.victim = proc[p].victim,
           x.removed = proc[p].removed, x.pc = "remove_event" => x.todo = <<>>,
           TimesExact(Running)', KeysExact(Running)'
    PROVE  TurnOK(Running)'
  <1> DEFINE r == proc[p]
  <1>1. n_to_event[r.victim] = r.removed
    BY VictimStored DEF HasRemoved
  <1>2. StoredHave(Running)'
    BY StillHave DEF TurnOK, Leaving
  <1>3. Claimed(Running)'
    BY DEF TurnOK, Claimed, HasNumber, Entering
  <1>4. Missing(Running)' /\ Found(Running)' /\ Named(Running)' /\ Removable(Running)'
    BY <1>1 DEF Missing, Found, Named, Removable
  <1> QED
    BY <1>2, <1>3, <1>4 DEF TurnOK

LEMMA RemoveKeyTurn ==
    ASSUME IndexInv, TurnOK(Running), NEW p \in Procs, RemoveKey(p),
           Running = proc[p], Running' = proc'[p]
    PROVE  TurnOK(Running)'
  <1> DEFINE r == proc[p]
             x == [r EXCEPT !.todo = Tail(@)]
  <1>1. /\ r \in Registers /\ r.pc = "remove_keys" /\ r.todo # <<>>
        /\ r.todo \in Seq(AllConditions) /\ HasRemoved(r)
        /\ conditions' = conditions \ {<<CompactNow(Head(r.todo)), TimeOf(r.removed, r.victim)>>}
        /\ Goto(p, x) /\ UNCHANGED <<hash_to_n, n_to_event, time>>
    BY Tracing DEF RemoveKey, HasRemoved, Registers, RemovedTime
  <1>2. r.victim \in Stored /\ n_to_event[r.victim] = r.removed /\ ~r.miss
    BY <1>1, VictimStored
  <1>3. /\ x.pc = r.pc /\ x.event = r.event /\ x.n = r.n /\ ~x.miss
        /\ x.victim = r.victim /\ x.removed = r.removed /\ x.todo = Tail(r.todo)
    BY <1>1, <1>2 DEF Registers
  <1>4. Running' = x
    BY <1>1 DEF Goto, IndexInv, Inv, TypeOK
  <1> HIDE DEF x
  <1>5. \A c \in Range(r.todo) : c = Head(r.todo) \/ c \in Range(Tail(r.todo))
    BY <1>1, HeadAndTail
  <1>6. TimesExact(Running)'
    BY <1>1, <1>3, <1>4 DEF TurnOK, TimesExact, Entering, Stored
  <1>7. KeysExact(Running)'
    <2>1. /\ Stored' = Stored /\ n_to_event' = n_to_event
          /\ \A c : CompactNow(c)' = CompactNow(c)
      BY <1>1 DEF Stored, CompactNow
    <2>2. ASSUME NEW n \in Stored, n # r.victim, NEW c \in Range(Conditions(n_to_event[n]))
          PROVE  <<CompactNow(c), TimeOf(n_to_event[n], n)>> \in conditions'
      <3>1. <<CompactNow(c), TimeOf(n_to_event[n], n)>> \in conditions
        BY <1>1, <2>2 DEF TurnOK, KeysExact, Entering, Leaving
      <3>2. TimeOf(n_to_event[n], n) # TimeOf(r.removed, r.victim)
        BY <2>2 DEF TimeOf
      <3> QED
        BY <1>1, <3>1, <3>2
    <2>3. ASSUME NEW k \in conditions'
          PROVE  \E n \in Stored : \E c \in Range(Conditions(n_to_event[n])) :
                    /\ k = <<CompactNow(c), TimeOf(n_to_event[n], n)>>
                    /\ n = r.victim => c \in Range(Tail(r.todo))
      <3>1. PICK n \in Stored : \E c \in Range(Conditions(n_to_event[n])) :
                    /\ k = <<CompactNow(c), TimeOf(n_to_event[n], n)>>
                    /\ n = r.victim => c \in Range(r.todo)
        BY <1>1 DEF TurnOK, KeysExact, Leaving
      <3>2. PICK c \in Range(Conditions(n_to_event[n])) :
                    /\ k = <<CompactNow(c), TimeOf(n_to_event[n], n)>>
                    /\ n = r.victim => c \in Range(r.todo)
        BY <3>1
      <3>3. n = r.victim => c # Head(r.todo)
        BY <1>1, <1>2, <3>2
      <3> QED
        BY <1>5, <3>2, <3>3
    <2> QED
      BY <1>1, <1>3, <1>4, <2>1, <2>2, <2>3 DEF KeysExact, Leaving
  <1> QED
    BY <1>1, <1>3, <1>4, <1>6, <1>7, RemovalTurn

LEMMA RemoveTimeTurn ==
    ASSUME IndexInv, TurnOK(Running), NEW p \in Procs, RemoveTime(p),
           Running = proc[p], Running' = proc'[p]
    PROVE  TurnOK(Running)'
  <1> DEFINE r == proc[p]
             x == [r EXCEPT !.pc = "remove_event"]
  <1>1. /\ r \in Registers /\ r.pc = "remove_keys" /\ r.todo = <<>> /\ HasRemoved(r)
        /\ time' = time \ {TimeOf(r.removed, r.victim)}
        /\ Goto(p, x) /\ UNCHANGED <<hash_to_n, n_to_event, conditions>>
    BY Tracing DEF RemoveTime, HasRemoved, RemovedTime
  <1>2. r.victim \in Stored /\ n_to_event[r.victim] = r.removed /\ ~r.miss
    BY <1>1, VictimStored
  <1>3. /\ x.pc = "remove_event" /\ x.event = r.event /\ x.n = r.n /\ ~x.miss
        /\ x.victim = r.victim /\ x.removed = r.removed /\ x.todo = r.todo
    BY <1>1, <1>2 DEF Registers
  <1>4. Running' = x
    BY <1>1 DEF Goto, IndexInv, Inv, TypeOK
  <1> HIDE DEF x
  <1>5. KeysExact(Running)'
    <2>1. /\ Stored' = Stored /\ n_to_event' = n_to_event
          /\ \A c : CompactNow(c)' = CompactNow(c)
          /\ \A n : Leaving(x, n) <=> Leaving(r, n)
          /\ ~Entering(x) /\ ~Entering(r)
      BY <1>1, <1>3 DEF Stored, CompactNow, Leaving, Entering
    <2> QED
      BY <1>1, <1>3, <1>4, <2>1 DEF TurnOK, KeysExact
  <1>6. TimesExact(Running)'
    <2>1. Stored' = Stored /\ n_to_event' = n_to_event
      BY <1>1 DEF Stored
    <2>2. ASSUME NEW n \in Stored, n # r.victim PROVE TimeOf(n_to_event[n], n) \in time'
      <3>1. TimeOf(n_to_event[n], n) \in time
        BY <1>1 DEF TurnOK, TimesExact, Entering
      <3> QED
        BY <1>1, <2>2, <3>1 DEF TimeOf
    <2>3. ASSUME NEW t \in time'
          PROVE  \E n \in Stored : t = TimeOf(n_to_event[n], n) /\ n # r.victim
      <3>1. t \in time /\ t # TimeOf(r.removed, r.victim)
        BY <1>1
      <3>2. PICK n \in Stored : t = TimeOf(n_to_event[n], n)
        BY <3>1 DEF TurnOK, TimesExact
      <3> QED
        BY <1>2, <3>1, <3>2
    <2> QED
      BY <1>3, <1>4, <2>1, <2>2, <2>3 DEF TimesExact
  <1> QED
    BY <1>1, <1>3, <1>4, <1>5, <1>6, RemovalTurn

LEMMA RemoveEventTurn ==
    ASSUME IndexInv, TurnOK(Running), NEW p \in Procs, RemoveEvent(p),
           Running = proc[p], Running' = proc'[p]
    PROVE  TurnOK(Running)'
  <1> DEFINE r == proc[p]
             x == Resume(r)
  <1>1. /\ r \in Registers /\ r.pc = "remove_event" /\ HasRemoved(r)
        /\ n_to_event' = [n_to_event EXCEPT ![r.victim] = None]
        /\ Goto(p, x) /\ UNCHANGED <<hash_to_n, conditions, time>>
    BY Tracing DEF RemoveEvent, HasRemoved
  <1>2. /\ r.victim \in Stored /\ r.victim \in Ns
        /\ r.event # None => HasNumber(r)
    BY <1>1, VictimStored
  <1>3. r.todo = <<>>
    BY <1>1 DEF TurnOK, Removable
  <1>4. /\ x.pc \in {"idle", "tags", "insert"} /\ ~x.miss
        /\ x.event # None => x.event = r.event /\ x.n = r.n
    BY Resumed
  <1>5. Running' = x
    BY <1>1 DEF Goto, IndexInv, Inv, TypeOK
  <1> HIDE DEF x
  <1>6. /\ Stored' = Stored \ {r.victim}
        /\ \A n \in Stored' : n_to_event'[n] = n_to_event[n]
        /\ \A n \in Ns : n_to_event[n] = None => n_to_event'[n] = None
    BY <1>1, <1>2 DEF IndexInv, Inv, TypeOK, Stored
  <1>7. StoredHave(Running)'
    BY <1>1, <1>6 DEF TurnOK, StoredHave, Leaving
  <1>8. TimesExact(Running)'
    <2>1. ASSUME NEW n \in Stored' PROVE TimeOf(n_to_event'[n], n) \in time
      BY <1>1, <1>6 DEF TurnOK, TimesExact, Entering
    <2>2. ASSUME NEW t \in time PROVE \E n \in Stored' : t = TimeOf(n_to_event'[n], n)
      BY <1>1, <1>6 DEF TurnOK, TimesExact
    <2> QED
      BY <1>1, <1>4, <1>5, <2>1, <2>2 DEF TimesExact
  <1>9. KeysExact(Running)'
    <2>1. \A c : CompactNow(c)' = CompactNow(c)
      BY <1>1 DEF CompactNow
    <2>2. ASSUME NEW n \in Stored', NEW c \in Range(Conditions(n_to_event'[n]))
          PROVE  <<CompactNow(c), TimeOf(n_to_event'[n], n)>> \in conditions
      BY <1>1, <1>6 DEF TurnOK, KeysExact, Entering, Leaving
    <2>3. ASSUME NEW k \in conditions
          PROVE  \E n \in Stored' : \E c \in Range(Conditions(n_to_event'[n])) :
                    k = <<CompactNow(c), TimeOf(n_to_event'[n], n)>>
      <3>1. PICK n \in Stored : \E c \in Range(Conditions(n_to_event[n])) :
                    /\ k = <<CompactNow(c), TimeOf(n_to_event[n], n)>>
                    /\ n = r.victim => c \in Range(r.todo)
        BY <1>1 DEF TurnOK, KeysExact, Leaving
      <3>2. Range(r.todo) = {}
        BY <1>3 DEF Range
      <3> QED
        BY <1>6, <3>1, <3>2
    <2> QED
      BY <1>1, <1>4, <1>5, <2>1, <2>2, <2>3 DEF KeysExact, Leaving
  <1>10. Claimed(Running)'
    <2>1. CASE x.event # None
      <3>1. /\ hash_to_n[r.event.id] = Entry(r.n, "Have", {}) /\ n_to_event[r.n] = None
            /\ r.n \in Ns
        BY <1>1, <1>2, <1>4, <2>1, Numbered DEF TurnOK, Claimed, Entering, IndexInv
      <3> QED
        BY <1>1, <1>4, <1>5, <1>6, <2>1, <3>1 DEF Claimed, Entering
    <2>2. CASE x.event = None
      BY <1>4, <1>5, <2>2 DEF Claimed, HasNumber
    <2> QED
      BY <2>1, <2>2
  <1>11. Missing(Running)' /\ Found(Running)' /\ Named(Running)' /\ Removable(Running)'
    BY <1>4, <1>5 DEF Missing, Found, Named, Removable, HasRemoved
  <1> QED
    BY <1>7, <1>8, <1>9, <1>10, <1>11 DEF TurnOK
-------------------------------------------------------------------------------
(* The insertion.                                                            *)

LEMMA InsertTurn ==
    ASSUME IndexInv, TurnOK(Running), NEW p \in Procs, Insert(p),
           Running = proc[p], Running' = proc'[p]
    PROVE  TurnOK(Running)'
  <1> DEFINE r == proc[p]
             x == [r EXCEPT !.pc = "insert_keys", !.todo = Conditions(r.event)]
  <1>1. /\ r \in Registers /\ r.pc = "insert" /\ r.event # None /\ HasNumber(r) /\ ~r.miss
        /\ n_to_event' = [n_to_event EXCEPT ![r.n] = r.event]
        /\ Goto(p, x) /\ UNCHANGED <<hash_to_n, conditions, time>>
    BY Tracing, NoMiss DEF Insert, Removing, HasNumber, IndexInv
  <1>2. /\ hash_to_n[r.event.id] = Entry(r.n, "Have", {}) /\ n_to_event[r.n] = None
        /\ r.n \in Ns
    BY <1>1, Numbered DEF TurnOK, Claimed, Entering, IndexInv
  <1>3. /\ x.pc = "insert_keys" /\ x.event = r.event /\ x.n = r.n /\ ~x.miss
        /\ x.todo = Conditions(r.event)
    BY <1>1 DEF Registers
  <1>4. Running' = x
    BY <1>1 DEF Goto, IndexInv, Inv, TypeOK
  <1> HIDE DEF x
  <1>5. /\ Stored' = Stored \cup {r.n} /\ r.n \notin Stored
        /\ n_to_event'[r.n] = r.event
        /\ \A n \in Stored : n_to_event'[n] = n_to_event[n]
    BY <1>1, <1>2 DEF IndexInv, Inv, TypeOK, Stored
  <1>6. StoredHave(Running)'
    <2>1. \A n \in Stored : hash_to_n[n_to_event[n].id] = Entry(n, "Have", {})
      BY <1>1 DEF TurnOK, StoredHave, Leaving
    <2> QED
      BY <1>1, <1>2, <1>5, <2>1 DEF StoredHave
  <1>7. TimesExact(Running)'
    <2>1. /\ \A n \in Stored : TimeOf(n_to_event[n], n) \in time
          /\ \A t \in time : \E n \in Stored : t = TimeOf(n_to_event[n], n)
      BY <1>1 DEF TurnOK, TimesExact, Entering
    <2>2. ASSUME NEW n \in Stored'
          PROVE  n = r.n \/ TimeOf(n_to_event'[n], n) \in time
      BY <1>5, <2>1
    <2>3. ASSUME NEW t \in time PROVE \E n \in Stored' : t = TimeOf(n_to_event'[n], n)
      BY <1>5, <2>1
    <2> QED
      BY <1>1, <1>3, <1>4, <2>2, <2>3 DEF TimesExact, Entering
  <1>8. KeysExact(Running)'
    <2>1. \A c : CompactNow(c)' = CompactNow(c)
      BY <1>1 DEF CompactNow
    <2>2. /\ \A n \in Stored : \A c \in Range(Conditions(n_to_event[n])) :
                <<CompactNow(c), TimeOf(n_to_event[n], n)>> \in conditions
          /\ \A k \in conditions : \E n \in Stored :
                \E c \in Range(Conditions(n_to_event[n])) :
                    k = <<CompactNow(c), TimeOf(n_to_event[n], n)>>
      BY <1>1 DEF TurnOK, KeysExact, Entering, Leaving
    <2>3. ASSUME NEW n \in Stored', NEW c \in Range(Conditions(n_to_event'[n]))
          PROVE  \/ <<CompactNow(c), TimeOf(n_to_event'[n], n)>> \in conditions
                 \/ r.n = n /\ c \in Range(Conditions(r.event))
      BY <1>5, <2>2
    <2>4. ASSUME NEW k \in conditions
          PROVE  \E n \in Stored' : \E c \in Range(Conditions(n_to_event'[n])) :
                    k = <<CompactNow(c), TimeOf(n_to_event'[n], n)>>
      BY <1>5, <2>2
    <2> QED
      BY <1>1, <1>3, <1>4, <2>1, <2>3, <2>4 DEF KeysExact, Entering, Leaving
  <1>9. Claimed(Running)'
    BY <1>1, <1>2, <1>3, <1>4, <1>5 DEF Claimed, Entering
  <1>10. Missing(Running)' /\ Found(Running)' /\ Named(Running)' /\ Removable(Running)'
    BY <1>3, <1>4 DEF Missing, Found, Named, Removable, HasRemoved
  <1> QED
    BY <1>6, <1>7, <1>8, <1>9, <1>10 DEF TurnOK

\* What is known of the event that is being indexed.
LEMMA EnteringStored ==
    ASSUME IndexInv, TurnOK(Running), NEW p \in Procs, Running = proc[p], Entering(proc[p])
    PROVE  /\ proc[p] \in Registers /\ proc[p].event # None
           /\ proc[p].n \in Stored /\ n_to_event[proc[p].n] = proc[p].event
           /\ hash_to_n[proc[p].event.id] = Entry(proc[p].n, "Have", {})
           /\ proc[p].todo \in Seq(AllConditions)
           /\ Range(proc[p].todo) \subseteq Range(Conditions(proc[p].event))
           /\ \A n : ~Leaving(proc[p], n)
  <1> DEFINE r == proc[p]
  <1>1. /\ r \in Registers /\ r.event \in Events /\ r.event # None /\ HasNumber(r)
        /\ r.todo \in Seq(AllConditions)
        /\ Range(r.todo) \subseteq Range(Conditions(r.event))
        /\ \A n : ~Leaving(r, n)
    BY Tracing DEF Entering, Removing, HasNumber, Traced, Registers, Leaving
  <1>2. /\ hash_to_n[r.event.id] = Entry(r.n, "Have", {}) /\ n_to_event[r.n] = r.event
        /\ r.n \in Ns
    BY <1>1, Numbered DEF TurnOK, Claimed, Entering, IndexInv
  <1> QED
    BY <1>1, <1>2 DEF Stored

LEMMA InsertKeyTurn ==
    ASSUME IndexInv, TurnOK(Running), NEW p \in Procs, InsertKey(p),
           Running = proc[p], Running' = proc'[p]
    PROVE  TurnOK(Running)'
  <1> DEFINE r == proc[p]
             c0 == Head(r.todo)
             key == Compact(c0, r.ref)
             x == [r EXCEPT !.pc = "insert_keys", !.todo = Tail(@)]
  <1>1. /\ Entering(r) /\ r.todo # <<>>
        /\ r.pc = "insert_key" \/ ~HasHash(c0)
        /\ conditions' = conditions \cup {<<key, TimeOf(r.event, r.n)>>}
        /\ Goto(p, x) /\ UNCHANGED <<hash_to_n, n_to_event, time>>
    BY DEF InsertKey, Entering
  <1>2. /\ r \in Registers /\ r.event # None /\ r.n \in Stored /\ n_to_event[r.n] = r.event
        /\ hash_to_n[r.event.id] = Entry(r.n, "Have", {})
        /\ r.todo \in Seq(AllConditions)
        /\ Range(r.todo) \subseteq Range(Conditions(r.event))
        /\ \A n : ~Leaving(r, n)
    BY <1>1, EnteringStored
  <1>3. ~r.miss
    BY <1>1 DEF TurnOK, Missing, Entering
  <1>4. key = CompactNow(c0)
    <2>1. CASE r.pc = "insert_key"
      BY <2>1 DEF TurnOK, Found, Known, CompactNow
    <2>2. CASE ~HasHash(c0)
      BY <2>2 DEF Compact, CompactNow
    <2> QED
      BY <1>1, <2>1, <2>2
  <1>5. /\ c0 \in Range(r.todo)
        /\ \A c \in Range(r.todo) : c = c0 \/ c \in Range(Tail(r.todo))
    BY <1>1, <1>2, HeadAndTail
  <1>6. /\ x.pc = "insert_keys" /\ x.event = r.event /\ x.n = r.n /\ ~x.miss
        /\ x.todo = Tail(r.todo)
    BY <1>2, <1>3 DEF Registers
  <1>7. Running' = x
    BY <1>1, <1>2 DEF Goto, IndexInv, Inv, TypeOK
  <1> HIDE DEF x, key, c0
  <1>8. Stored' = Stored /\ n_to_event' = n_to_event /\ \A c : CompactNow(c)' = CompactNow(c)
    BY <1>1 DEF Stored, CompactNow
  <1>9. StoredHave(Running)'
    BY <1>1, <1>2, StillHave DEF TurnOK
  <1>10. TimesExact(Running)'
    BY <1>1, <1>6, <1>7, <1>8 DEF TurnOK, TimesExact, Entering
  <1>11. KeysExact(Running)'
    <2>1. ASSUME NEW n \in Stored, NEW c \in Range(Conditions(n_to_event[n]))
          PROVE  \/ <<CompactNow(c), TimeOf(n_to_event[n], n)>> \in conditions'
                 \/ r.n = n /\ c \in Range(Tail(r.todo))
      <3>1. \/ <<CompactNow(c), TimeOf(n_to_event[n], n)>> \in conditions
            \/ r.n = n /\ c \in Range(r.todo)
        BY <1>2 DEF TurnOK, KeysExact
      <3> QED
        BY <1>1, <1>2, <1>4, <1>5, <3>1
    <2>2. ASSUME NEW k \in conditions'
          PROVE  \E n \in Stored : \E c \in Range(Conditions(n_to_event[n])) :
                    k = <<CompactNow(c), TimeOf(n_to_event[n], n)>>
      <3>1. CASE k \in conditions
        BY <3>1 DEF TurnOK, KeysExact
      <3>2. CASE k = <<key, TimeOf(r.event, r.n)>>
        BY <1>2, <1>4, <1>5, <3>2
      <3> QED
        BY <1>1, <3>1, <3>2
    <2> QED
      BY <1>6, <1>7, <1>8, <2>1, <2>2 DEF KeysExact, Entering, Leaving
  <1>12. Claimed(Running)'
    BY <1>1, <1>2, <1>6, <1>7 DEF Claimed, Entering
  <1>13. Missing(Running)' /\ Found(Running)' /\ Named(Running)' /\ Removable(Running)'
    BY <1>6, <1>7 DEF Missing, Found, Named, Removable, HasRemoved
  <1> QED
    BY <1>9, <1>10, <1>11, <1>12, <1>13 DEF TurnOK

LEMMA InsertTimeTurn ==
    ASSUME IndexInv, TurnOK(Running), NEW p \in Procs, InsertTime(p),
           Running = proc[p], Running' = proc'[p]
    PROVE  TurnOK(Running)'
  <1> DEFINE r == proc[p]
             x == Idle
  <1>1. /\ Entering(r) /\ r.todo = <<>>
        /\ time' = time \cup {TimeOf(r.event, r.n)}
        /\ Goto(p, x) /\ UNCHANGED <<hash_to_n, n_to_event, conditions>>
    BY DEF InsertTime, Entering
  <1>2. /\ r.n \in Stored /\ n_to_event[r.n] = r.event
        /\ \A n : ~Leaving(r, n)
    BY <1>1, EnteringStored
  <1>3. x.pc = "idle" /\ ~x.miss
    BY DEF Idle
  <1>4. Running' = x
    BY <1>1 DEF Goto, IndexInv, Inv, TypeOK
  <1> HIDE DEF x
  <1>5. Stored' = Stored /\ n_to_event' = n_to_event /\ \A c : CompactNow(c)' = CompactNow(c)
    BY <1>1 DEF Stored, CompactNow
  <1>6. StoredHave(Running)'
    BY <1>1, <1>2, StillHave DEF TurnOK
  <1>7. TimesExact(Running)'
    <2>1. ASSUME NEW n \in Stored PROVE TimeOf(n_to_event[n], n) \in time'
      BY <1>1, <1>2 DEF TurnOK, TimesExact, Entering
    <2>2. ASSUME NEW t \in time' PROVE \E n \in Stored : t = TimeOf(n_to_event[n], n)
      BY <1>1, <1>2 DEF TurnOK, TimesExact
    <2> QED
      BY <1>3, <1>4, <1>5, <2>1, <2>2 DEF TimesExact
  <1>8. KeysExact(Running)'
    <2>1. Range(r.todo) = {}
      BY <1>1 DEF Range
    <2>2. /\ \A n \in Stored : \A c \in Range(Conditions(n_to_event[n])) :
                <<CompactNow(c), TimeOf(n_to_event[n], n)>> \in conditions
          /\ \A k \in conditions : \E n \in Stored :
                \E c \in Range(Conditions(n_to_event[n])) :
                    k = <<CompactNow(c), TimeOf(n_to_event[n], n)>>
      BY <1>2, <2>1 DEF TurnOK, KeysExact
    <2> QED
      BY <1>1, <1>3, <1>4, <1>5, <2>2 DEF KeysExact, Leaving
  <1>9. Claimed(Running)'
    BY <1>3, <1>4 DEF Claimed, HasNumber
  <1>10. Missing(Running)' /\ Found(Running)' /\ Named(Running)' /\ Removable(Running)'
    BY <1>3, <1>4 DEF Missing, Found, Named, Removable, HasRemoved
  <1> QED
    BY <1>6, <1>7, <1>8, <1>9, <1>10 DEF TurnOK
-------------------------------------------------------------------------------
(* The invariant of operations that take turns.                              *)

\* A call from outside starts an operation.
LEMMA StartTurn ==
    ASSUME IndexInv, TurnOK(Running), Running = Idle, NEW x, Running' = x,
           UNCHANGED <<hash_to_n, n_to_event, conditions, time>>,
           x.pc = "author" \/ (x.pc = "remove" /\ x.event = None), ~x.miss
    PROVE  TurnOK(Running)'
  <1>1. Running.pc = "idle"
    BY DEF Idle
  <1> QED
    BY <1>1, GoesOnTurn DEF Aside

\* A thread that is in an operation takes a step of it.
Moves(p) == proc[p].pc # "idle" /\ \E x : Goto(p, x)

LEMMA GetOrCreateMoves ==
    ASSUME NEW p, NEW h, NEW next, GetOrCreate(p, h, next)
    PROVE  \E x : Goto(p, x)
  <1>1. CASE ~proc[p].miss /\ hash_to_n[h] # None
    BY <1>1 DEF GetOrCreate
  <1>2. CASE ~proc[p].miss /\ hash_to_n[h] = None
    BY <1>2 DEF GetOrCreate
  <1>3. CASE proc[p].miss
    BY <1>3 DEF GetOrCreate
  <1> QED
    BY <1>1, <1>2, <1>3

LEMMA StepMoves == ASSUME NEW p, Step(p) PROVE Moves(p)
  <1>1. GetAuthor(p) => Moves(p)
    BY GetOrCreateMoves DEF GetAuthor, Moves
  <1>2. Claim(p) => Moves(p)
    BY DEF Claim, Moves
  <1>3. SetDeleted(p) => Moves(p)
    BY DEF SetDeleted, Moves
  <1>4. SetHave(p) => Moves(p)
    BY DEF SetHave, Moves
  <1>5. SlotAuthor(p) => Moves(p)
    BY GetOrCreateMoves DEF SlotAuthor, Moves
  <1>6. SearchTag(p) => Moves(p)
    BY DEF SearchTag, Moves
  <1>7. SearchAuthor(p) => Moves(p)
    BY DEF SearchAuthor, Moves
  <1>8. SearchKind(p) => Moves(p)
    BY DEF SearchKind, Moves
  <1>9. Scan(p) => Moves(p)
    BY DEF Scan, Moves
  <1>10. TagStep(p) => Moves(p)
    BY DEF TagStep, Moves
  <1>11. SetRequested(p) => Moves(p)
    BY DEF SetRequested, Moves
  <1>12. CheckAuthor(p) => Moves(p)
    BY DEF CheckAuthor, Moves
  <1>13. Remove(p) => Moves(p)
    BY DEF Remove, Moves
  <1>14. RemoveStatus(p) => Moves(p)
    BY DEF RemoveStatus, Moves
  <1>15. RemoveKey(p) => Moves(p)
    BY DEF RemoveKey, Moves
  <1>16. RemoveTime(p) => Moves(p)
    BY DEF RemoveTime, Moves
  <1>17. RemoveEvent(p) => Moves(p)
    BY DEF RemoveEvent, Moves
  <1>18. Insert(p) => Moves(p)
    BY DEF Insert, Moves
  <1>19. InsertRef(p) => Moves(p)
    BY GetOrCreateMoves DEF InsertRef, Moves
  <1>20. InsertKey(p) => Moves(p)
    BY DEF InsertKey, Moves
  <1>21. InsertTime(p) => Moves(p)
    BY DEF InsertTime, Moves
  <1> QED
    BY <1>1, <1>2, <1>3, <1>4, <1>5, <1>6, <1>7, <1>8, <1>9, <1>10, <1>11,
       <1>12, <1>13, <1>14, <1>15, <1>16, <1>17, <1>18, <1>19, <1>20, <1>21 DEF Step

LEMMA StepTurn ==
    ASSUME IndexInv, TurnOK(Running), NEW p \in Procs, Step(p),
           Running = proc[p], Running' = proc'[p]
    PROVE  TurnOK(Running)'
  <1>1. CASE GetAuthor(p) \/ Claim(p) \/ SetDeleted(p) \/ SetHave(p)
    BY <1>1, GetAuthorTurn, ClaimTurn, SetDeletedTurn, SetHaveTurn
  <1>2. CASE SlotAuthor(p) \/ SearchTag(p) \/ SearchAuthor(p) \/ SearchKind(p) \/ Scan(p)
    BY <1>2, SlotAuthorTurn, SearchTurn
  <1>3. CASE TagStep(p) \/ SetRequested(p) \/ CheckAuthor(p)
    BY <1>3, TagStepTurn, SetRequestedTurn, CheckAuthorTurn
  <1>4. CASE Remove(p) \/ RemoveStatus(p) \/ RemoveKey(p) \/ RemoveTime(p) \/ RemoveEvent(p)
    BY <1>4, RemoveTurn, RemoveStatusTurn, RemoveKeyTurn, RemoveTimeTurn, RemoveEventTurn
  <1>5. CASE Insert(p) \/ InsertRef(p) \/ InsertKey(p) \/ InsertTime(p)
    BY <1>5, InsertTurn, InsertRefTurn, InsertKeyTurn, InsertTimeTurn
  <1> QED
    BY <1>1, <1>2, <1>3, <1>4, <1>5 DEF Step

LEMMA TurnInvInit == SeqInit => Alone /\ TurnOK(Running)
  <1> SUFFICES ASSUME SeqInit PROVE Alone /\ TurnOK(Running)
    OBVIOUS
  <1> DEFINE x == Idle
  <1>1. x.pc = "idle" /\ ~x.miss /\ x.event = None
    BY DEF Idle
  <1>2. Busy = {}
    BY DEF SeqInit, Init, Busy
  <1>3. Running = x
    BY <1>2 DEF Running
  <1> HIDE DEF x
  <1>4. Stored = {} /\ time = {} /\ conditions = {}
    BY DEF SeqInit, Init, Stored
  <1>5. Missing(x) /\ Found(x) /\ Claimed(x) /\ Named(x) /\ Removable(x)
    BY <1>1 DEF Missing, Found, Claimed, Named, Removable, HasNumber, HasRemoved
  <1>6. StoredHave(x) /\ TimesExact(x) /\ KeysExact(x)
    BY <1>4 DEF StoredHave, TimesExact, KeysExact
  <1> QED
    BY <1>2, <1>3, <1>5, <1>6 DEF Alone, TurnOK

\* An operation starts: a call of add_event, or the expiration of an event.
StartsAdd(e) ==
    /\ Running = Idle /\ UNCHANGED <<db, book>>
    /\ e \notin expired
    /\ Running'.pc = "author" /\ Running'.event = e /\ ~Running'.miss

StartsExpire(e, n) ==
    /\ Running = Idle /\ UNCHANGED <<db, accepted>>
    /\ <<e, n>> \in expirations /\ expired' = expired \cup {e}
    /\ Running'.pc = "remove" /\ Running'.victim = n /\ Running'.status = "Unknown"
    /\ Running'.event = None /\ ~Running'.miss

\* A step of the store under one operation at a time: it is one of the operation under
\* way, or starts one when there is none.
LEMMA TurnStep ==
    ASSUME Inv, Alone, SeqNext
    PROVE  /\ Alone'
           /\ \/ \E p \in Procs : Step(p) /\ Running = proc[p] /\ Running' = proc'[p]
              \/ \E e \in Events : StartsAdd(e)
              \/ \E e \in Events, n \in Ns : StartsExpire(e, n)
  <1>1. Alone'
    BY DEF SeqNext, Alone
  <1>2. ASSUME NEW p \in Connections, NEW e \in Events, StartAdd(p, e)
        PROVE  StartsAdd(e)
    <2> DEFINE x == [Idle EXCEPT !.pc = "author", !.event = e]
    <2>1. /\ Goto(p, x) /\ proc[p] = Idle /\ p \in Procs /\ e \notin expired
          /\ UNCHANGED <<db, book>>
      BY <1>2 DEF StartAdd, Procs
    <2>2. x.pc = "author" /\ x.event = e /\ ~x.miss /\ x # Idle
      BY DEF Idle
    <2> HIDE DEF x
    <2>3. Running = Idle /\ Running' = x
      BY <1>1, <2>1, <2>2, Turn
    <2> QED
      BY <2>1, <2>2, <2>3 DEF StartsAdd
  <1>3. ASSUME NEW e \in Events, NEW n \in Ns, StartExpire(e, n)
        PROVE  StartsExpire(e, n)
    <2> DEFINE x == [Idle EXCEPT !.pc = "remove", !.victim = n, !.status = "Unknown"]
    <2>1. /\ Goto(Expirer, x) /\ proc[Expirer] = Idle /\ Expirer \in Procs
          /\ UNCHANGED <<db, accepted>>
          /\ <<e, n>> \in expirations /\ expired' = expired \cup {e}
      BY <1>3 DEF StartExpire, Procs
    <2>2. /\ x.pc = "remove" /\ x.victim = n /\ x.status = "Unknown"
          /\ x.event = None /\ ~x.miss /\ x # Idle
      BY DEF Idle
    <2> HIDE DEF x
    <2>3. Running = Idle /\ Running' = x
      BY <1>1, <2>1, <2>2, Turn
    <2> QED
      BY <2>1, <2>2, <2>3 DEF StartsExpire
  <1>4. ASSUME NEW p \in Procs, Step(p)
        PROVE  Running = proc[p] /\ Running' = proc'[p]
    <2>1. PICK x : proc[p] # Idle /\ Goto(p, x)
      BY <1>4, StepMoves DEF Moves, Idle
    <2> QED
      BY <1>1, <2>1, Turn
  <1> QED
    BY <1>1, <1>2, <1>3, <1>4 DEF SeqNext, Next

LEMMA TurnInvNext ==
    ASSUME IndexInv, Alone, TurnOK(Running), SeqNext
    PROVE  Alone' /\ TurnOK(Running)'
  <1>1. ASSUME NEW e \in Events, StartsAdd(e) PROVE TurnOK(Running)'
    BY <1>1, StartTurn DEF StartsAdd, db
  <1>2. ASSUME NEW e \in Events, NEW n \in Ns, StartsExpire(e, n) PROVE TurnOK(Running)'
    BY <1>2, StartTurn DEF StartsExpire, db
  <1> QED
    BY <1>1, <1>2, TurnStep, StepTurn DEF IndexInv

LEMMA TurnInvariant == SeqSpec => []TurnInv
  <1>1. SeqSpec => Spec
    <2>1. SeqInit => Init
      BY DEF SeqInit
    <2>2. [SeqNext]_<<vars, view>> => [Next]_vars
      BY DEF SeqNext
    <2> QED
      BY <2>1, <2>2, PTL DEF SeqSpec, Spec
  <1>2. IndexInv /\ Alone /\ TurnOK(Running) /\ [SeqNext]_<<vars, view>>
            => (Alone /\ TurnOK(Running))'
    <2> SUFFICES ASSUME IndexInv, Alone, TurnOK(Running), [SeqNext]_<<vars, view>>
                 PROVE  Alone' /\ TurnOK(Running)'
      OBVIOUS
    <2>1. CASE SeqNext
      BY <2>1, TurnInvNext
    <2>2. CASE UNCHANGED vars
      <3>1. /\ UNCHANGED <<hash_to_n, n_to_event, conditions, time, proc>>
            /\ Busy' = Busy /\ Running' = Running /\ Stored' = Stored
        BY <2>2 DEF vars, db, Busy, Running, Stored
      <3>2. \A c : CompactNow(c)' = CompactNow(c)
        BY <3>1 DEF CompactNow
      <3>3. /\ Alone' /\ Missing(Running)' /\ Found(Running)' /\ Claimed(Running)'
            /\ Named(Running)' /\ Removable(Running)' /\ StoredHave(Running)'
        BY <3>1 DEF Alone, TurnOK, Missing, Found, Known, Claimed, Named, Removable, StoredHave
      <3>4. TimesExact(Running)' /\ KeysExact(Running)'
        BY <3>1, <3>2 DEF TurnOK, TimesExact, KeysExact
      <3> QED
        BY <3>3, <3>4 DEF TurnOK
    <2> QED
      BY <2>1, <2>2
  <1> QED
    BY <1>1, <1>2, TurnInvInit, IndexInvariant, PTL DEF SeqSpec, TurnInv

\* When no thread is in an operation.
LEMMA QuietTurn ==
    ASSUME TurnInv, Quiet
    PROVE  /\ StoredHave(Running) /\ TimesExact(Running) /\ KeysExact(Running)
           /\ Running.pc = "idle"
  <1>1. Busy = {}
    BY DEF Quiet, Busy
  <1>2. Running.pc = "idle"
    BY <1>1 DEF Running, Idle
  <1> QED
    BY <1>2 DEF TurnInv, TurnOK

\* With one operation at a time, whatever add_event has replaced, deleted and turned
\* down, and whatever the expiration task has removed, between two operations every
\* stored event is known under its id with its number and as one we have: it can be
\* queried and deleted by id, and is not stored twice.
THEOREM StoredEventsKnown == SeqSpec => []StoredIsHave
  <1>1. TurnInv => StoredIsHave
    <2> SUFFICES ASSUME TurnInv, Quiet, NEW n \in Stored
                 PROVE  hash_to_n[n_to_event[n].id] = Entry(n, "Have", {})
      BY DEF StoredIsHave
    <2> QED
      BY QuietTurn DEF StoredHave, Leaving
  <1> QED
    BY <1>1, TurnInvariant, PTL

\* With one operation at a time, between two operations the databases conditions and
\* time hold the keys of the stored events and no others: remove_event deletes what
\* add_event has put although it works the keys out again from the stored event, and
\* no key is left behind under which a later event could be found.
THEOREM IndexIsExact == SeqSpec => []IndexExact
  <1>1. TurnInv => IndexExact
    <2> SUFFICES ASSUME TurnInv, Quiet
                 PROVE  /\ time = {TimeOf(n_to_event[n], n) : n \in Stored}
                        /\ conditions =
                             UNION {{<<CompactNow(c), TimeOf(n_to_event[n], n)>> :
                                c \in Range(Conditions(n_to_event[n]))} : n \in Stored}
      BY DEF IndexExact
    <2>1. TimesExact(Running) /\ KeysExact(Running) /\ Running.pc = "idle"
      BY QuietTurn
    <2>2. time = {TimeOf(n_to_event[n], n) : n \in Stored}
      BY <2>1 DEF TimesExact, Entering
    <2>3. ASSUME NEW n \in Stored, NEW c \in Range(Conditions(n_to_event[n]))
          PROVE  <<CompactNow(c), TimeOf(n_to_event[n], n)>> \in conditions
      BY <2>1 DEF KeysExact, Entering, Leaving
    <2>4. ASSUME NEW k \in conditions
          PROVE  \E n \in Stored : \E c \in Range(Conditions(n_to_event[n])) :
                    k = <<CompactNow(c), TimeOf(n_to_event[n], n)>>
      BY <2>1 DEF KeysExact
    <2> QED
      BY <2>2, <2>3, <2>4
  <1> QED
    BY <1>1, TurnInvariant, PTL
-------------------------------------------------------------------------------
(* What the steps of an operation make of the registers.                     *)

\* The same operation, at the same tag.
Same(x, r) ==
    x.event = r.event /\ x.n = r.n /\ x.author = r.author /\ x.tag = r.tag

\* What Resume makes of the registers: the next tag of a request, or the insertion.
Resumes(x, r) ==
    /\ r.event = None => x.pc = "idle" /\ x.event = None
    /\ r.event # None =>
          /\ x.event = r.event /\ x.n = r.n /\ x.author = r.author
          /\ r.event.kind = EVENT_DELETION => x.pc = "tags" /\ x.tag = r.tag + 1
          /\ r.event.kind # EVENT_DELETION => x.pc = "insert"

LEMMA ResumeGoes == \A r : Resumes(Resume(r), r)
  <1> TAKE r
  <1>1. CASE r.event = None
    BY <1>1 DEF Resume, Resumes, Idle
  <1>2. CASE r.event # None
    BY <1>2 DEF Resume, Resumes, Idle
  <1> QED
    BY <1>1, <1>2

LEMMA Goes ==
    ASSUME IndexInv, NEW p \in Procs
    PROVE  proc[p] \in Registers /\ \A x : Goto(p, x) => proc'[p] = x
  BY DEF Goto, IndexInv, Inv, TypeOK

LEMMA ClaimGoes ==
    ASSUME IndexInv, NEW p \in Procs, Claim(p)
    PROVE  LET r == proc[p]
               x == proc'[p]
               entry == hash_to_n[r.event.id]
           IN  /\ r.pc = "claim" /\ UNCHANGED <<db, book>>
               /\ \/ x = Idle
                  \/ /\ x.pc \in {"set_have", "set_deleted"} /\ x.event = r.event
                     /\ x.author = r.ref /\ x.ref = r.ref
                     /\ entry # None => entry.status = "Unknown"
                     /\ x.pc = "set_have" => entry = None \/ r.ref \notin entry.by
                     /\ x.pc = "set_deleted" => entry # None /\ r.ref \in entry.by
  <1> DEFINE r == proc[p]
             x == proc'[p]
             entry == hash_to_n[r.event.id]
             Y(l, n) == [r EXCEPT !.pc = l, !.author = r.ref, !.n = n]
  <1>1. r \in Registers /\ r.pc = "claim" /\ UNCHANGED <<db, book>>
    BY Goes DEF Claim
  <1>2. \A l, n : /\ Y(l, n).pc = l /\ Y(l, n).event = r.event
                  /\ Y(l, n).author = r.ref /\ Y(l, n).ref = r.ref
    BY <1>1 DEF Registers
  <1>3. \/ entry = None /\ Goto(p, Y("set_have", n_count))
        \/ /\ entry # None /\ entry.status = "Unknown"
           /\ Goto(p, Y(IF r.ref \in entry.by THEN "set_deleted" ELSE "set_have", entry.n))
        \/ Goto(p, Idle)
    BY DEF Claim, Undecided
  <1> HIDE DEF Y
  <1>4. CASE entry = None /\ Goto(p, Y("set_have", n_count))
    <2>1. x = Y("set_have", n_count)
      BY <1>4, Goes
    <2> QED
      BY <1>1, <1>2, <1>4, <2>1
  <1>5. CASE /\ entry # None /\ entry.status = "Unknown"
             /\ Goto(p, Y(IF r.ref \in entry.by THEN "set_deleted" ELSE "set_have", entry.n))
    <2> DEFINE l == IF r.ref \in entry.by THEN "set_deleted" ELSE "set_have"
    <2>1. x = Y(l, entry.n)
      BY <1>5, Goes
    <2>2. l \in {"set_have", "set_deleted"} /\ (r.ref \in entry.by <=> l = "set_deleted")
      OBVIOUS
    <2> HIDE DEF l
    <2> QED
      BY <1>1, <1>2, <1>5, <2>1, <2>2
  <1>6. CASE Goto(p, Idle)
    BY <1>1, <1>6, Goes
  <1> QED
    BY <1>3, <1>4, <1>5, <1>6

\* An event is replaceable, addressable, a deletion request, or nothing of these.
LEMMA OneKind ==
    \A e \in Events : /\ IsReplaceable(e.kind) => ~IsAddressable(e.kind) /\ e.kind # EVENT_DELETION
                      /\ IsAddressable(e.kind) => e.kind # EVENT_DELETION
  <1> SUFFICES ASSUME NEW e \in Events
               PROVE  /\ IsReplaceable(e.kind) => ~IsAddressable(e.kind) /\ e.kind # EVENT_DELETION
                      /\ IsAddressable(e.kind) => e.kind # EVENT_DELETION
    OBVIOUS
  <1> DEFINE k == e.kind
             tens == 10000..19999
             thirties == 30000..39999
  <1>1. k \in Nat
    BY DbAssumption
  <1> HIDE DEF k
  <1>2. ASSUME k \in tens, k \in thirties PROVE FALSE
    BY <1>1, <1>2, SMT
  <1>3. ~(k \in tens /\ k = 5) /\ ~(k \in thirties /\ k = 5)
    BY <1>1, SMT
  <1>4. ~(k \in {0, 3} /\ k \in thirties)
    BY <1>1, SMT
  <1>5. ~(k \in {0, 3} /\ k = 5)
    BY SMT
  <1>6. /\ IsReplaceable(k) => k \in {0, 3} \/ k \in tens
        /\ IsAddressable(k) => k \in thirties
        /\ k = EVENT_DELETION => k = 5
    BY SMT DEF IsReplaceable, IsAddressable, EVENT_DELETION
  <1> HIDE DEF tens, thirties
  <1>7. /\ IsReplaceable(k) => ~IsAddressable(k) /\ k # EVENT_DELETION
        /\ IsAddressable(k) => k # EVENT_DELETION
    BY <1>2, <1>3, <1>4, <1>5, <1>6
  <1> QED
    BY <1>7 DEF k

LEMMA SetHaveGoes ==
    ASSUME IndexInv, NEW p \in Procs, SetHave(p)
    PROVE  LET r == proc[p]
               x == proc'[p]
               e == r.event
           IN  /\ r.pc = "set_have" /\ UNCHANGED <<n_to_event, conditions, time, book>>
               /\ SetEntry(e.id, Entry(r.n, "Have", {}))
               /\ x.event = e /\ x.n = r.n /\ x.author = r.author /\ x.ref = r.ref
               /\ \/ IsReplaceable(e.kind) /\ x.pc = "search_author"
                  \/ /\ IsAddressable(e.kind) /\ FirstDValue(e) # None
                     /\ ~IsReplaceable(e.kind) /\ x.pc = "slot_author"
                  \/ e.kind = EVENT_DELETION /\ x.pc = "tags" /\ x.tag = 1
                  \/ /\ ~IsReplaceable(e.kind) /\ e.kind # EVENT_DELETION /\ x.pc = "insert"
                     /\ IsAddressable(e.kind) => FirstDValue(e) = None
  <1> DEFINE r == proc[p]
             e == r.event
             l == CASE IsReplaceable(e.kind) -> "search_author"
                    [] IsAddressable(e.kind) /\ FirstDValue(e) # None -> "slot_author"
                    [] e.kind = EVENT_DELETION -> "tags"
                    [] OTHER -> "insert"
             k == IF e.kind = EVENT_DELETION THEN 1 ELSE 0
             y == [r EXCEPT !.pc = l, !.tag = k]
  <1>1. /\ r \in Registers /\ Goto(p, y) /\ r.pc = "set_have"
        /\ UNCHANGED <<n_to_event, conditions, time, book>>
        /\ SetEntry(e.id, Entry(r.n, "Have", {}))
    BY Goes DEF SetHave
  <1>5. e \in Events
    BY Tracing DEF SetHave, Removing
  <1>2. \/ IsReplaceable(e.kind) /\ l = "search_author"
        \/ /\ IsAddressable(e.kind) /\ FirstDValue(e) # None
           /\ ~IsReplaceable(e.kind) /\ l = "slot_author"
        \/ e.kind = EVENT_DELETION /\ l = "tags" /\ k = 1
        \/ /\ ~IsReplaceable(e.kind) /\ e.kind # EVENT_DELETION /\ l = "insert"
           /\ IsAddressable(e.kind) => FirstDValue(e) = None
    <2>1. CASE IsReplaceable(e.kind)
      <3>1. ~IsAddressable(e.kind) /\ e.kind # EVENT_DELETION
        BY <1>5, <2>1, OneKind
      <3>2. l = "search_author"
        BY <2>1, <3>1
      <3> QED
        BY <2>1, <3>2
    <2>2. CASE IsAddressable(e.kind) /\ FirstDValue(e) # None
      <3>1. ~IsReplaceable(e.kind) /\ e.kind # EVENT_DELETION
        BY <1>5, <2>2, OneKind
      <3>2. l = "slot_author"
        BY <2>2, <3>1
      <3> QED
        BY <2>2, <3>1, <3>2
    <2>3. CASE e.kind = EVENT_DELETION
      BY <1>5, <2>3, OneKind
    <2>4. CASE /\ ~IsReplaceable(e.kind) /\ ~(IsAddressable(e.kind) /\ FirstDValue(e) # None)
               /\ e.kind # EVENT_DELETION
      BY <2>4
    <2> QED
      BY <2>1, <2>2, <2>3, <2>4
  <1> HIDE DEF l, k
  <1>3. /\ y.pc = l /\ y.tag = k /\ y.event = e /\ y.n = r.n /\ y.author = r.author
        /\ y.ref = r.ref
    BY <1>1 DEF Registers
  <1> HIDE DEF y
  <1>4. proc'[p] = y
    BY <1>1, Goes
  <1> QED
    BY <1>1, <1>2, <1>3, <1>4

LEMMA SearchTagGoes ==
    ASSUME IndexInv, NEW p \in Procs, SearchTag(p)
    PROVE  LET r == proc[p]
               x == proc'[p]
               key == CompactNow(<<"d", Goal(r).d>>)
           IN  /\ r.pc = "search_tag" /\ UNCHANGED <<db, book>>
               /\ \/ key = None /\ Resumes(x, r)
                  \/ /\ x.pc = "search_author" /\ Same(x, r) /\ x.ref = r.ref
                     /\ x.cand = Hits(key)
  <1> DEFINE r == proc[p]
             key == CompactNow(<<"d", Goal(r).d>>)
             hits == Hits(key)
             y == [r EXCEPT !.pc = "search_author", !.cand = hits]
  <1>1. r \in Registers /\ r.pc = "search_tag" /\ UNCHANGED <<db, book>>
    BY Goes DEF SearchTag
  <1>2. Goto(p, IF key = None THEN Resume(r) ELSE y)
    BY DEF SearchTag
  <1> HIDE DEF hits, key
  <1>3. y.pc = "search_author" /\ Same(y, r) /\ y.ref = r.ref /\ y.cand = hits
    BY <1>1 DEF Registers, Same
  <1> HIDE DEF y
  <1>4. proc'[p] = IF key = None THEN Resume(r) ELSE y
    BY <1>2, Goes
  <1> QED
    BY <1>1, <1>3, <1>4, ResumeGoes DEF key, hits

LEMMA SearchAuthorGoes ==
    ASSUME IndexInv, NEW p \in Procs, SearchAuthor(p)
    PROVE  LET r == proc[p]
               x == proc'[p]
               hits == Hits(Compact(Author(Goal(r).pubkey), r.ref))
           IN  /\ r.pc = "search_author" /\ UNCHANGED <<db, book>>
               /\ x.pc = "search_kind" /\ Same(x, r)
               /\ x.cand = IF Goal(r).d = None THEN hits ELSE r.cand \cap hits
  <1> DEFINE r == proc[p]
             hits == Hits(Compact(Author(Goal(r).pubkey), r.ref))
             cand == IF Goal(r).d = None THEN hits ELSE r.cand \cap hits
             y == [r EXCEPT !.pc = "search_kind", !.cand = cand]
  <1>1. /\ r \in Registers /\ r.pc = "search_author" /\ UNCHANGED <<db, book>>
        /\ Goto(p, y)
    BY Goes DEF SearchAuthor
  <1> HIDE DEF cand
  <1>2. y.pc = "search_kind" /\ Same(y, r) /\ y.cand = cand
    BY <1>1 DEF Registers, Same
  <1> HIDE DEF y
  <1>3. proc'[p] = y
    BY <1>1, Goes
  <1> QED
    BY <1>1, <1>2, <1>3 DEF cand

LEMMA SearchKindGoes ==
    ASSUME IndexInv, NEW p \in Procs, SearchKind(p)
    PROVE  LET r == proc[p]
               x == proc'[p]
           IN  /\ r.pc = "search_kind" /\ UNCHANGED <<db, book>>
               /\ x.pc = "scan" /\ Same(x, r)
               /\ x.cand = r.cand \cap Hits(Kind(Goal(r).kind))
  <1> DEFINE r == proc[p]
             cand == r.cand \cap Hits(Kind(Goal(r).kind))
             y == [r EXCEPT !.pc = "scan", !.cand = cand]
  <1>1. r \in Registers /\ r.pc = "search_kind" /\ UNCHANGED <<db, book>> /\ Goto(p, y)
    BY Goes DEF SearchKind
  <1> HIDE DEF cand
  <1>2. y.pc = "scan" /\ Same(y, r) /\ y.cand = cand
    BY <1>1 DEF Registers, Same
  <1> HIDE DEF y
  <1>3. proc'[p] = y
    BY <1>1, Goes
  <1> QED
    BY <1>1, <1>2, <1>3 DEF cand

LEMMA ScanGoes ==
    ASSUME IndexInv, NEW p \in Procs, Scan(p)
    PROVE  LET r == proc[p]
               x == proc'[p]
           IN  /\ r.pc = "scan" /\ UNCHANGED <<db, book>>
               /\ \/ r.cand = {} /\ Resumes(x, r)
                  \/ \E t \in r.cand :
                       LET stored == n_to_event[t[2]] IN
                       \/ /\ ~IsVersion(stored, Goal(r).d)
                          /\ x.pc = "scan" /\ Same(x, r) /\ x.cand = r.cand \ {t}
                       \/ /\ IsVersion(stored, Goal(r).d) /\ ~HaveNewer(t, stored, r.event)
                          /\ x.pc = "remove" /\ Same(x, r)
                          /\ x.victim = t[2] /\ x.status = "Outdated"
                  \/ r.event.kind = EVENT_DELETION /\ Resumes(x, r)
                  \/ r.event.kind # EVENT_DELETION /\ x = Idle
  <1> DEFINE r == proc[p]
             x == proc'[p]
             Removes1(t) == [r EXCEPT !.pc = "remove", !.victim = t[2],
                                      !.status = "Outdated", !.cand = {}]
  <1>1. r \in Registers /\ r.pc = "scan" /\ UNCHANGED <<db, book>>
    BY Goes DEF Scan
  <1>2. \A t : Skip(r, t).pc = "scan" /\ Same(Skip(r, t), r) /\ Skip(r, t).cand = r.cand \ {t}
    BY <1>1 DEF Registers, Skip, Same
  <1>3. \A t : /\ Removes1(t).pc = "remove" /\ Same(Removes1(t), r)
               /\ Removes1(t).victim = t[2] /\ Removes1(t).status = "Outdated"
    BY <1>1 DEF Registers, Same
  <1> HIDE DEF Removes1
  <1>4. CASE r.cand = {} /\ Goto(p, Resume(r))
    BY <1>1, <1>4, Goes, ResumeGoes
  <1>5. ASSUME NEW t \in r.cand,
               Goto(p, IF ~IsVersion(n_to_event[t[2]], Goal(r).d) THEN Skip(r, t)
                       ELSE IF ~HaveNewer(t, n_to_event[t[2]], r.event) THEN Removes1(t)
                       ELSE IF r.event.kind = EVENT_DELETION THEN Resume(r) ELSE Idle)
        PROVE  \/ /\ ~IsVersion(n_to_event[t[2]], Goal(r).d)
                  /\ x.pc = "scan" /\ Same(x, r) /\ x.cand = r.cand \ {t}
               \/ /\ IsVersion(n_to_event[t[2]], Goal(r).d)
                  /\ ~HaveNewer(t, n_to_event[t[2]], r.event)
                  /\ x.pc = "remove" /\ Same(x, r)
                  /\ x.victim = t[2] /\ x.status = "Outdated"
               \/ r.event.kind = EVENT_DELETION /\ Resumes(x, r)
               \/ r.event.kind # EVENT_DELETION /\ x = Idle
    <2>1. x = IF ~IsVersion(n_to_event[t[2]], Goal(r).d) THEN Skip(r, t)
              ELSE IF ~HaveNewer(t, n_to_event[t[2]], r.event) THEN Removes1(t)
              ELSE IF r.event.kind = EVENT_DELETION THEN Resume(r) ELSE Idle
      BY <1>5, Goes
    <2>2. \/ ~IsVersion(n_to_event[t[2]], Goal(r).d) /\ x = Skip(r, t)
          \/ /\ IsVersion(n_to_event[t[2]], Goal(r).d)
             /\ ~HaveNewer(t, n_to_event[t[2]], r.event) /\ x = Removes1(t)
          \/ r.event.kind = EVENT_DELETION /\ x = Resume(r)
          \/ r.event.kind # EVENT_DELETION /\ x = Idle
      BY <2>1
    <2> QED
      BY <1>2, <1>3, <2>2, ResumeGoes
  <1>6. \/ r.cand = {} /\ Goto(p, Resume(r))
        \/ \E t \in r.cand :
              Goto(p, IF ~IsVersion(n_to_event[t[2]], Goal(r).d) THEN Skip(r, t)
                      ELSE IF ~HaveNewer(t, n_to_event[t[2]], r.event) THEN Removes1(t)
                      ELSE IF r.event.kind = EVENT_DELETION THEN Resume(r) ELSE Idle)
    BY DEF Scan, Removes1
  <1> QED
    BY <1>1, <1>4, <1>5, <1>6

\* A removal goes on with the same event and number.
LEMMA RemoveGoes ==
    ASSUME IndexInv, NEW p \in Procs, Remove(p)
    PROVE  LET r == proc[p]
               x == proc'[p]
           IN  /\ r.pc = "remove" /\ UNCHANGED <<db, book>>
               /\ \/ n_to_event[r.victim] = None /\ Resumes(x, r)
                  \/ /\ x.pc = "remove_status" /\ Same(x, r) /\ x.victim = r.victim
                     /\ x.status = r.status
  <1> DEFINE r == proc[p]
             e == n_to_event[r.victim]
             y == [r EXCEPT !.pc = "remove_status", !.removed = e, !.todo = Conditions(e)]
  <1>1. /\ r \in Registers /\ r.pc = "remove" /\ UNCHANGED <<db, book>>
        /\ Goto(p, IF e = None THEN Resume(r) ELSE y)
    BY Goes DEF Remove
  <1>2. /\ y.pc = "remove_status" /\ Same(y, r) /\ y.victim = r.victim
        /\ y.status = r.status
    BY <1>1 DEF Registers, Same
  <1> HIDE DEF y
  <1>3. proc'[p] = IF e = None THEN Resume(r) ELSE y
    BY <1>1, Goes
  <1> QED
    BY <1>1, <1>2, <1>3, ResumeGoes

LEMMA RemoveStatusGoes ==
    ASSUME IndexInv, NEW p \in Procs, RemoveStatus(p)
    PROVE  LET r == proc[p]
               x == proc'[p]
           IN  /\ r.pc = "remove_status" /\ UNCHANGED <<n_to_event, conditions, time, book>>
               /\ SetEntry(r.removed.id, Entry(r.victim, r.status, {}))
               /\ x.pc = "remove_keys" /\ Same(x, r) /\ x.victim = r.victim
               /\ x.status = r.status
  <1> DEFINE r == proc[p]
             y == [r EXCEPT !.pc = "remove_keys"]
  <1>1. /\ r \in Registers /\ r.pc = "remove_status" /\ Goto(p, y)
        /\ UNCHANGED <<n_to_event, conditions, time, book>>
        /\ SetEntry(r.removed.id, Entry(r.victim, r.status, {}))
    BY Goes DEF RemoveStatus
  <1>2. y.pc = "remove_keys" /\ Same(y, r) /\ y.victim = r.victim /\ y.status = r.status
    BY <1>1 DEF Registers, Same
  <1> HIDE DEF y
  <1> QED
    BY <1>1, <1>2, Goes

LEMMA RemoveKeysGoes ==
    ASSUME IndexInv, NEW p \in Procs, RemoveKey(p) \/ RemoveTime(p)
    PROVE  LET r == proc[p]
               x == proc'[p]
           IN  /\ r.pc = "remove_keys" /\ UNCHANGED <<hash_to_n, n_to_event, book>>
               /\ x.pc \in {"remove_keys", "remove_event"} /\ Same(x, r)
               /\ x.victim = r.victim /\ x.status = r.status
  <1> DEFINE r == proc[p]
             y == [r EXCEPT !.todo = Tail(@)]
             z == [r EXCEPT !.pc = "remove_event"]
  <1>1. r \in Registers /\ r.pc = "remove_keys" /\ UNCHANGED <<hash_to_n, n_to_event, book>>
    BY Goes DEF RemoveKey, RemoveTime
  <1>2. y.pc = r.pc /\ Same(y, r) /\ y.victim = r.victim /\ y.status = r.status
    BY <1>1 DEF Registers, Same
  <1>3. z.pc = "remove_event" /\ Same(z, r) /\ z.victim = r.victim /\ z.status = r.status
    BY <1>1 DEF Registers, Same
  <1>4. Goto(p, y) \/ Goto(p, z)
    BY DEF RemoveKey, RemoveTime
  <1> HIDE DEF y, z
  <1> QED
    BY <1>1, <1>2, <1>3, <1>4, Goes

LEMMA RemoveEventGoes ==
    ASSUME IndexInv, NEW p \in Procs, RemoveEvent(p)
    PROVE  LET r == proc[p]
           IN  /\ r.pc = "remove_event" /\ UNCHANGED <<hash_to_n, conditions, time, book>>
               /\ Resumes(proc'[p], r) /\ r.victim \in Ns
               /\ n_to_event'[r.victim] = None
               /\ \A n \in Ns : n # r.victim => n_to_event'[n] = n_to_event[n]
  <1> DEFINE r == proc[p]
  <1>1. /\ r.pc = "remove_event" /\ UNCHANGED <<hash_to_n, conditions, time, book>>
        /\ n_to_event' = [n_to_event EXCEPT ![r.victim] = None] /\ Goto(p, Resume(r))
    BY DEF RemoveEvent
  <1>2. r.victim \in Ns
    BY <1>1, RemovedOwned DEF HasRemoved, IndexInv
  <1>3. /\ n_to_event'[r.victim] = None
        /\ \A n \in Ns : n # r.victim => n_to_event'[n] = n_to_event[n]
    BY <1>1, <1>2 DEF IndexInv, Inv, TypeOK
  <1>4. proc'[p] = Resume(r)
    BY <1>1, Goes
  <1> QED
    BY <1>1, <1>2, <1>3, <1>4, ResumeGoes

LEMMA InsertGoes ==
    ASSUME IndexInv, NEW p \in Procs, Insert(p)
    PROVE  LET r == proc[p]
               x == proc'[p]
           IN  /\ r.pc = "insert" /\ UNCHANGED <<hash_to_n, conditions, time, book>>
               /\ x.pc = "insert_keys" /\ Same(x, r)
               /\ r.event \in Events /\ r.n \in Ns /\ n_to_event'[r.n] = r.event
               /\ \A n \in Ns : n # r.n => n_to_event'[n] = n_to_event[n]
  <1> DEFINE r == proc[p]
             y == [r EXCEPT !.pc = "insert_keys", !.todo = Conditions(r.event)]
  <1>1. /\ r \in Registers /\ r.pc = "insert" /\ Goto(p, y)
        /\ UNCHANGED <<hash_to_n, conditions, time, book>>
        /\ n_to_event' = [n_to_event EXCEPT ![r.n] = r.event]
    BY Goes DEF Insert
  <1>2. y.pc = "insert_keys" /\ Same(y, r)
    BY <1>1 DEF Registers, Same
  <1> HIDE DEF y
  <1>3. r.event \in Events /\ r.n \in Ns
    <2>1. HasNumber(r)
      BY <1>1, Tracing DEF HasNumber, Removing
    <2> QED
      BY <2>1, Numbered DEF IndexInv
  <1>4. /\ n_to_event'[r.n] = r.event
        /\ \A n \in Ns : n # r.n => n_to_event'[n] = n_to_event[n]
    BY <1>1, <1>3 DEF IndexInv, Inv, TypeOK
  <1> QED
    BY <1>1, <1>2, <1>3, <1>4, Goes

LEMMA InsertKeyGoes ==
    ASSUME IndexInv, NEW p \in Procs, InsertKey(p)
    PROVE  LET r == proc[p]
               x == proc'[p]
           IN  /\ r.pc \in {"insert_keys", "insert_key"}
               /\ UNCHANGED <<hash_to_n, n_to_event, book>>
               /\ x.pc = "insert_keys" /\ Same(x, r)
  <1> DEFINE r == proc[p]
             y == [r EXCEPT !.pc = "insert_keys", !.todo = Tail(@)]
  <1>1. /\ r \in Registers /\ r.pc \in {"insert_keys", "insert_key"} /\ Goto(p, y)
        /\ UNCHANGED <<hash_to_n, n_to_event, book>>
    BY Goes DEF InsertKey
  <1>2. y.pc = "insert_keys" /\ Same(y, r)
    BY <1>1 DEF Registers, Same
  <1> HIDE DEF y
  <1> QED
    BY <1>1, <1>2, Goes

\* What a tag of a deletion request leads to.
LEMMA TagStepGoes ==
    ASSUME IndexInv, NEW p \in Procs, TagStep(p)
    PROVE  LET r == proc[p]
               x == proc'[p]
               value == TagAt(r).value
               entry == hash_to_n[value.hash]
               isE == TagAt(r).name = "e" /\ value # None /\ value.type = "hex32"
           IN  /\ r.pc = "tags" /\ UNCHANGED <<db, book>>
               /\ \/ /\ r.tag > Len(r.event.tags) /\ x.pc = "insert"
                     /\ x.event = r.event /\ x.n = r.n /\ x.author = r.author
                  \/ /\ r.tag <= Len(r.event.tags) /\ isE /\ Same(x, r)
                     /\ \/ /\ x.pc = "set_requested"
                           /\ entry = None /\ x.by = {r.author}
                        \/ /\ x.pc = "set_requested"
                           /\ entry # None /\ entry.status = "Unknown"
                           /\ x.by = entry.by \cup {r.author}
                        \/ /\ x.pc = "check_author" /\ x.victim = entry.n
                           /\ entry # None /\ entry.status = "Have"
                  \/ /\ r.tag <= Len(r.event.tags) /\ isE /\ Resumes(x, r)
                     /\ entry # None /\ entry.status \notin {"Unknown", "Have"}
                  \/ /\ r.tag <= Len(r.event.tags) /\ ~isE
                     /\ Resumes(x, r) \/ (x.pc = "slot_author" /\ Same(x, r))
  <1> DEFINE r == proc[p]
             x == proc'[p]
             value == TagAt(r).value
             entry == hash_to_n[value.hash]
             isE == TagAt(r).name = "e" /\ value # None /\ value.type = "hex32"
             ToInsert == [r EXCEPT !.pc = "insert", !.tag = 0]
             ToSet(n, by) == [r EXCEPT !.pc = "set_requested", !.victim = n, !.by = by]
             ToCheck(n) == [r EXCEPT !.pc = "check_author", !.victim = n]
             ToSlot == [r EXCEPT !.pc = "slot_author"]
  <1>1. r \in Registers /\ r.pc = "tags" /\ UNCHANGED <<db, book>>
    BY Goes DEF TagStep
  <1>2. /\ ToInsert.pc = "insert" /\ ToInsert.event = r.event /\ ToInsert.n = r.n
        /\ ToInsert.author = r.author
    BY <1>1 DEF Registers
  <1>3. \A n, by : /\ ToSet(n, by).pc = "set_requested" /\ Same(ToSet(n, by), r)
                   /\ ToSet(n, by).by = by
    BY <1>1 DEF Registers, Same
  <1>4. \A n : /\ ToCheck(n).pc = "check_author" /\ Same(ToCheck(n), r)
               /\ ToCheck(n).victim = n
    BY <1>1 DEF Registers, Same
  <1>5. ToSlot.pc = "slot_author" /\ Same(ToSlot, r)
    BY <1>1 DEF Registers, Same
  <1>6. \/ r.tag > Len(r.event.tags) /\ Goto(p, ToInsert)
        \/ /\ r.tag <= Len(r.event.tags) /\ isE
           /\ \/ entry = None /\ Goto(p, ToSet(n_count, {r.author}))
              \/ /\ entry # None
                 /\ Goto(p, CASE Undecided(entry) -> ToSet(entry.n, entry.by \cup {r.author})
                              [] ~Undecided(entry) /\ entry.status = "Have" -> ToCheck(entry.n)
                              [] OTHER -> Resume(r))
        \/ r.tag <= Len(r.event.tags) /\ ~isE /\ (Goto(p, Resume(r)) \/ Goto(p, ToSlot))
    BY DEF TagStep, TagAt, Requested
  <1> HIDE DEF ToInsert, ToSet, ToCheck, ToSlot, isE, entry
  <1>7. CASE r.tag > Len(r.event.tags) /\ Goto(p, ToInsert)
    BY <1>1, <1>2, <1>7, Goes
  <1>8. CASE r.tag <= Len(r.event.tags) /\ isE /\ entry = None /\ Goto(p, ToSet(n_count, {r.author}))
    BY <1>1, <1>3, <1>8, Goes DEF isE, entry
  <1>9. CASE /\ r.tag <= Len(r.event.tags) /\ isE /\ entry # None
             /\ Goto(p, CASE Undecided(entry) -> ToSet(entry.n, entry.by \cup {r.author})
                          [] ~Undecided(entry) /\ entry.status = "Have" -> ToCheck(entry.n)
                          [] OTHER -> Resume(r))
    <2>1. x = CASE Undecided(entry) -> ToSet(entry.n, entry.by \cup {r.author})
                [] ~Undecided(entry) /\ entry.status = "Have" -> ToCheck(entry.n)
                [] OTHER -> Resume(r)
      BY <1>9, Goes
    <2>2. \/ Undecided(entry) /\ x = ToSet(entry.n, entry.by \cup {r.author})
          \/ entry.status = "Have" /\ x = ToCheck(entry.n)
          \/ ~Undecided(entry) /\ entry.status # "Have" /\ x = Resume(r)
      BY <2>1
    <2>3. r.tag <= Len(r.event.tags) /\ isE /\ entry # None
      BY <1>9
    <2>4. CASE Undecided(entry) /\ x = ToSet(entry.n, entry.by \cup {r.author})
      <3>1. /\ x.pc = "set_requested" /\ Same(x, r)
            /\ x.by = entry.by \cup {r.author}
        BY <1>3, <2>4
      <3>2. entry.status = "Unknown"
        BY <2>4 DEF Undecided
      <3> QED
        BY <1>1, <2>3, <3>1, <3>2 DEF isE, entry
    <2>5. CASE entry.status = "Have" /\ x = ToCheck(entry.n)
      BY <1>1, <1>4, <2>3, <2>5 DEF isE, entry
    <2>6. CASE ~Undecided(entry) /\ entry.status # "Have" /\ x = Resume(r)
      BY <1>1, <2>3, <2>6, ResumeGoes DEF Undecided, isE, entry
    <2> QED
      BY <2>2, <2>4, <2>5, <2>6
  <1>10. CASE r.tag <= Len(r.event.tags) /\ ~isE /\ (Goto(p, Resume(r)) \/ Goto(p, ToSlot))
    BY <1>1, <1>5, <1>10, Goes, ResumeGoes DEF isE
  <1> QED
    BY <1>6, <1>7, <1>8, <1>9, <1>10

LEMMA SetRequestedGoes ==
    ASSUME IndexInv, NEW p \in Procs, SetRequested(p)
    PROVE  LET r == proc[p]
           IN  /\ r.pc = "set_requested" /\ UNCHANGED <<n_to_event, conditions, time, book>>
               /\ SetEntry(TagAt(r).value.hash, Entry(r.victim, "Unknown", r.by))
               /\ Resumes(proc'[p], r)
  BY Goes, ResumeGoes DEF SetRequested, TagAt

LEMMA CheckAuthorGoes ==
    ASSUME IndexInv, NEW p \in Procs, CheckAuthor(p)
    PROVE  LET r == proc[p]
               x == proc'[p]
               stored == n_to_event[r.victim]
           IN  /\ r.pc = "check_author" /\ UNCHANGED <<db, book>>
               /\ \/ /\ stored # None /\ stored.pubkey = r.event.pubkey
                     /\ x.pc = "remove" /\ Same(x, r) /\ x.victim = r.victim
                     /\ x.status = "Deleted"
                  \/ (stored = None \/ stored.pubkey # r.event.pubkey) /\ Resumes(x, r)
  <1> DEFINE r == proc[p]
             stored == n_to_event[r.victim]
             y == [r EXCEPT !.pc = "remove", !.status = "Deleted"]
  <1>1. r \in Registers /\ r.pc = "check_author" /\ UNCHANGED <<db, book>>
    BY Goes DEF CheckAuthor
  <1>2. y.pc = "remove" /\ Same(y, r) /\ y.victim = r.victim /\ y.status = "Deleted"
    BY <1>1 DEF Registers, Same
  <1>3. Goto(p, IF MayDelete(r.event, stored) THEN y ELSE Resume(r))
    BY DEF CheckAuthor
  <1> HIDE DEF y
  <1>4. \/ MayDelete(r.event, stored) /\ proc'[p] = y
        \/ ~MayDelete(r.event, stored) /\ proc'[p] = Resume(r)
    BY <1>3, Goes
  <1> QED
    BY <1>1, <1>2, <1>4, ResumeGoes DEF MayDelete
-------------------------------------------------------------------------------
(* The numbers a thread has looked up.                                       *)

\* A look-up may give a hash a number, and does nothing else to hash_to_n.
Learns ==
    /\ Stable
    /\ \A g \in Hashes : hash_to_n[g] # None => hash_to_n'[g] = hash_to_n[g]
    /\ \A g \in Hashes : hash_to_n[g] = None /\ hash_to_n'[g] # None =>
          hash_to_n'[g].status = "Unknown" /\ hash_to_n'[g].by = {}

LEMMA GetAuthorGoes ==
    ASSUME IndexInv, TurnOK(Running), NEW p \in Procs, GetAuthor(p),
           Running = proc[p], Running' = proc'[p]
    PROVE  LET r == proc[p]
               x == proc'[p]
           IN  /\ r.pc = "author" /\ UNCHANGED <<n_to_event, conditions, time, book>> /\ Learns
               /\ x.event = r.event /\ x.pc \in {"author", "claim"}
               /\ x.pc = "claim" => hash_to_n'[r.event.pubkey] # None
                                    /\ hash_to_n'[r.event.pubkey].n = x.ref
  <1> DEFINE r == proc[p]
  <1>1. /\ r.pc = "author" /\ r.event.pubkey \in Hashes
        /\ UNCHANGED <<n_to_event, conditions, time, book>>
    BY Tracing, EventHashes DEF GetAuthor, Removing
  <1>2. r.event.pubkey = Sought(r)
    BY <1>1 DEF Sought
  <1> QED
    BY <1>1, <1>2, Looked DEF GetAuthor, Learns

LEMMA SlotAuthorGoes ==
    ASSUME IndexInv, TurnOK(Running), NEW p \in Procs, SlotAuthor(p),
           Running = proc[p], Running' = proc'[p]
    PROVE  LET r == proc[p]
               x == proc'[p]
           IN  /\ r.pc = "slot_author" /\ UNCHANGED <<n_to_event, conditions, time, book>> /\ Learns
               /\ Same(x, r) /\ x.pc \in {"slot_author", "search_tag"}
               /\ x.pc = "search_tag" => hash_to_n'[Goal(r).pubkey] # None
                                         /\ hash_to_n'[Goal(r).pubkey].n = x.ref
  <1> DEFINE r == proc[p]
  <1>1. /\ r.pc = "slot_author" /\ RegisterOK(r) /\ HasNumber(r) /\ r.event \in Events
        /\ UNCHANGED <<n_to_event, conditions, time, book>>
    BY Tracing DEF SlotAuthor, HasNumber, Removing
  <1>2. Goal(r).pubkey \in Hashes
    BY <1>1, EventHashes DEF Goal, Address, RegisterOK, TagAt
  <1>3. Goal(r).pubkey = Sought(r)
    BY <1>1 DEF Sought
  <1> QED
    BY <1>1, <1>2, <1>3, Looked DEF SlotAuthor, Learns, Same

LEMMA InsertRefGoes ==
    ASSUME IndexInv, TurnOK(Running), NEW p \in Procs, InsertRef(p),
           Running = proc[p], Running' = proc'[p]
    PROVE  LET r == proc[p]
               x == proc'[p]
           IN  /\ r.pc = "insert_keys" /\ UNCHANGED <<n_to_event, conditions, time, book>> /\ Learns
               /\ Same(x, r) /\ x.pc \in {"insert_keys", "insert_key"}
  <1> DEFINE r == proc[p]
  <1>1. /\ r.pc = "insert_keys" /\ HasNumber(r) /\ r.todo # <<>> /\ HasHash(Head(r.todo))
        /\ r.todo \in Seq(AllConditions) /\ UNCHANGED <<n_to_event, conditions, time, book>>
    BY Tracing DEF InsertRef, Removing, HasNumber, Registers
  <1>2. Head(r.todo)[2].hash \in Hashes
    <2>1. Head(r.todo) \in AllConditions
      BY <1>1
    <2> QED
      BY <1>1, <2>1, DbAssumption
  <1>3. Head(r.todo)[2].hash = Sought(r)
    BY <1>1 DEF Sought
  <1> QED
    BY <1>1, <1>2, <1>3, Looked DEF InsertRef, Learns, Same

LEMMA SetDeletedGoes ==
    ASSUME IndexInv, NEW p \in Procs, SetDeleted(p)
    PROVE  LET r == proc[p]
           IN  /\ r.pc = "set_deleted" /\ UNCHANGED <<n_to_event, conditions, time, book>>
               /\ SetEntry(r.event.id, Entry(r.n, "Deleted", {})) /\ proc'[p] = Idle
  BY Goes DEF SetDeleted

LEMMA InsertTimeGoes ==
    ASSUME IndexInv, NEW p \in Procs, InsertTime(p)
    PROVE  LET r == proc[p]
           IN  /\ r.pc = "insert_keys" /\ UNCHANGED <<hash_to_n, n_to_event, conditions, expired>>
               /\ accepted' = accepted \cup {<<r.event, r.n>>} /\ proc'[p] = Idle
  BY Goes DEF InsertTime

\* Every step of an operation leaves the numbers of hashes as they are.
LEMMA StepStable ==
    ASSUME IndexInv, TurnOK(Running), NEW p \in Procs, Step(p),
           Running = proc[p], Running' = proc'[p]
    PROVE  Stable
  <1> DEFINE r == proc[p]
  <1>1. CASE GetAuthor(p) \/ SlotAuthor(p) \/ InsertRef(p)
    BY <1>1, GetAuthorGoes, SlotAuthorGoes, InsertRefGoes DEF Learns
  <1>2. CASE SetDeleted(p) \/ SetHave(p)
    <2>1. r.pc \in {"set_deleted", "set_have"}
      BY <1>2 DEF SetDeleted, SetHave
    <2>2. /\ r.event.id \in Hashes /\ r.n \in Ns
          /\ hash_to_n[r.event.id] # None => hash_to_n[r.event.id].n = r.n
      BY <2>1, ClaimedFree
    <2>3. ASSUME NEW status \in Status, SetEntry(r.event.id, Entry(r.n, status, {})) PROVE Stable
      <3> DEFINE entry == Entry(r.n, status, {})
      <3>1. entry # None /\ entry.n = r.n
        BY <2>2, EntryIsSome
      <3> HIDE DEF entry
      <3>2. SetEntry(r.event.id, entry)
        BY <2>3 DEF entry
      <3> QED
        BY <2>2, <3>1, <3>2, PutStable DEF IndexInv
    <2> QED
      BY <1>2, <2>3 DEF SetDeleted, SetHave, Status
  <1>3. CASE SetRequested(p)
    <2> DEFINE h == TagAt(r).value.hash
               entry == Entry(r.victim, "Unknown", r.by)
    <2>1. /\ RegisterOK(r) /\ r.pc = "set_requested" /\ r.event \in Events /\ r.by \in SUBSET Ns
      BY <1>3, Tracing DEF SetRequested, Removing, Registers
    <2>2. h \in Hashes /\ r.victim \in Ns
      BY <2>1, EventHashes DEF RegisterOK, TagAt
    <2>3. SetEntry(h, entry)
      BY <1>3, SetRequestedGoes
    <2>4. entry # None /\ entry.n = r.victim
      BY <2>1, <2>2, EntryIsSome DEF Status
    <2>5. hash_to_n[h] # None => hash_to_n[h].n = r.victim
      BY <2>1 DEF TurnOK, Named
    <2> HIDE DEF h, entry
    <2> QED
      BY <2>2, <2>3, <2>4, <2>5, PutStable DEF IndexInv
  <1>4. CASE RemoveStatus(p)
    <2> DEFINE h == r.removed.id
               entry == Entry(r.victim, r.status, {})
    <2>1. r.pc = "remove_status" /\ HasRemoved(r) /\ r.status \in Status /\ SetEntry(h, entry)
      BY <1>4, Tracing, RemoveStatusGoes DEF HasRemoved, Registers
    <2>2. /\ r.victim \in Stored /\ r.victim \in Ns /\ h \in Hashes
          /\ n_to_event[r.victim] = r.removed
      BY <2>1, VictimStored
    <2>3. hash_to_n[h] = Entry(r.victim, "Have", {})
      BY <2>1, <2>2 DEF TurnOK, StoredHave, Leaving
    <2>4. entry # None /\ entry.n = r.victim /\ hash_to_n[h].n = r.victim
      BY <2>1, <2>2, <2>3, EntryIsSome
    <2> HIDE DEF h, entry
    <2> QED
      BY <2>1, <2>2, <2>4, PutStable DEF IndexInv
  <1>5. CASE \/ Claim(p) \/ SearchTag(p) \/ SearchAuthor(p) \/ SearchKind(p) \/ Scan(p)
             \/ TagStep(p) \/ CheckAuthor(p)
             \/ Remove(p) \/ RemoveKey(p) \/ RemoveTime(p) \/ RemoveEvent(p)
             \/ Insert(p) \/ InsertKey(p) \/ InsertTime(p)
    <2>1. UNCHANGED hash_to_n
      BY <1>5, ClaimGoes, SearchTagGoes, SearchAuthorGoes, SearchKindGoes, ScanGoes, TagStepGoes,
         CheckAuthorGoes, RemoveGoes, RemoveKeysGoes, RemoveEventGoes, InsertGoes,
         InsertKeyGoes DEF InsertTime, db
    <2> QED
      BY <2>1 DEF Stable
  <1> QED
    BY <1>1, <1>2, <1>3, <1>4, <1>5 DEF Step

\* What is known of a hash stays known.
LEMMA StillKnown ==
    ASSUME Stable, NEW h \in Hashes, NEW n, Known(h, n)
    PROVE  hash_to_n'[h] # None /\ hash_to_n'[h].n = n
  BY DEF Stable, Known

\* The same event, once it has its number.
Keeps(x, r) ==
    HasNumber(x) => HasNumber(r) /\ x.event = r.event /\ x.author = r.author /\ x.n = r.n

LEMMA KeepsOn ==
    ASSUME NEW r, NEW x, r.pc \notin {"idle", "author", "claim"},
           Same(x, r) \/ Resumes(x, r) \/ x = Idle
    PROVE  Keeps(x, r)
  <1>1. CASE Same(x, r)
    BY <1>1 DEF Keeps, Same, HasNumber
  <1>2. CASE Resumes(x, r)
    BY <1>2 DEF Keeps, Resumes, HasNumber
  <1>3. CASE x = Idle
    BY <1>3 DEF Keeps, HasNumber, Idle
  <1> QED
    BY <1>1, <1>2, <1>3

\* An operation goes on with its event and its number, unless it is over.
LEMMA StepKeeps ==
    ASSUME IndexInv, TurnOK(Running), NEW p \in Procs, Step(p), ~Claim(p),
           Running = proc[p], Running' = proc'[p]
    PROVE  Keeps(proc'[p], proc[p])
  <1>1. CASE GetAuthor(p)
    BY <1>1, GetAuthorGoes DEF Keeps, HasNumber
  <1>2. CASE SetHave(p)
    BY <1>2, SetHaveGoes DEF Keeps, HasNumber
  <1>3. CASE SetDeleted(p) \/ SlotAuthor(p) \/ InsertRef(p) \/ InsertKey(p) \/ InsertTime(p)
    BY <1>3, KeepsOn, SetDeletedGoes, SlotAuthorGoes, InsertRefGoes, InsertKeyGoes,
       InsertTimeGoes
  <1>4. CASE SearchTag(p) \/ SearchAuthor(p) \/ SearchKind(p)
    BY <1>4, KeepsOn, SearchTagGoes, SearchAuthorGoes, SearchKindGoes
  <1>5. CASE Scan(p)
    BY <1>5, KeepsOn, ScanGoes
  <1>6. CASE TagStep(p)
    <2>1. proc[p].pc = "tags"
      BY <1>6, TagStepGoes
    <2>2. CASE Same(proc'[p], proc[p]) \/ Resumes(proc'[p], proc[p])
      BY <2>1, <2>2, KeepsOn
    <2>3. CASE /\ proc'[p].event = proc[p].event /\ proc'[p].n = proc[p].n
               /\ proc'[p].author = proc[p].author
      BY <2>1, <2>3 DEF Keeps, HasNumber
    <2> QED
      BY <1>6, <2>2, <2>3, TagStepGoes
  <1>7. CASE SetRequested(p) \/ CheckAuthor(p)
    BY <1>7, KeepsOn, SetRequestedGoes, CheckAuthorGoes
  <1>8. CASE Remove(p) \/ RemoveStatus(p) \/ RemoveKey(p) \/ RemoveTime(p) \/ RemoveEvent(p)
    BY <1>8, KeepsOn, RemoveGoes, RemoveStatusGoes, RemoveKeysGoes, RemoveEventGoes
  <1>9. CASE Insert(p)
    BY <1>9, KeepsOn, InsertGoes
  <1> QED
    BY <1>1, <1>2, <1>3, <1>4, <1>5, <1>6, <1>7, <1>8, <1>9 DEF Step

\* The registers that hold the number of an author.
NumberKnown(r) ==
    /\ r.pc \in {"claim", "set_have"} => Known(r.event.pubkey, r.ref)
    /\ r.pc \in {"search_tag", "search_author"} => Known(Goal(r).pubkey, r.ref)
    /\ HasNumber(r) => Known(r.event.pubkey, r.author)
LEMMA ResumesTo ==
    ASSUME NEW r, NEW x, Resumes(x, r)
    PROVE  x.pc \in {"idle", "tags", "insert"}
  BY DEF Resumes

\* Which steps lead to the labels that the registers are kept for.
LEMMA StepLeaves ==
    ASSUME IndexInv, TurnOK(Running), NEW p \in Procs, Step(p),
           Running = proc[p], Running' = proc'[p]
    PROVE  LET x == proc'[p]
           IN  /\ x.pc = "claim" => GetAuthor(p)
               /\ x.pc \in {"set_have", "set_deleted"} => Claim(p)
               /\ x.pc = "slot_author" => SetHave(p) \/ TagStep(p) \/ SlotAuthor(p)
               /\ x.pc \in {"search_tag", "search_author"} =>
                     SlotAuthor(p) \/ SetHave(p) \/ SearchTag(p)
               /\ x.pc = "search_kind" => SearchAuthor(p)
               /\ x.pc = "scan" => SearchKind(p) \/ Scan(p)
               /\ x.pc \in {"set_requested", "check_author"} => TagStep(p)
               /\ x.pc = "remove" => Scan(p) \/ CheckAuthor(p)
               /\ x.pc = "remove_status" => Remove(p)
               /\ x.pc \in {"remove_keys", "remove_event"} =>
                     RemoveStatus(p) \/ RemoveKey(p) \/ RemoveTime(p)
  <1> DEFINE x == proc'[p]
  <1>1. CASE Claim(p)
    BY <1>1, ClaimGoes DEF Idle
  <1>2. CASE GetAuthor(p)
    BY <1>2, GetAuthorGoes
  <1>3. CASE SetHave(p)
    BY <1>3, SetHaveGoes
  <1>4. CASE SlotAuthor(p)
    BY <1>4, SlotAuthorGoes
  <1>5. CASE SearchTag(p)
    BY <1>5, SearchTagGoes, ResumesTo
  <1>6. CASE Scan(p)
    BY <1>6, ScanGoes, ResumesTo DEF Idle
  <1>7. CASE TagStep(p)
    BY <1>7, TagStepGoes, ResumesTo
  <1>8. CASE SetDeleted(p) \/ InsertRef(p) \/ InsertKey(p) \/ InsertTime(p) \/ Insert(p)
    BY <1>8, SetDeletedGoes, InsertRefGoes, InsertKeyGoes, InsertTimeGoes, InsertGoes DEF Idle
  <1>9. CASE SearchAuthor(p) \/ SearchKind(p) \/ SetRequested(p) \/ CheckAuthor(p)
    BY <1>9, SearchAuthorGoes, SearchKindGoes, SetRequestedGoes, CheckAuthorGoes, ResumesTo
  <1>10. CASE Remove(p) \/ RemoveStatus(p) \/ RemoveKey(p) \/ RemoveTime(p) \/ RemoveEvent(p)
    BY <1>10, RemoveGoes, RemoveStatusGoes, RemoveKeysGoes, RemoveEventGoes, ResumesTo
  <1> QED
    BY <1>1, <1>2, <1>3, <1>4, <1>5, <1>6, <1>7, <1>8, <1>9, <1>10 DEF Step

\* An event that is looked for has an author among the hashes.
LEMMA GoalHash ==
    ASSUME IndexInv, NEW p \in Procs, proc[p].pc \in Searching \cup {"slot_author"}
    PROVE  Goal(proc[p]).pubkey \in Hashes /\ proc[p].event \in Events
  <1> DEFINE r == proc[p]
  <1>1. r.event \in Events /\ AtAddress(r)
    BY Tracing DEF Traced, Searching, Removing
  <1> QED
    BY <1>1, EventHashes DEF AtAddress, Goal, Address, TagAt

\* What the registers say of numbers stays true.
LEMMA StepNumbers ==
    ASSUME IndexInv, TurnOK(Running), NumberKnown(Running), NEW p \in Procs, Step(p),
           Running = proc[p], Running' = proc'[p]
    PROVE  NumberKnown(Running)'
  <1> DEFINE r == proc[p]
             x == proc'[p]
             Has(h, n) == hash_to_n'[h] # None /\ hash_to_n'[h].n = n
  <1>1. Stable
    BY StepStable
  <1>2. \A h \in Hashes : \A n : Known(h, n) => Has(h, n)
    BY <1>1, StillKnown
  <1>3. x.pc \in {"claim", "set_have"} => Has(x.event.pubkey, x.ref)
    <2>1. CASE GetAuthor(p)
      BY <2>1, GetAuthorGoes
    <2>2. CASE Claim(p)
      <3>1. r.pc = "claim" /\ r.event.pubkey \in Hashes
        BY <2>2, ClaimGoes, Tracing, EventHashes DEF Removing
      <3>2. Has(r.event.pubkey, r.ref)
        BY <1>2, <3>1 DEF NumberKnown
      <3>3. x = Idle \/ (x.event = r.event /\ x.ref = r.ref)
        BY <2>2, ClaimGoes
      <3> QED
        BY <3>2, <3>3 DEF Idle
    <2>3. CASE ~GetAuthor(p) /\ ~Claim(p)
      BY <2>3, StepLeaves
    <2> QED
      BY <2>1, <2>2, <2>3
  <1>4. x.pc \in {"search_tag", "search_author"} => Has(Goal(x).pubkey, x.ref)
    <2>1. CASE SlotAuthor(p)
      <3>1. Goal(x) = Goal(r)
        BY <2>1, SlotAuthorGoes, SameGoal DEF Same
      <3> QED
        BY <2>1, <3>1, SlotAuthorGoes
    <2>2. CASE SetHave(p)
      <3>1. r.pc = "set_have" /\ r.event \in Events /\ r.event.pubkey \in Hashes
        BY <2>2, SetHaveGoes, Tracing, EventHashes DEF Removing
      <3>2. Has(r.event.pubkey, r.ref)
        BY <1>2, <3>1 DEF NumberKnown
      <3>3. x.event = r.event /\ x.ref = r.ref
        BY <2>2, SetHaveGoes
      <3>4. x.pc \in {"search_tag", "search_author"} => IsReplaceable(x.event.kind)
        BY <2>2, <3>3, SetHaveGoes
      <3>5. x.pc \in {"search_tag", "search_author"} => Goal(x).pubkey = r.event.pubkey
        BY <3>1, <3>3, <3>4, OneKind DEF Goal, Address
      <3> QED
        BY <3>2, <3>3, <3>5
    <2>3. CASE SearchTag(p)
      <3>1. r.pc = "search_tag" /\ Goal(r).pubkey \in Hashes
        BY <2>3, SearchTagGoes, GoalHash DEF Searching
      <3>2. Has(Goal(r).pubkey, r.ref)
        BY <1>2, <3>1 DEF NumberKnown
      <3>3. CASE Resumes(x, r)
        BY <3>3, ResumesTo
      <3>4. CASE Same(x, r) /\ x.ref = r.ref
        <4>1. Goal(x) = Goal(r)
          BY <3>4, SameGoal DEF Same
        <4> QED
          BY <3>2, <3>4, <4>1
      <3> QED
        BY <2>3, <3>3, <3>4, SearchTagGoes
    <2>4. CASE ~SlotAuthor(p) /\ ~SetHave(p) /\ ~SearchTag(p)
      BY <2>4, StepLeaves
    <2> QED
      BY <2>1, <2>2, <2>3, <2>4
  <1>5. HasNumber(x) => Has(x.event.pubkey, x.author)
    <2>1. CASE Claim(p)
      <3>1. HasNumber(x) => x.author = x.ref /\ x.pc \in {"set_have", "set_deleted"}
        BY <2>1, ClaimGoes DEF HasNumber, Idle
      <3>2. r.pc = "claim" /\ r.event.pubkey \in Hashes
        BY <2>1, ClaimGoes, Tracing, EventHashes DEF Removing
      <3>3. Has(r.event.pubkey, r.ref)
        BY <1>2, <3>2 DEF NumberKnown
      <3>4. HasNumber(x) => x.event = r.event /\ x.author = r.ref
        BY <2>1, ClaimGoes DEF HasNumber, Idle
      <3> QED
        BY <3>3, <3>4
    <2>2. CASE ~Claim(p) /\ HasNumber(x)
      <3>1. HasNumber(r) /\ x.event = r.event /\ x.author = r.author
        BY <2>2, StepKeeps DEF Keeps
      <3>2. r.event.pubkey \in Hashes
        BY <3>1, Numbered DEF IndexInv
      <3> QED
        BY <1>2, <3>1, <3>2 DEF NumberKnown
    <2> QED
      BY <2>1, <2>2
  <1>6. Running' = x
    OBVIOUS
  <1> HIDE DEF x
  <1>7. /\ Running'.pc \in {"claim", "set_have"} => Known(Running.event.pubkey, Running.ref)'
        /\ Running'.pc \in {"search_tag", "search_author"} =>
              Known(Goal(Running).pubkey, Running.ref)'
        /\ HasNumber(Running)' => Known(Running.event.pubkey, Running.author)'
    BY <1>3, <1>4, <1>5, <1>6 DEF Known, Goal, HasNumber
  <1> QED
    BY <1>7 DEF NumberKnown

LEMMA NumbersInvariant == SeqSpec => []NumberKnown(Running)
  <1>1. SeqInit => NumberKnown(Running)
    <2> SUFFICES ASSUME SeqInit PROVE NumberKnown(Running)
      OBVIOUS
    <2>1. Running = Idle
      BY DEF SeqInit, Init, Busy, Running
    <2> QED
      BY <2>1 DEF NumberKnown, HasNumber, Idle
  <1>2. TurnInv /\ NumberKnown(Running) /\ [SeqNext]_<<vars, view>> => NumberKnown(Running)'
    <2> SUFFICES ASSUME TurnInv, NumberKnown(Running), [SeqNext]_<<vars, view>>
                 PROVE  NumberKnown(Running)'
      OBVIOUS
    <2>1. CASE SeqNext
      <3>1. ASSUME NEW e \in Events, StartsAdd(e) PROVE NumberKnown(Running)'
        BY <3>1 DEF StartsAdd, NumberKnown, HasNumber
      <3>2. ASSUME NEW e \in Events, NEW n \in Ns, StartsExpire(e, n)
            PROVE  NumberKnown(Running)'
        BY <3>2 DEF StartsExpire, NumberKnown, HasNumber
      <3> QED
        BY <2>1, <3>1, <3>2, TurnStep, StepNumbers DEF TurnInv, IndexInv
    <2>2. CASE UNCHANGED vars
      <3>1. UNCHANGED <<hash_to_n, proc>> /\ Running' = Running
        BY <2>2 DEF vars, db, Busy, Running
      <3> QED
        BY <3>1 DEF NumberKnown, Known, HasNumber, Goal
    <2> QED
      BY <2>1, <2>2
  <1> QED
    BY <1>1, <1>2, TurnInvariant, PTL DEF SeqSpec
-------------------------------------------------------------------------------
(* One version.                                                              *)

Single == \A m, n \in Stored : SameSlot(n_to_event[m], n_to_event[n]) => m = n

\* A version of the event being added is stored under n.
IsVersionNow(r, n) == n \in Stored /\ SameSlot(r.event, n_to_event[n])

\* The tags are those of a deletion request, and no d is looked up for an event that
\* is replaced whatever its d.
Routed(r) ==
    /\ r.pc \in {"tags", "set_requested", "check_author"} => r.event.kind = EVENT_DELETION
    /\ r.pc \in {"slot_author", "search_tag"} => ~IsReplaceable(r.event.kind)

\* What is left of a search still has the version that is stored.
InReach(r) ==
    r.pc \in {"search_kind", "scan"} \/ (r.pc = "search_author" /\ Goal(r).d # None) =>
        \A n \in Ns : IsVersionNow(r, n) => TimeOf(n_to_event[n], n) \in r.cand

\* What a search has found is stored, and of the kind it is for.
FoundStored(r) ==
    /\ r.pc \in {"search_kind", "scan"} => \A t \in r.cand : t[2] \in Stored
    /\ r.pc = "scan" => \A t \in r.cand : n_to_event[t[2]].kind = Goal(r).kind

\* The version that is being removed is the only one, and then there is none.
Replaces(r) ==
    /\ r.pc \in Removing => \A n \in Ns : IsVersionNow(r, n) => n = r.victim
    /\ r.pc = "insert" => \A n \in Ns : ~IsVersionNow(r, n)

VersionsOK(r) ==
    /\ Single /\ Routed(r)
    /\ r.event # None /\ r.event.kind # EVENT_DELETION =>
           InReach(r) /\ FoundStored(r) /\ Replaces(r)

\* Two events of one address have the same slot as any third.
LEMMA SlotAlike ==
    /\ \A e, f : SameSlot(e, f) => SameSlot(f, e)
    /\ \A e, f, g : SameSlot(e, f) /\ SameSlot(e, g) => SameSlot(f, g)
    /\ \A e \in Events : \A f : SameSlot(e, f) => e.kind # EVENT_DELETION
  <1>1. \A e \in Events : \A f : SameSlot(e, f) => e.kind # EVENT_DELETION
    BY OneKind DEF SameSlot
  <1> QED
    BY <1>1 DEF SameSlot

\* While the stored events stay, so does what the registers say of versions.
LEMMA StillVersions ==
    ASSUME UNCHANGED n_to_event, NEW x, Running' = x, VersionsOK(x)
    PROVE  VersionsOK(Running)'
  BY DEF VersionsOK, Single, Stored, Routed, InReach, FoundStored, Replaces, IsVersionNow, Goal

\* While no key is being put or deleted, all keys of a stored event are there.
LEMMA StoredKeys ==
    ASSUME IndexInv, TurnOK(Running), Running.pc \notin Aside, NEW n \in Stored,
           NEW c \in Range(Conditions(n_to_event[n]))
    PROVE  CompactNow(c) # None /\ TimeOf(n_to_event[n], n) \in Hits(CompactNow(c))
  <1> DEFINE t == TimeOf(n_to_event[n], n)
             key == CompactNow(c)
  <1>1. <<key, t>> \in conditions
    BY DEF TurnOK, KeysExact, Entering, Leaving, Aside
  <1>2. key # None
    <2>1. <<key, t>>[1] # None
      BY <1>1, KeyIsSome
    <2> QED
      BY <2>1
  <1>3. <<key, t>>[2] = t
    OBVIOUS
  <1> HIDE DEF key, t
  <1>4. t \in Hits(key)
    BY <1>1, <1>3 DEF Hits
  <1> QED
    BY <1>2, <1>4 DEF key, t

\* A version of the event that is being added meets all that is searched for.
LEMMA VersionMeets ==
    ASSUME IndexInv, TurnOK(Running), Running.pc \notin Aside, Running.event \in Events,
           NEW n, IsVersionNow(Running, n)
    PROVE  LET goal == Goal(Running)
               t == TimeOf(n_to_event[n], n)
           IN  /\ t \in Hits(CompactNow(Author(goal.pubkey))) /\ t \in Hits(Kind(goal.kind))
               /\ goal.d # None =>
                     /\ FirstDValue(n_to_event[n]) = goal.d
                     /\ CompactNow(<<"d", goal.d>>) # None
                     /\ t \in Hits(CompactNow(<<"d", goal.d>>))
               /\ goal.d = None => IsReplaceable(Running.event.kind)
  <1> DEFINE e == Running.event
             f == n_to_event[n]
             goal == Goal(Running)
  <1>1. n \in Stored /\ f \in Events /\ SameSlot(e, f)
    BY StoredIds DEF IsVersionNow
  <1>2. e.kind # EVENT_DELETION
    BY <1>1, SlotAlike
  <1>3. /\ goal.pubkey = f.pubkey /\ goal.kind = f.kind
        /\ goal.d = IF IsAddressable(e.kind) THEN FirstDValue(e) ELSE None
    BY <1>1, <1>2 DEF Goal, Address, SameSlot
  <1>4. /\ goal.d # None => FirstDValue(f) = goal.d
        /\ goal.d = None => IsReplaceable(e.kind)
    BY <1>1, <1>3, OneKind DEF SameSlot
  <1>5. /\ Author(goal.pubkey) \in Range(Conditions(f)) /\ Kind(goal.kind) \in Range(Conditions(f))
        /\ goal.d # None => <<"d", goal.d>> \in Range(Conditions(f))
    BY <1>1, <1>3, <1>4, IndexedAssumption
  <1>6. CompactNow(Kind(goal.kind)) = Kind(goal.kind)
    BY DEF CompactNow, Compact, HasHash, Kind, SOH
  <1> HIDE DEF goal, f
  <1> QED
    BY <1>1, <1>4, <1>5, <1>6, StoredKeys DEF f, goal

\* The searches that come before the scan keep the version.
LEMMA SearchVersions ==
    ASSUME IndexInv, TurnOK(Running), NumberKnown(Running), VersionsOK(Running),
           NEW p \in Procs, SearchTag(p) \/ SearchAuthor(p) \/ SearchKind(p), Running = proc[p]
    PROVE  VersionsOK(proc'[p])
  <1> DEFINE r == proc[p]
             x == proc'[p]
             goal == Goal(r)
             T(n) == TimeOf(n_to_event[n], n)
  <1>1. /\ r.event \in Events /\ r.event # None /\ goal.pubkey \in Hashes /\ r.pc \notin Aside
        /\ r.pc \in {"search_tag", "search_author", "search_kind"}
    <2>1. r.pc \in {"search_tag", "search_author", "search_kind"}
      BY SearchTagGoes, SearchAuthorGoes, SearchKindGoes
    <2> QED
      BY <2>1, GoalHash, EventHashes DEF Searching, Aside
  <1>2. ASSUME NEW n, IsVersionNow(r, n)
        PROVE  /\ T(n) \in Hits(CompactNow(Author(goal.pubkey))) /\ T(n) \in Hits(Kind(goal.kind))
               /\ goal.d # None => /\ CompactNow(<<"d", goal.d>>) # None
                                   /\ T(n) \in Hits(CompactNow(<<"d", goal.d>>))
               /\ goal.d = None => IsReplaceable(r.event.kind)
    BY <1>1, <1>2, VersionMeets
  <1>3. ASSUME Same(x, r) PROVE Goal(x) = goal /\ \A n : IsVersionNow(x, n) <=> IsVersionNow(r, n)
    BY <1>3, SameGoal DEF Same, IsVersionNow
  <1> HIDE DEF goal, T
  <1>4. CASE SearchTag(p)
    <2>1. ~IsReplaceable(r.event.kind)
      BY <1>4, SearchTagGoes DEF VersionsOK, Routed
    <2>2. CASE CompactNow(<<"d", goal.d>>) = None /\ Resumes(x, r)
      <3>1. /\ x.event = r.event
            /\ r.event.kind # EVENT_DELETION => x.pc = "insert"
            /\ r.event.kind = EVENT_DELETION => x.pc = "tags"
        BY <1>1, <2>2 DEF Resumes
      <3>2. \A n \in Ns : ~IsVersionNow(x, n)
        BY <1>2, <2>1, <2>2, <3>1 DEF IsVersionNow
      <3> QED
        BY <3>1, <3>2 DEF VersionsOK, Routed, InReach, FoundStored, Replaces, Removing
    <2>3. CASE /\ x.pc = "search_author" /\ Same(x, r)
               /\ x.cand = Hits(CompactNow(<<"d", goal.d>>))
      <3>1. ASSUME Goal(x).d # None, NEW n \in Ns, IsVersionNow(x, n) PROVE T(n) \in x.cand
        BY <1>2, <1>3, <2>3, <3>1
      <3> QED
        BY <2>3, <3>1 DEF T, VersionsOK, Routed, InReach, FoundStored, Replaces, Removing
    <2> QED
      BY <1>4, <2>2, <2>3, SearchTagGoes DEF goal
  <1>5. CASE SearchAuthor(p)
    <2> DEFINE hits == Hits(CompactNow(Author(goal.pubkey)))
    <2>1. Compact(Author(goal.pubkey), r.ref) = CompactNow(Author(goal.pubkey))
      <3>1. Known(goal.pubkey, r.ref)
        BY <1>5, SearchAuthorGoes DEF NumberKnown, goal
      <3>2. HasHash(Author(goal.pubkey)) /\ Author(goal.pubkey)[2].hash = goal.pubkey
        BY DEF HasHash, Author, Hex32
      <3> QED
        BY <3>1, <3>2 DEF CompactNow, Known
    <2>2. /\ x.pc = "search_kind" /\ Same(x, r) /\ r.pc = "search_author"
          /\ x.cand = IF goal.d = None THEN hits ELSE r.cand \cap hits
      BY <1>5, <2>1, SearchAuthorGoes DEF goal
    <2>3. ASSUME NEW t \in x.cand PROVE t[2] \in Stored
      <3> DEFINE key == CompactNow(Author(goal.pubkey))
      <3>1. <<key, t>> \in conditions
        BY <2>2, <2>3 DEF Hits
      <3> HIDE DEF key
      <3>2. PICK n \in Stored : \E c \in Range(Conditions(n_to_event[n])) :
                <<key, t>> = <<CompactNow(c), TimeOf(n_to_event[n], n)>>
        BY <3>1 DEF TurnOK, KeysExact
      <3>3. t = TimeOf(n_to_event[n], n)
        BY <3>2
      <3> QED
        BY <3>3 DEF TimeOf
    <2>4. ASSUME r.event.kind # EVENT_DELETION, NEW n \in Ns, IsVersionNow(x, n)
          PROVE  T(n) \in x.cand
      <3>1. IsVersionNow(r, n) /\ T(n) \in hits
        BY <1>2, <1>3, <2>2, <2>4
      <3>2. goal.d # None => T(n) \in r.cand
        BY <1>1, <2>2, <2>4, <3>1 DEF VersionsOK, InReach, goal, T
      <3> QED
        BY <2>2, <3>1, <3>2
    <2>5. x.event = r.event
      BY <2>2 DEF Same
    <2> HIDE DEF hits
    <2> QED
      BY <2>2, <2>3, <2>4, <2>5 DEF T, VersionsOK, Routed, InReach, FoundStored, Replaces, Removing
  <1>6. CASE SearchKind(p)
    <2>1. /\ x.pc = "scan" /\ Same(x, r) /\ r.pc = "search_kind"
          /\ x.cand = r.cand \cap Hits(Kind(goal.kind)) /\ x.event = r.event
      BY <1>6, SearchKindGoes DEF goal, Same
    <2>2. Goal(x) = goal /\ \A n : IsVersionNow(x, n) <=> IsVersionNow(r, n)
      BY <1>3, <2>1
    <2>3. ASSUME r.event.kind # EVENT_DELETION, NEW t \in x.cand
          PROVE  t[2] \in Stored /\ n_to_event[t[2]].kind = goal.kind
      <3> DEFINE c == Kind(goal.kind)
                 f == n_to_event[t[2]]
      <3>1. t[2] \in Stored
        BY <1>1, <2>1, <2>3 DEF VersionsOK, FoundStored
      <3>2. CompactNow(c) = c /\ IsPlain(c) /\ c[1] = "kind" /\ c[2].kind = goal.kind
        BY DEF CompactNow, Compact, IsPlain, IsCondition, HasHash, Kind, NUL, SOH
      <3>3. <<c, t>> \in conditions
        BY <2>1, <2>3 DEF Hits
      <3> HIDE DEF c
      <3>4. c \in Range(Conditions(f)) /\ f \in Events
        BY <3>1, <3>2, <3>3, FoundMeets, StoredIds DEF Stored
      <3>5. c = Kind(f.kind)
        BY <3>2, <3>4, IndexedAssumption
      <3>6. Kind(f.kind)[2].kind = f.kind
        BY DEF Kind
      <3> QED
        BY <3>1, <3>2, <3>5, <3>6
    <2>4. ASSUME r.event.kind # EVENT_DELETION, NEW n \in Ns, IsVersionNow(x, n)
          PROVE  T(n) \in x.cand
      <3>1. IsVersionNow(r, n) /\ T(n) \in Hits(Kind(goal.kind))
        BY <1>2, <2>2, <2>4
      <3>2. T(n) \in r.cand
        BY <1>1, <2>1, <2>4, <3>1 DEF VersionsOK, InReach, T
      <3> QED
        BY <2>1, <3>1, <3>2
    <2> QED
      BY <2>1, <2>2, <2>3, <2>4 DEF T, VersionsOK, Routed, InReach, FoundStored, Replaces, Removing
  <1> QED
    BY <1>4, <1>5, <1>6

\* The scan ends with the version found, or with none in the store.
LEMMA ScanVersions ==
    ASSUME IndexInv, TurnOK(Running), VersionsOK(Running), NEW p \in Procs, Scan(p),
           Running = proc[p]
    PROVE  VersionsOK(proc'[p])
  <1> DEFINE r == proc[p]
             x == proc'[p]
             goal == Goal(r)
             T(n) == TimeOf(n_to_event[n], n)
  <1>1. /\ r.event \in Events /\ r.event # None /\ r.pc = "scan" /\ r.pc \notin Aside
        /\ Single
    BY ScanGoes, GoalHash, EventHashes DEF Searching, Aside, VersionsOK
  <1>2. ASSUME NEW n, IsVersionNow(r, n)
        PROVE  goal.d # None => FirstDValue(n_to_event[n]) = goal.d
    BY <1>1, <1>2, VersionMeets
  <1>3. CASE x = Idle
    BY <1>1, <1>3 DEF VersionsOK, Routed, Idle
  <1>4. CASE r.event.kind = EVENT_DELETION
    <2>1. (Same(x, r) /\ x.pc \in {"scan", "remove"}) \/ Resumes(x, r) \/ x = Idle
      BY ScanGoes
    <2>2. CASE Same(x, r) /\ x.pc \in {"scan", "remove"}
      BY <1>1, <1>4, <2>2 DEF VersionsOK, Routed, Same
    <2>3. CASE Resumes(x, r)
      BY <1>1, <1>4, <2>3 DEF VersionsOK, Routed, Resumes
    <2> QED
      BY <1>3, <2>1, <2>2, <2>3
  <1>5. CASE r.event.kind # EVENT_DELETION /\ r.cand = {} /\ Resumes(x, r)
    <2>1. x.event = r.event /\ x.pc = "insert"
      BY <1>1, <1>5 DEF Resumes
    <2>2. \A n \in Ns : ~IsVersionNow(r, n)
      BY <1>1, <1>5 DEF VersionsOK, InReach
    <2>3. \A n \in Ns : ~IsVersionNow(x, n)
      BY <2>1, <2>2 DEF IsVersionNow
    <2> QED
      BY <1>1, <2>1, <2>3 DEF VersionsOK, Routed, InReach, FoundStored, Replaces, Removing
  <1>6. ASSUME r.event.kind # EVENT_DELETION, NEW t \in r.cand, Same(x, r),
               \/ /\ ~IsVersion(n_to_event[t[2]], goal.d)
                  /\ x.pc = "scan" /\ x.cand = r.cand \ {t}
               \/ /\ IsVersion(n_to_event[t[2]], goal.d)
                  /\ x.pc = "remove" /\ x.victim = t[2]
        PROVE  VersionsOK(x)
    <2> DEFINE f == n_to_event[t[2]]
    <2>1. /\ x.event = r.event /\ Goal(x) = goal
          /\ \A n : IsVersionNow(x, n) <=> IsVersionNow(r, n)
      BY <1>6, SameGoal DEF Same, IsVersionNow
    <2>2. /\ \A n \in Ns : IsVersionNow(r, n) => T(n) \in r.cand
          /\ \A s \in r.cand : s[2] \in Stored /\ n_to_event[s[2]].kind = goal.kind
      BY <1>1, <1>6 DEF VersionsOK, InReach, FoundStored
    <2>3. CASE ~IsVersion(f, goal.d) /\ x.pc = "scan" /\ x.cand = r.cand \ {t}
      <3>1. ASSUME NEW n \in Ns, IsVersionNow(x, n) PROVE T(n) \in x.cand
        <4>1. IsVersionNow(r, n) /\ T(n) \in r.cand /\ n_to_event[n] # None
          BY <2>1, <2>2, <3>1 DEF IsVersionNow, Stored
        <4>2. T(n)[2] = n
          BY DEF TimeOf
        <4>3. T(n) # t
          BY <1>2, <2>3, <4>1, <4>2 DEF IsVersion
        <4> QED
          BY <2>3, <4>1, <4>3
      <3> QED
        BY <1>1, <1>6, <2>1, <2>2, <2>3, <3>1
           DEF VersionsOK, Routed, InReach, FoundStored, Replaces, Removing
    <2>4. CASE IsVersion(f, goal.d) /\ x.pc = "remove" /\ x.victim = t[2]
      <3>1. t[2] \in Stored /\ f.kind = goal.kind /\ f.pubkey = goal.pubkey
        <4>1. t[2] \in Stored /\ f.kind = goal.kind /\ t[2] \in Ns
          BY <2>2 DEF Stored
        <4>2. PICK e \in Events : owner[t[2]] = e.id /\ e.pubkey = goal.pubkey
          BY <1>1, Tracing DEF Traced, ByAuthor, Owns
        <4>3. f \in Events /\ owner[t[2]] = f.id
          BY <4>1, StoredIds DEF IndexInv, Inv, NumbersOwned, Stored
        <4> QED
          BY <4>1, <4>2, <4>3, SameEvent
      <3>2. /\ goal.kind = r.event.kind /\ goal.pubkey = r.event.pubkey
            /\ goal.d = IF IsAddressable(r.event.kind) THEN FirstDValue(r.event) ELSE None
        BY <1>6 DEF Goal, Address
      <3>3. goal.d # None => FirstDValue(f) = goal.d
        BY <2>4 DEF IsVersion
      <3>4. ASSUME NEW n \in Ns, IsVersionNow(x, n) PROVE n = t[2]
        <4>1. n \in Stored /\ SameSlot(r.event, n_to_event[n])
          BY <2>1, <3>4 DEF IsVersionNow
        <4>2. SameSlot(r.event, f)
          BY <3>1, <3>2, <3>3, <4>1 DEF SameSlot
        <4>3. SameSlot(n_to_event[n], f)
          BY <4>1, <4>2, SlotAlike
        <4> QED
          BY <1>1, <3>1, <4>1, <4>3 DEF Single
      <3> QED
        BY <1>1, <2>1, <2>4, <3>4 DEF VersionsOK, Routed, InReach, FoundStored, Replaces
    <2> QED
      BY <1>6, <2>3, <2>4
  <1> QED
    BY <1>3, <1>4, <1>5, <1>6, ScanGoes

\* A removal keeps what is known of its victim, and leaves no version behind.
LEMMA RemovalVersions ==
    ASSUME IndexInv, VersionsOK(Running), NEW p \in Procs,
           Remove(p) \/ RemoveStatus(p) \/ RemoveKey(p) \/ RemoveTime(p), Running = proc[p]
    PROVE  VersionsOK(proc'[p])
  <1> DEFINE r == proc[p]
             x == proc'[p]
  <1>1. Single /\ r.pc \in Removing
    BY RemoveGoes, RemoveStatusGoes, RemoveKeysGoes DEF VersionsOK, Removing
  <1>2. CASE Same(x, r) /\ x.victim = r.victim /\ x.pc \in Removing
    BY <1>1, <1>2 DEF VersionsOK, Routed, InReach, FoundStored, Replaces, Removing, Same,
       IsVersionNow
  <1>3. CASE Resumes(x, r) /\ n_to_event[r.victim] = None
    <2>1. CASE r.event # None /\ r.event.kind # EVENT_DELETION
      <3>1. x.event = r.event /\ x.pc = "insert"
        BY <1>3, <2>1 DEF Resumes
      <3>2. ASSUME NEW n \in Ns, IsVersionNow(x, n) PROVE FALSE
        <4>1. IsVersionNow(r, n) /\ n \in Stored
          BY <3>1, <3>2 DEF IsVersionNow
        <4>2. n = r.victim
          BY <1>1, <2>1, <4>1 DEF VersionsOK, Replaces
        <4> QED
          BY <1>3, <4>1, <4>2 DEF Stored
      <3> QED
        BY <1>1, <3>1, <3>2 DEF VersionsOK, Routed, InReach, FoundStored, Replaces, Removing
    <2>2. CASE r.event = None \/ r.event.kind = EVENT_DELETION
      <3>1. \/ x.pc = "idle" /\ x.event = None
            \/ x.pc = "tags" /\ x.event.kind = EVENT_DELETION
        BY <1>3, <2>2 DEF Resumes
      <3> QED
        BY <1>1, <3>1 DEF VersionsOK, Routed
    <2> QED
      BY <2>1, <2>2
  <1> QED
    BY <1>2, <1>3, RemoveGoes, RemoveStatusGoes, RemoveKeysGoes DEF Removing

\* The steps that have nothing to do with versions.
LEMMA OtherVersions ==
    ASSUME IndexInv, TurnOK(Running), VersionsOK(Running), NEW p \in Procs,
           \/ GetAuthor(p) \/ Claim(p) \/ SetDeleted(p) \/ SetHave(p) \/ SlotAuthor(p)
           \/ TagStep(p) \/ SetRequested(p) \/ CheckAuthor(p)
           \/ InsertRef(p) \/ InsertKey(p) \/ InsertTime(p),
           Running = proc[p], Running' = proc'[p]
    PROVE  VersionsOK(proc'[p]) /\ UNCHANGED n_to_event
  <1> DEFINE r == proc[p]
             x == proc'[p]
             Apart == {"idle", "author", "claim", "set_deleted", "set_have",
                       "insert_keys", "insert_key"}
  <1>1. Single
    BY DEF VersionsOK
  <1>2. x.pc \in Apart => VersionsOK(x)
    BY <1>1 DEF VersionsOK, Routed, InReach, FoundStored, Replaces, Removing
  <1>3. x.event # None /\ x.event.kind = EVENT_DELETION /\ x.event \in Events => VersionsOK(x)
    BY <1>1, OneKind DEF VersionsOK, Routed
  <1> HIDE DEF Apart
  <1>4. CASE GetAuthor(p) \/ InsertRef(p) \/ InsertKey(p)
    BY <1>2, <1>4, GetAuthorGoes, InsertRefGoes, InsertKeyGoes DEF Apart
  <1>5. CASE Claim(p) \/ SetDeleted(p) \/ InsertTime(p)
    BY <1>2, <1>5, ClaimGoes, SetDeletedGoes, InsertTimeGoes DEF Apart, Idle, db
  <1>6. CASE SetHave(p)
    <2>1. UNCHANGED n_to_event /\ x.event = r.event /\ r.event \in Events /\ r.event # None
      <3>1. UNCHANGED n_to_event /\ x.event = r.event /\ r.pc = "set_have"
        BY <1>6, SetHaveGoes
      <3> QED
        BY <3>1, Tracing DEF Removing
    <2>2. CASE IsReplaceable(r.event.kind) /\ x.pc = "search_author"
      <3>1. Goal(x).d = None
        BY <2>1, <2>2, OneKind DEF Goal, Address
      <3> QED
        BY <1>1, <2>1, <2>2, <3>1
           DEF VersionsOK, Routed, InReach, FoundStored, Replaces, Removing
    <2>3. CASE ~IsReplaceable(r.event.kind) /\ x.pc = "slot_author"
      BY <1>1, <2>1, <2>3 DEF VersionsOK, Routed, InReach, FoundStored, Replaces, Removing
    <2>4. CASE r.event.kind = EVENT_DELETION
      BY <1>3, <2>1, <2>4
    <2>5. CASE /\ ~IsReplaceable(r.event.kind) /\ x.pc = "insert"
               /\ IsAddressable(r.event.kind) => FirstDValue(r.event) = None
      <3>1. \A n : ~IsVersionNow(x, n)
        BY <2>1, <2>5 DEF IsVersionNow, SameSlot
      <3> QED
        BY <1>1, <2>1, <2>5, <3>1
           DEF VersionsOK, Routed, InReach, FoundStored, Replaces, Removing
    <2> QED
      BY <1>6, <2>1, <2>2, <2>3, <2>4, <2>5, SetHaveGoes
  <1>7. CASE SlotAuthor(p)
    <2>1. /\ UNCHANGED n_to_event /\ x.event = r.event /\ r.pc = "slot_author"
          /\ x.pc \in {"slot_author", "search_tag"}
      BY <1>7, SlotAuthorGoes DEF Same
    <2>2. ~IsReplaceable(x.event.kind)
      BY <2>1 DEF VersionsOK, Routed
    <2> QED
      BY <1>1, <2>1, <2>2 DEF VersionsOK, Routed, InReach, FoundStored, Replaces, Removing
  <1>8. CASE TagStep(p) \/ SetRequested(p) \/ CheckAuthor(p)
    <2>1. /\ r.pc \in {"tags", "set_requested", "check_author"} /\ UNCHANGED n_to_event
          /\ Same(x, r) \/ Resumes(x, r) \/ x.event = r.event
      BY <1>8, TagStepGoes, SetRequestedGoes, CheckAuthorGoes DEF db
    <2>2. r.event.kind = EVENT_DELETION /\ r.event \in Events /\ r.event # None
      BY <2>1, Tracing DEF VersionsOK, Routed, Removing
    <2>3. x.event = r.event
      BY <2>1, <2>2 DEF Same, Resumes
    <2> QED
      BY <1>3, <2>1, <2>2, <2>3
  <1> QED
    BY <1>4, <1>5, <1>6, <1>7, <1>8

\* The event that is removed leaves no version of the one that takes its place.
LEMMA RemoveEventVersions ==
    ASSUME IndexInv, VersionsOK(Running), NEW p \in Procs, RemoveEvent(p),
           Running = proc[p], Running' = proc'[p]
    PROVE  VersionsOK(Running)'
  <1> DEFINE r == proc[p]
             x == proc'[p]
  <1>1. /\ r.pc = "remove_event" /\ Resumes(x, r) /\ r.victim \in Ns
        /\ n_to_event'[r.victim] = None
        /\ \A n \in Ns : n # r.victim => n_to_event'[n] = n_to_event[n]
    BY RemoveEventGoes
  <1>2. Stored' = Stored \ {r.victim}
    BY <1>1 DEF Stored
  <1>3. \A n \in Stored' : n \in Stored /\ n # r.victim /\ n_to_event'[n] = n_to_event[n]
    BY <1>1, <1>2 DEF Stored
  <1>4. Single'
    BY <1>3 DEF Single, VersionsOK
  <1>5. /\ x.pc \in {"idle", "tags", "insert"}
        /\ x.pc = "tags" => x.event.kind = EVENT_DELETION
    BY <1>1 DEF Resumes
  <1>6. ASSUME x.event # None, x.event.kind # EVENT_DELETION, NEW n \in Stored',
               SameSlot(x.event, n_to_event'[n])
        PROVE  FALSE
    <2>1. x.event = r.event /\ r.event # None
      BY <1>1, <1>6 DEF Resumes
    <2>2. IsVersionNow(r, n) /\ n \in Ns /\ n # r.victim
      BY <1>3, <1>6, <2>1 DEF IsVersionNow, Stored
    <2> QED
      BY <1>1, <1>6, <2>1, <2>2 DEF VersionsOK, Replaces, Removing
  <1>7. Running' = x
    OBVIOUS
  <1> HIDE DEF x
  <1>8. Routed(Running)'
    BY <1>5, <1>7 DEF Routed
  <1>9. ASSUME Running'.event # None, Running'.event.kind # EVENT_DELETION
        PROVE  (InReach(Running) /\ FoundStored(Running) /\ Replaces(Running))'
    <2>1. \A n \in Ns : ~IsVersionNow(Running, n)'
      BY <1>6, <1>7, <1>9 DEF IsVersionNow
    <2> QED
      BY <1>5, <1>7, <2>1 DEF InReach, FoundStored, Replaces, Removing
  <1> QED
    BY <1>4, <1>8, <1>9 DEF VersionsOK

\* The event that is stored is the only version.
LEMMA InsertVersions ==
    ASSUME IndexInv, VersionsOK(Running), NEW p \in Procs, Insert(p),
           Running = proc[p], Running' = proc'[p]
    PROVE  VersionsOK(Running)'
  <1> DEFINE r == proc[p]
             x == proc'[p]
  <1>1. /\ r.pc = "insert" /\ x.pc = "insert_keys" /\ r.event \in Events /\ r.n \in Ns
        /\ n_to_event'[r.n] = r.event
        /\ \A n \in Ns : n # r.n => n_to_event'[n] = n_to_event[n]
    BY InsertGoes
  <1>2. ASSUME NEW n \in Stored', n # r.n
        PROVE  n \in Stored /\ n_to_event'[n] = n_to_event[n] /\ ~SameSlot(r.event, n_to_event'[n])
    <2>1. n \in Ns /\ n \in Stored /\ n_to_event'[n] = n_to_event[n]
      BY <1>1, <1>2 DEF Stored
    <2>2. SameSlot(r.event, n_to_event[n]) => r.event.kind # EVENT_DELETION
      BY <1>1, SlotAlike
    <2>3. ~SameSlot(r.event, n_to_event[n])
      BY <1>1, <2>1, <2>2, EventHashes DEF VersionsOK, Replaces, IsVersionNow
    <2> QED
      BY <2>1, <2>3
  <1>3. ASSUME NEW m \in Stored', NEW n \in Stored', SameSlot(n_to_event'[m], n_to_event'[n])
        PROVE  m = n
    <2>1. CASE m = r.n
      BY <1>1, <1>2, <1>3, <2>1
    <2>2. CASE n = r.n
      BY <1>1, <1>2, <1>3, <2>2, SlotAlike
    <2>3. CASE m # r.n /\ n # r.n
      BY <1>2, <1>3, <2>3 DEF VersionsOK, Single
    <2> QED
      BY <2>1, <2>2, <2>3
  <1>4. Single'
    BY <1>3 DEF Single
  <1> QED
    BY <1>1, <1>4 DEF VersionsOK, Routed, InReach, FoundStored, Replaces, Removing

LEMMA VersionsInvariant == SeqSpec => []VersionsOK(Running)
  <1>1. SeqInit => VersionsOK(Running)
    <2> SUFFICES ASSUME SeqInit PROVE VersionsOK(Running)
      OBVIOUS
    <2>1. Running = Idle /\ Stored = {}
      BY DEF SeqInit, Init, Busy, Running, Stored
    <2> QED
      BY <2>1 DEF VersionsOK, Single, Routed, Idle
  <1>2. TurnInv /\ NumberKnown(Running) /\ VersionsOK(Running) /\ [SeqNext]_<<vars, view>>
            => VersionsOK(Running)'
    <2> SUFFICES ASSUME TurnInv, NumberKnown(Running), VersionsOK(Running),
                        [SeqNext]_<<vars, view>>
                 PROVE  VersionsOK(Running)'
      OBVIOUS
    <2>1. ASSUME NEW p \in Procs, Step(p), Running = proc[p], Running' = proc'[p]
          PROVE  VersionsOK(Running)'
      <3>1. CASE SearchTag(p) \/ SearchAuthor(p) \/ SearchKind(p)
        <4>1. UNCHANGED n_to_event
          BY <3>1, SearchTagGoes, SearchAuthorGoes, SearchKindGoes DEF TurnInv, db
        <4> QED
          BY <2>1, <3>1, <4>1, SearchVersions, StillVersions DEF TurnInv
      <3>2. CASE Scan(p)
        <4>1. UNCHANGED n_to_event
          BY <3>2, ScanGoes DEF TurnInv, db
        <4> QED
          BY <2>1, <3>2, <4>1, ScanVersions, StillVersions DEF TurnInv
      <3>3. CASE Remove(p) \/ RemoveStatus(p) \/ RemoveKey(p) \/ RemoveTime(p)
        <4>1. UNCHANGED n_to_event
          BY <3>3, RemoveGoes, RemoveStatusGoes, RemoveKeysGoes DEF TurnInv, db
        <4> QED
          BY <2>1, <3>3, <4>1, RemovalVersions, StillVersions DEF TurnInv
      <3>4. CASE RemoveEvent(p) \/ Insert(p)
        BY <2>1, <3>4, RemoveEventVersions, InsertVersions DEF TurnInv
      <3>5. CASE \/ GetAuthor(p) \/ Claim(p) \/ SetDeleted(p) \/ SetHave(p) \/ SlotAuthor(p)
                 \/ TagStep(p) \/ SetRequested(p) \/ CheckAuthor(p)
                 \/ InsertRef(p) \/ InsertKey(p) \/ InsertTime(p)
        BY <2>1, <3>5, OtherVersions, StillVersions DEF TurnInv
      <3> QED
        BY <2>1, <3>1, <3>2, <3>3, <3>4, <3>5 DEF Step
    <2>2. ASSUME UNCHANGED n_to_event, NEW x, Running' = x,
                 x.pc = "author" \/ (x.pc = "remove" /\ x.event = None)
          PROVE  VersionsOK(Running)'
      <3>1. VersionsOK(x)
        BY <2>2 DEF VersionsOK, Routed, InReach, FoundStored, Replaces, Removing
      <3> QED
        BY <2>2, <3>1, StillVersions
    <2>3. CASE SeqNext
      <3>1. ASSUME NEW e \in Events, StartsAdd(e) PROVE VersionsOK(Running)'
        BY <2>2, <3>1 DEF StartsAdd, db
      <3>2. ASSUME NEW e \in Events, NEW n \in Ns, StartsExpire(e, n)
            PROVE  VersionsOK(Running)'
        BY <2>2, <3>2 DEF StartsExpire, db
      <3> QED
        BY <2>1, <2>3, <3>1, <3>2, TurnStep DEF TurnInv, IndexInv
    <2>4. CASE UNCHANGED vars
      <3>1. UNCHANGED n_to_event /\ Running' = Running
        BY <2>4 DEF vars, db, Busy, Running
      <3> QED
        BY <3>1, StillVersions
    <2> QED
      BY <2>3, <2>4
  <1> QED
    BY <1>1, <1>2, TurnInvariant, NumbersInvariant, PTL DEF SeqSpec

\* With one operation at a time, at most one version of a replaceable or addressable
\* event is stored: the search by author, kind and d finds the version that is there,
\* for every address and whatever else is stored, and add_event inserts only after it
\* has removed it.
THEOREM OneVersionStored == SeqSpec => []OneVersion
  <1>1. VersionsOK(Running) => OneVersion
    BY DEF VersionsOK, Single, OneVersion
  <1> QED
    BY <1>1, VersionsInvariant, PTL
-------------------------------------------------------------------------------
(* Deletion requests.                                                        *)

\* The numbers that add_event has returned are still those of the events.
AcceptedKnown == \A a \in accepted : Known(a[1].id, a[2])

\* An expired event is not added, and not stored unless it is being removed.
ExpiredGone(r) ==
    /\ r.event # None => r.event \notin expired
    /\ \A n \in Stored : n_to_event[n] \in expired => r.pc \in Removing /\ r.victim = n

TagNames(request, i, e) ==
    request.tags[i].name = "e" /\ request.tags[i].value = Hex32(e.id)

\* The tags that the request being added is done with.
Done(r) ==
    {i \in DOMAIN r.event.tags :
        \/ r.pc \in {"insert", "insert_keys", "insert_key"}
        \/ /\ r.pc \notin {"idle", "author", "claim", "set_have", "set_deleted"}
           /\ i < r.tag}

IsRequest(r) == r.event # None /\ r.event.kind = EVENT_DELETION

\* The request that is being added names the event in a tag it is done with.
Asking(r, e) ==
    /\ IsRequest(r) /\ r.event.pubkey = e.pubkey
    /\ \E i \in Done(r) : TagNames(r.event, i, e)

Asked(r, e) == Asking(r, e) \/ \E a \in accepted : Names(a[1], e)

\* A request of its author is remembered for an event nothing else is known of.
Refused(e) ==
    /\ hash_to_n[e.id].status = "Unknown"
    /\ hash_to_n[e.pubkey] # None /\ hash_to_n[e.pubkey].n \in hash_to_n[e.id].by

BeingAdded(r, e) == HasNumber(r) /\ r.event = e

\* The event is not stored and will not be.
Out(r, e) ==
    \/ e \in expired
    \/ /\ hash_to_n[e.id] # None
       /\ \/ hash_to_n[e.id].status \in {"Deleted", "Outdated"}
          \/ Refused(e)
          \/ /\ hash_to_n[e.id].status = "Have" /\ n_to_event[hash_to_n[e.id].n] = None
             /\ ~BeingAdded(r, e)

\* The tag at hand names an id, and the event under that id is looked at or removed.
AtId(r) ==
    IsRequest(r) /\ (r.pc = "check_author" \/ (r.pc \in Removing /\ TagAt(r).name = "e"))

\* What is known of the id in the tag at hand.
IdKnown(r) ==
    AtId(r) =>
        /\ r.tag \in DOMAIN r.event.tags /\ TagAt(r).name = "e"
        /\ TagAt(r).value # None /\ TagAt(r).value.type = "hex32"
        /\ Known(TagAt(r).value.hash, r.victim)
        /\ hash_to_n[TagAt(r).value.hash].status =
              IF r.pc \in {"remove_keys", "remove_event"} THEN "Deleted" ELSE "Have"
        /\ r.pc \in Removing => r.status = "Deleted"

\* The request is added to those for the id.
AddsRequest(r) ==
    r.pc = "set_requested" =>
        LET h == TagAt(r).value.hash IN
        /\ r.author \in r.by
        /\ hash_to_n[h] # None => hash_to_n[h].by \subseteq r.by

\* No request of its author asks for the event that is being accepted.
Unasked(r) ==
    r.pc = "set_have" /\ hash_to_n[r.event.id] # None =>
        hash_to_n[r.event.id].status = "Unknown" /\ r.author \notin hash_to_n[r.event.id].by

Honoured(r) == \A e \in Events : Asked(r, e) => Out(r, e)

BookOK(r) ==
    AcceptedKnown /\ ExpiredGone(r) /\ IdKnown(r) /\ AddsRequest(r) /\ Unasked(r)

RequestsOK(r) == BookOK(r) /\ Honoured(r)

\* An id that a tag names.
LEMMA TagHash ==
    ASSUME NEW e \in Events, NEW request, NEW i, TagNames(request, i, e)
    PROVE  /\ request.tags[i].name = "e" /\ request.tags[i].value # None
           /\ request.tags[i].value.type = "hex32" /\ request.tags[i].value.hash = e.id
           /\ e.id \in Hashes
  <1>1. e.id \in Hashes /\ Hex32(e.id) # None
    BY EventHashes, DbAssumption
  <1> QED
    BY <1>1 DEF TagNames, Hex32

\* A hash that a tag has as its value.
LEMMA TagHex ==
    ASSUME NEW e \in Events, NEW i \in DOMAIN e.tags,
           e.tags[i].value # None, e.tags[i].value.type = "hex32"
    PROVE  e.tags[i].value.hash \in Hashes /\ e.tags[i].value = Hex32(e.tags[i].value.hash)
  BY EventHashes, ValuesAssumption

\* The event under the number of an id has that id.
LEMMA KnownEvent ==
    ASSUME IndexInv, NEW e \in Events, NEW n \in Stored, Known(e.id, n)
    PROVE  n_to_event[n] = e
  <1>1. e.id \in Hashes /\ n_to_event[n] \in Events /\ n \in Ns
    BY StoredIds, EventHashes
  <1>2. owner[n] = e.id /\ owner[n] = n_to_event[n].id
    BY <1>1 DEF Known, IndexInv, Inv, NumbersOwned, Stored
  <1> QED
    BY <1>1, <1>2, SameEvent

LEMMA KnownOwner ==
    ASSUME IndexInv, NEW h \in Hashes, NEW n, Known(h, n)
    PROVE  owner[n] = h /\ n \in Ns /\ hash_to_n[h] \in Entries
  BY DEF Known, IndexInv, Inv, NumbersOwned, TypeOK, Entries

\* What a step of a request is done with: what it was done with, and the tag it leaves.
LEMMA StepAsking ==
    ASSUME IndexInv, TurnOK(Running), NEW p \in Procs, Step(p), NEW e,
           Running = proc[p], Running' = proc'[p], Asking(proc'[p], e)
    PROVE  LET r == proc[p]
           IN  \/ Asking(r, e)
               \/ /\ Resumes(proc'[p], r) /\ IsRequest(r) /\ r.event.pubkey = e.pubkey
                  /\ proc'[p].event = r.event
                  /\ r.tag \in DOMAIN r.event.tags /\ TagNames(r.event, r.tag, e)
                  /\ \/ SearchTag(p) \/ Scan(p) \/ TagStep(p) \/ SetRequested(p)
                     \/ CheckAuthor(p) \/ Remove(p) \/ RemoveEvent(p)
  <1> DEFINE r == proc[p]
             x == proc'[p]
             Early == {"idle", "author", "claim", "set_have", "set_deleted"}
             Late == {"insert", "insert_keys", "insert_key"}
             Back == \/ SearchTag(p) \/ Scan(p) \/ TagStep(p) \/ SetRequested(p)
                     \/ CheckAuthor(p) \/ Remove(p) \/ RemoveEvent(p)
  <1>1. r.tag \in Nat /\ x.pc \notin Early /\ IsRequest(x)
    BY Tracing DEF Registers, Asking, Done
  <1>2. ASSUME Same(x, r), r.pc \notin Early, x.pc \in Late => r.pc \in Late
        PROVE  Asking(r, e)
    BY <1>2 DEF Asking, Done, IsRequest, Same
  <1>3. ASSUME Resumes(x, r), r.pc \notin Early, Back
        PROVE  \/ Asking(r, e)
               \/ /\ IsRequest(r) /\ r.event.pubkey = e.pubkey /\ x.event = r.event
                  /\ r.tag \in DOMAIN r.event.tags /\ TagNames(r.event, r.tag, e) /\ Back
    <2>1. r.event # None /\ x.event = r.event /\ IsRequest(r) /\ x.tag = r.tag + 1 /\ x.pc = "tags"
      BY <1>1, <1>3 DEF IsRequest, Resumes
    <2>2. PICK i \in DOMAIN r.event.tags : TagNames(r.event, i, e) /\ i < r.tag + 1
      BY <2>1 DEF Asking, Done
    <2>3. r.event.pubkey = e.pubkey
      BY <2>1 DEF Asking
    <2>4. i \in Nat
      <3>1. r.event \in Events
        BY <2>1, Tracing DEF Registers
      <3> QED
        BY <2>2, <3>1, EventTags
    <2>5. CASE i = r.tag
      BY <1>3, <2>1, <2>2, <2>3, <2>5
    <2>6. CASE i < r.tag
      BY <1>3, <2>1, <2>2, <2>3, <2>6 DEF Asking, Done
    <2> QED
      BY <1>1, <2>2, <2>4, <2>5, <2>6
  <1> HIDE DEF Back
  <1>4. CASE GetAuthor(p) \/ Claim(p) \/ SetDeleted(p) \/ InsertTime(p)
    BY <1>1, <1>4, GetAuthorGoes, ClaimGoes, SetDeletedGoes, InsertTimeGoes DEF Idle
  <1>5. CASE SetHave(p)
    <2>1. x.event = r.event /\ r.event \in Events /\ x.event.kind = EVENT_DELETION
      <3>1. r.pc = "set_have" /\ x.event = r.event
        BY <1>5, SetHaveGoes
      <3> QED
        BY <1>1, <3>1, Tracing DEF Removing, IsRequest
    <2>2. x.pc = "tags" /\ x.tag = 1
      BY <1>5, <2>1, OneKind, SetHaveGoes
    <2>3. \A i \in DOMAIN x.event.tags : i \in Nat /\ i >= 1
      BY <2>1, EventTags
    <2> QED
      BY <2>2, <2>3 DEF Asking, Done
  <1>6. CASE SlotAuthor(p) \/ InsertRef(p) \/ InsertKey(p) \/ Insert(p)
    BY <1>2, <1>6, SlotAuthorGoes, InsertRefGoes, InsertKeyGoes, InsertGoes
  <1>7. CASE SearchAuthor(p) \/ SearchKind(p) \/ RemoveStatus(p) \/ RemoveKey(p) \/ RemoveTime(p)
    BY <1>2, <1>7, SearchAuthorGoes, SearchKindGoes, RemoveStatusGoes, RemoveKeysGoes
  <1>8. CASE SearchTag(p) \/ Scan(p)
    <2>1. Back
      BY <1>8 DEF Back
    <2>2. /\ r.pc \in {"search_tag", "scan"}
          /\ \/ Resumes(x, r)
             \/ Same(x, r) /\ x.pc \in {"search_author", "scan", "remove"}
             \/ x = Idle
      BY <1>8, SearchTagGoes, ScanGoes
    <2> QED
      BY <1>1, <1>2, <1>3, <2>1, <2>2 DEF Idle, Back
  <1>9. CASE TagStep(p)
    <2>1. Back /\ r.pc = "tags"
      BY <1>9, TagStepGoes DEF Back
    <2>2. CASE r.tag > Len(r.event.tags) /\ x.event = r.event
      <3>1. PICK i \in DOMAIN r.event.tags : TagNames(r.event, i, e)
        BY <2>2 DEF Asking, Done
      <3>2. i < r.tag
        <4>1. r.event \in Events
          BY <2>1, Tracing DEF Removing
        <4> QED
          BY <1>1, <2>2, <4>1, EventTags
      <3> QED
        BY <1>1, <2>1, <2>2, <3>1, <3>2 DEF Asking, Done, IsRequest
    <2>3. CASE Resumes(x, r)
      BY <1>3, <2>1, <2>3 DEF Back
    <2>4. CASE Same(x, r) /\ x.pc \in {"set_requested", "check_author", "slot_author"}
      BY <1>2, <2>1, <2>4
    <2> QED
      BY <1>9, <2>2, <2>3, <2>4, TagStepGoes
  <1>10. CASE SetRequested(p) \/ CheckAuthor(p)
    <2>1. Back
      BY <1>10 DEF Back
    <2>2. /\ r.pc \in {"set_requested", "check_author"}
          /\ Resumes(x, r) \/ (Same(x, r) /\ x.pc = "remove")
      BY <1>10, SetRequestedGoes, CheckAuthorGoes
    <2> QED
      BY <1>2, <1>3, <2>1, <2>2 DEF Back
  <1>11. CASE Remove(p) \/ RemoveEvent(p)
    <2>1. Back
      BY <1>11 DEF Back
    <2>2. /\ r.pc \in {"remove", "remove_event"}
          /\ Resumes(x, r) \/ (Same(x, r) /\ x.pc = "remove_status")
      BY <1>11, RemoveGoes, RemoveEventGoes
    <2> QED
      BY <1>2, <1>3, <2>1, <2>2 DEF Back
  <1> QED
    BY <1>4, <1>5, <1>6, <1>7, <1>8, <1>9, <1>10, <1>11 DEF Step

LEMMA StillOut ==
    ASSUME IndexInv, Stable, NEW e \in Events, Out(Running, e), expired \subseteq expired',
           hash_to_n[e.id] # None => hash_to_n'[e.id] = hash_to_n[e.id],
           n_to_event'[hash_to_n[e.id].n] # None =>
               n_to_event[hash_to_n[e.id].n] # None \/ BeingAdded(Running, e),
           hash_to_n[e.id] # None /\ hash_to_n[e.id].status = "Have" /\ BeingAdded(Running, e)'
               => BeingAdded(Running, e)
    PROVE  Out(Running, e)'
  <1>1. CASE e \in expired
    BY <1>1 DEF Out
  <1>2. CASE e \notin expired
    <2>1. /\ hash_to_n[e.id] # None /\ hash_to_n'[e.id] = hash_to_n[e.id]
          /\ e.pubkey \in Hashes
      BY <1>2, EventHashes DEF Out
    <2>2. CASE hash_to_n[e.id].status \in {"Deleted", "Outdated"}
      BY <2>1, <2>2 DEF Out
    <2>3. CASE Refused(e)
      <3>1. Refused(e)'
        BY <2>1, <2>3 DEF Refused, Stable
      <3> QED
        BY <2>1, <3>1 DEF Out
    <2>4. CASE /\ hash_to_n[e.id].status = "Have" /\ n_to_event[hash_to_n[e.id].n] = None
               /\ ~BeingAdded(Running, e)
      BY <2>1, <2>4 DEF Out
    <2> QED
      BY <1>2, <2>2, <2>3, <2>4 DEF Out
  <1> QED
    BY <1>1, <1>2

\* The histories within an operation.
LEMMA StepBook ==
    ASSUME IndexInv, TurnOK(Running), NEW p \in Procs, Step(p),
           Running = proc[p], Running' = proc'[p]
    PROVE  /\ expired' = expired
           /\ \/ UNCHANGED accepted
              \/ /\ InsertTime(p) /\ proc[p].pc = "insert_keys" /\ UNCHANGED <<hash_to_n, n_to_event>>
                 /\ accepted' = accepted \cup {<<proc[p].event, proc[p].n>>}
  <1>1. CASE GetAuthor(p) \/ Claim(p) \/ SetDeleted(p) \/ SetHave(p) \/ SlotAuthor(p)
    BY <1>1, GetAuthorGoes, ClaimGoes, SetDeletedGoes, SetHaveGoes, SlotAuthorGoes DEF book
  <1>2. CASE SearchTag(p) \/ SearchAuthor(p) \/ SearchKind(p) \/ Scan(p)
    BY <1>2, SearchTagGoes, SearchAuthorGoes, SearchKindGoes, ScanGoes DEF book
  <1>3. CASE TagStep(p) \/ SetRequested(p) \/ CheckAuthor(p)
    BY <1>3, TagStepGoes, SetRequestedGoes, CheckAuthorGoes DEF book
  <1>4. CASE Remove(p) \/ RemoveStatus(p) \/ RemoveKey(p) \/ RemoveTime(p) \/ RemoveEvent(p)
    BY <1>4, RemoveGoes, RemoveStatusGoes, RemoveKeysGoes, RemoveEventGoes DEF book
  <1>5. CASE Insert(p) \/ InsertRef(p) \/ InsertKey(p)
    BY <1>5, InsertGoes, InsertRefGoes, InsertKeyGoes DEF book
  <1>6. CASE InsertTime(p)
    BY <1>6, InsertTimeGoes
  <1> QED
    BY <1>1, <1>2, <1>3, <1>4, <1>5, <1>6 DEF Step

\* The stored events within an operation.
LEMMA StepStores ==
    ASSUME IndexInv, TurnOK(Running), NEW p \in Procs, Step(p),
           Running = proc[p], Running' = proc'[p]
    PROVE  \/ UNCHANGED n_to_event
           \/ /\ RemoveEvent(p) /\ proc[p].pc = "remove_event" /\ proc[p].victim \in Ns
              /\ UNCHANGED hash_to_n /\ n_to_event'[proc[p].victim] = None
              /\ \A n \in Ns : n # proc[p].victim => n_to_event'[n] = n_to_event[n]
           \/ /\ Insert(p) /\ proc[p].pc = "insert" /\ HasNumber(proc[p])
              /\ proc[p].event \in Events /\ proc[p].n \in Ns
              /\ UNCHANGED hash_to_n /\ n_to_event'[proc[p].n] = proc[p].event
              /\ \A n \in Ns : n # proc[p].n => n_to_event'[n] = n_to_event[n]
  <1>1. CASE GetAuthor(p) \/ Claim(p) \/ SetDeleted(p) \/ SetHave(p) \/ SlotAuthor(p)
    BY <1>1, GetAuthorGoes, ClaimGoes, SetDeletedGoes, SetHaveGoes, SlotAuthorGoes DEF db
  <1>2. CASE SearchTag(p) \/ SearchAuthor(p) \/ SearchKind(p) \/ Scan(p)
    BY <1>2, SearchTagGoes, SearchAuthorGoes, SearchKindGoes, ScanGoes DEF db
  <1>3. CASE TagStep(p) \/ SetRequested(p) \/ CheckAuthor(p)
    BY <1>3, TagStepGoes, SetRequestedGoes, CheckAuthorGoes DEF db
  <1>4. CASE Remove(p) \/ RemoveStatus(p) \/ RemoveKey(p) \/ RemoveTime(p)
    BY <1>4, RemoveGoes, RemoveStatusGoes, RemoveKeysGoes DEF db
  <1>5. CASE RemoveEvent(p)
    BY <1>5, RemoveEventGoes
  <1>6. CASE Insert(p)
    <2>1. proc[p].pc = "insert" /\ proc[p].event \in Events
      BY <1>6, InsertGoes
    <2>2. HasNumber(proc[p])
      BY <2>1, EventHashes DEF HasNumber
    <2> QED
      BY <1>6, <2>2, InsertGoes
  <1>7. CASE InsertRef(p) \/ InsertKey(p) \/ InsertTime(p)
    BY <1>7, InsertRefGoes, InsertKeyGoes, InsertTimeGoes
  <1> QED
    BY <1>1, <1>2, <1>3, <1>4, <1>5, <1>6, <1>7 DEF Step

\* The entry of a hash within an operation: it stays, or one of four puts changes it.
LEMMA StepEntry ==
    ASSUME IndexInv, TurnOK(Running), NEW p \in Procs, Step(p), NEW h \in Hashes,
           Running = proc[p], Running' = proc'[p]
    PROVE  LET r == proc[p]
           IN  \/ hash_to_n[h] # None => hash_to_n'[h] = hash_to_n[h]
               \/ /\ SetDeleted(p) /\ r.pc = "set_deleted" /\ h = r.event.id
                  /\ hash_to_n'[h] = Entry(r.n, "Deleted", {})
               \/ SetHave(p) /\ r.pc = "set_have" /\ h = r.event.id
               \/ /\ SetRequested(p) /\ r.pc = "set_requested" /\ h = TagAt(r).value.hash
                  /\ hash_to_n'[h] = Entry(r.victim, "Unknown", r.by)
               \/ /\ RemoveStatus(p) /\ r.pc = "remove_status" /\ h = r.removed.id
                  /\ hash_to_n'[h] = Entry(r.victim, r.status, {})
  <1> DEFINE r == proc[p]
  <1>1. ASSUME NEW g, NEW entry, SetEntry(g, entry)
        PROVE  \/ hash_to_n'[h] = hash_to_n[h]
               \/ h = g /\ hash_to_n'[h] = entry
    BY <1>1 DEF SetEntry, IndexInv, Inv, TypeOK
  <1>2. CASE GetAuthor(p) \/ SlotAuthor(p) \/ InsertRef(p)
    BY <1>2, GetAuthorGoes, SlotAuthorGoes, InsertRefGoes DEF Learns
  <1>3. CASE SetDeleted(p)
    BY <1>1, <1>3, SetDeletedGoes
  <1>4. CASE SetHave(p)
    BY <1>1, <1>4, SetHaveGoes
  <1>5. CASE SetRequested(p)
    BY <1>1, <1>5, SetRequestedGoes
  <1>6. CASE RemoveStatus(p)
    BY <1>1, <1>6, RemoveStatusGoes
  <1>7. CASE Claim(p) \/ SearchTag(p) \/ SearchAuthor(p) \/ SearchKind(p) \/ Scan(p)
    BY <1>7, ClaimGoes, SearchTagGoes, SearchAuthorGoes, SearchKindGoes, ScanGoes DEF db
  <1>8. CASE TagStep(p) \/ CheckAuthor(p) \/ Remove(p) \/ RemoveKey(p) \/ RemoveTime(p)
    BY <1>8, TagStepGoes, CheckAuthorGoes, RemoveGoes, RemoveKeysGoes DEF db
  <1>9. CASE RemoveEvent(p) \/ Insert(p) \/ InsertKey(p) \/ InsertTime(p)
    BY <1>9, RemoveEventGoes, InsertGoes, InsertKeyGoes, InsertTimeGoes
  <1> QED
    BY <1>2, <1>3, <1>4, <1>5, <1>6, <1>7, <1>8, <1>9 DEF Step

\* An event that is out stays out.
LEMMA StepOut ==
    ASSUME IndexInv, TurnOK(Running), NumberKnown(Running), RequestsOK(Running),
           NEW p \in Procs, Step(p), NEW e \in Events, Out(Running, e),
           Running = proc[p], Running' = proc'[p]
    PROVE  Out(Running, e)'
  <1> DEFINE r == proc[p]
             entry == hash_to_n[e.id]
  <1>1. Stable /\ expired' = expired /\ e.id \in Hashes /\ e.pubkey \in Hashes
    BY StepStable, StepBook, EventHashes
  <1>2. entry # None /\ entry.status = "Have" /\ BeingAdded(Running, e)' => BeingAdded(Running, e)
    <2>1. CASE Claim(p)
      BY <2>1, ClaimGoes DEF BeingAdded, HasNumber, Idle
    <2>2. CASE ~Claim(p)
      BY <2>2, StepKeeps DEF BeingAdded, Keeps, HasNumber
    <2> QED
      BY <2>1, <2>2
  <1>3. entry # None /\ n_to_event'[entry.n] # None =>
            n_to_event[entry.n] # None \/ BeingAdded(Running, e)
    <2> SUFFICES ASSUME entry # None, n_to_event'[entry.n] # None, n_to_event[entry.n] = None
                 PROVE  BeingAdded(Running, e)
      OBVIOUS
    <2>1. Known(e.id, entry.n) /\ entry.n \in Ns /\ owner[entry.n] = e.id
      BY <1>1, KnownOwner DEF Known
    <2>2. HasNumber(r) /\ entry.n = r.n
      BY <2>1, StepStores
    <2>3. owner[r.n] = r.event.id /\ r.event \in Events
      BY <2>2, Numbered DEF IndexInv
    <2> QED
      BY <2>1, <2>2, <2>3, SameEvent DEF BeingAdded
  <1>4. ASSUME entry # None => hash_to_n'[e.id] = entry
        PROVE  Out(Running, e)'
    <2>1. CASE e \in expired
      BY <1>1, <2>1 DEF Out
    <2>2. CASE entry # None
      BY <1>1, <1>2, <1>3, <1>4, <2>2, StillOut
    <2> QED
      BY <2>1, <2>2 DEF Out
  <1>5. CASE r.pc = "set_deleted" /\ hash_to_n'[e.id] = Entry(r.n, "Deleted", {})
    <2>1. r.n \in Ns
      BY <1>5, ClaimedFree
    <2>2. hash_to_n'[e.id] # None /\ hash_to_n'[e.id].status = "Deleted"
      BY <1>5, <2>1, EntryIsSome DEF Status
    <2> QED
      BY <2>2 DEF Out
  <1>6. CASE r.pc = "set_have" /\ e.id = r.event.id
    <2>1. r.event = e /\ r.event # None
      BY <1>6, Tracing, SameEvent DEF Removing
    <2>2. e \notin expired /\ entry # None => entry.status = "Unknown" /\ r.author \notin entry.by
      BY <1>6, <2>1 DEF RequestsOK, BookOK, Unasked, ExpiredGone
    <2>3. hash_to_n[e.pubkey].n = r.author
      BY <1>6, <2>1 DEF NumberKnown, HasNumber, Known
    <2>4. e \notin expired
      BY <2>1 DEF RequestsOK, BookOK, ExpiredGone
    <2> QED
      BY <2>2, <2>3, <2>4 DEF Out, Refused
  <1>7. CASE /\ r.pc = "set_requested" /\ e.id = TagAt(r).value.hash
             /\ hash_to_n'[e.id] = Entry(r.victim, "Unknown", r.by)
    <2>1. CASE e \in expired
      BY <1>1, <2>1 DEF Out
    <2>2. CASE e \notin expired
      <3>1. r.victim \in Ns /\ r.by \in SUBSET Ns
        BY <1>7, Tracing DEF RegisterOK, Registers
      <3>2. entry # None /\ entry.status = "Unknown"
        BY <1>7, <2>2 DEF Out, TurnOK, Named
      <3>3. Refused(e) /\ entry.by \subseteq r.by
        BY <1>7, <2>2, <3>2 DEF Out, RequestsOK, BookOK, AddsRequest
      <3>4. /\ hash_to_n'[e.id] # None /\ hash_to_n'[e.id].status = "Unknown"
            /\ hash_to_n'[e.id].by = r.by
        BY <1>7, <3>1, EntryIsSome DEF Status
      <3>5. Refused(e)'
        BY <1>1, <3>3, <3>4 DEF Refused, Stable
      <3> QED
        BY <3>4, <3>5 DEF Out
    <2> QED
      BY <2>1, <2>2
  <1>8. CASE r.pc = "remove_status" /\ e.id = r.removed.id
    <2>1. /\ r.removed \in Events /\ r.victim \in Stored
          /\ n_to_event[r.victim] = r.removed
      BY <1>8, VictimStored DEF HasRemoved
    <2>2. r.removed = e
      BY <1>8, <2>1, SameEvent
    <2>3. entry = Entry(r.victim, "Have", {}) /\ n_to_event[r.victim] # None
      BY <1>8, <2>1, <2>2 DEF TurnOK, StoredHave, Leaving, Stored
    <2>4. entry.status = "Have" /\ entry.n = r.victim
      BY <2>3, EntryIsSome
    <2>5. e \in expired
      BY <2>3, <2>4 DEF Out, Refused
    <2> QED
      BY <1>1, <2>5 DEF Out
  <1> QED
    BY <1>1, <1>4, <1>5, <1>6, <1>7, <1>8, StepEntry

\* A request passes a tag with an id at once only when the id is decided.
LEMMA TagStepTag ==
    ASSUME IndexInv, NEW p \in Procs, TagStep(p), proc'[p].pc = "tags",
           TagAt(proc[p]).name = "e", TagAt(proc[p]).value # None,
           TagAt(proc[p]).value.type = "hex32"
    PROVE  LET entry == hash_to_n[TagAt(proc[p]).value.hash]
           IN  entry # None /\ entry.status \notin {"Unknown", "Have"}
  BY TagStepGoes

\* No event is named by itself: its id is a hash of its tags, among others.
NamesOthers == \A e \in Events : ~Names(e, e)

\* An event that a tag names is out when the request is done with the tag.
LEMMA TagHonoured ==
    ASSUME NamesOthers, IndexInv, TurnOK(Running), NumberKnown(Running), RequestsOK(Running),
           NEW p \in Procs, Step(p), Running = proc[p], Running' = proc'[p],
           NEW e \in Events, Resumes(proc'[p], proc[p]), IsRequest(proc[p]),
           proc[p].event.pubkey = e.pubkey, proc'[p].event = proc[p].event,
           proc[p].tag \in DOMAIN proc[p].event.tags, TagNames(proc[p].event, proc[p].tag, e),
           \/ SearchTag(p) \/ Scan(p) \/ TagStep(p) \/ SetRequested(p)
           \/ CheckAuthor(p) \/ Remove(p) \/ RemoveEvent(p)
    PROVE  Out(Running, e)'
  <1> DEFINE r == proc[p]
             entry == hash_to_n[e.id]
  <1>1. /\ TagAt(r).name = "e" /\ TagAt(r).value # None /\ TagAt(r).value.type = "hex32"
        /\ TagAt(r).value.hash = e.id /\ e.id \in Hashes /\ e.pubkey \in Hashes
    BY TagHash, EventHashes DEF TagAt
  <1>2. ~BeingAdded(Running, e)'
    <2>1. r.event # e
      BY DEF NamesOthers, Names, IsRequest, TagNames
    <2> QED
      BY <2>1 DEF BeingAdded
  <1>3. IsRequest(r) /\ TagAt(r).name # "a"
    BY <1>1
  <1>4. CASE SearchTag(p) \/ Scan(p)
    <2>1. r.pc \in Searching
      BY <1>4, SearchTagGoes, ScanGoes DEF Searching
    <2> QED
      BY <1>3, <2>1, Tracing DEF Traced, AtAddress, IsRequest
  <1>5. CASE TagStep(p)
    <2>1. UNCHANGED <<hash_to_n, n_to_event>> /\ r.pc = "tags" /\ proc'[p].pc = "tags"
      BY <1>5, TagStepGoes DEF db, Resumes, IsRequest
    <2>2. entry # None /\ entry.status \notin {"Unknown", "Have"}
      BY <1>1, <1>5, <2>1, TagStepTag
    <2>3. entry.status \in Status
      BY <1>1, <2>2 DEF IndexInv, Inv, TypeOK, Entries
    <2> QED
      BY <2>1, <2>2, <2>3 DEF Out, Status
  <1>6. CASE SetRequested(p)
    <2>1. /\ r.pc = "set_requested" /\ SetEntry(e.id, Entry(r.victim, "Unknown", r.by))
      BY <1>1, <1>6, SetRequestedGoes
    <2>2. r.victim \in Ns /\ r.by \in SUBSET Ns
      BY <2>1, Tracing DEF RegisterOK, Registers
    <2>3. hash_to_n'[e.id] = Entry(r.victim, "Unknown", r.by)
      BY <1>1, <2>1 DEF SetEntry, IndexInv, Inv, TypeOK
    <2>4. /\ hash_to_n'[e.id] # None /\ hash_to_n'[e.id].status = "Unknown"
          /\ hash_to_n'[e.id].by = r.by
      BY <2>2, <2>3, EntryIsSome DEF Status
    <2>5. r.author \in r.by
      BY <2>1 DEF RequestsOK, BookOK, AddsRequest
    <2>6. hash_to_n'[e.pubkey] # None /\ hash_to_n'[e.pubkey].n = r.author
      <3>1. HasNumber(r)
        BY <2>1 DEF HasNumber, IsRequest
      <3>2. Known(e.pubkey, r.author)
        BY <3>1 DEF NumberKnown
      <3> QED
        BY <1>1, <3>2, StepStable, StillKnown
    <2>7. Refused(e)'
      BY <2>4, <2>5, <2>6 DEF Refused
    <2> QED
      BY <2>4, <2>7 DEF Out
  <1>7. CASE CheckAuthor(p) \/ Remove(p)
    <2>1. r.pc \in {"check_author", "remove"} /\ UNCHANGED <<hash_to_n, n_to_event>>
      BY <1>7, CheckAuthorGoes, RemoveGoes DEF db
    <2>2. AtId(r)
      BY <1>1, <2>1 DEF AtId, Removing
    <2>3. Known(e.id, r.victim) /\ entry.status = "Have"
      BY <1>1, <2>1, <2>2 DEF RequestsOK, BookOK, IdKnown
    <2>4. n_to_event[r.victim] = None
      <3>1. \/ n_to_event[r.victim] = None
            \/ n_to_event[r.victim].pubkey # r.event.pubkey
        BY <1>7, <2>1, CheckAuthorGoes, RemoveGoes DEF Resumes, IsRequest
      <3>2. r.victim \in Ns
        BY <1>1, <2>3, KnownOwner
      <3>3. n_to_event[r.victim] # None => n_to_event[r.victim] = e
        BY <2>3, <3>2, KnownEvent DEF Stored
      <3> QED
        BY <3>1, <3>3
    <2>5. entry # None /\ entry.n = r.victim
      BY <2>3 DEF Known
    <2> QED
      BY <1>2, <2>1, <2>3, <2>4, <2>5 DEF Out
  <1>8. CASE RemoveEvent(p)
    <2>1. r.pc = "remove_event" /\ UNCHANGED hash_to_n
      BY <1>8, RemoveEventGoes
    <2>2. AtId(r)
      BY <1>1, <2>1 DEF AtId, Removing
    <2>3. entry # None /\ entry.status = "Deleted"
      BY <1>1, <2>1, <2>2 DEF RequestsOK, BookOK, IdKnown, Known
    <2> QED
      BY <2>1, <2>3 DEF Out
  <1> QED
    BY <1>4, <1>5, <1>6, <1>7, <1>8

\* What is asked for is out after every step.
LEMMA StepHonoured ==
    ASSUME NamesOthers, IndexInv, TurnOK(Running), NumberKnown(Running), RequestsOK(Running),
           NEW p \in Procs, Step(p), Running = proc[p], Running' = proc'[p]
    PROVE  Honoured(Running)'
  <1> DEFINE r == proc[p]
             x == proc'[p]
  <1> SUFFICES ASSUME NEW e \in Events, Asked(Running, e)' PROVE Out(Running, e)'
    BY DEF Honoured
  <1>1. Asked(Running, e) => Out(Running, e)'
    BY StepOut DEF RequestsOK, BookOK, Honoured
  <1>2. CASE Asking(x, e)
    <2>1. CASE Asking(r, e)
      BY <1>1, <2>1 DEF Asked
    <2>2. CASE ~Asking(r, e)
      BY <1>2, <2>2, StepAsking, TagHonoured
    <2> QED
      BY <2>1, <2>2
  <1>3. ASSUME NEW a \in accepted', Names(a[1], e), ~Asked(Running, e)
        PROVE  FALSE
    <2>1. a \notin accepted
      BY <1>3 DEF Asked
    <2>2. a = <<r.event, r.n>> /\ r.pc = "insert_keys"
      BY <1>3, <2>1, StepBook
    <2>3. r.event # None
      BY <2>2, Tracing DEF Removing
    <2>4. Names(r.event, e)
      BY <1>3, <2>2
    <2> QED
      BY <1>3, <2>2, <2>3, <2>4 DEF Names, Asked, Asking, IsRequest, Done, TagNames
  <1>4. Asking(Running, e)' <=> Asking(x, e)
    BY DEF Asking, IsRequest, Done, TagNames
  <1> QED
    BY <1>1, <1>2, <1>3, <1>4 DEF Asked

\* An operation is about one event, and ends with none.
LEMMA StepEvent ==
    ASSUME IndexInv, TurnOK(Running), NEW p \in Procs, Step(p),
           Running = proc[p], Running' = proc'[p]
    PROVE  proc'[p].event = None \/ proc'[p].event = proc[p].event
  <1>1. \A x, r : Resumes(x, r) => x.event = None \/ x.event = r.event
    BY DEF Resumes
  <1>2. Idle.event = None
    BY DEF Idle
  <1>3. CASE GetAuthor(p) \/ Claim(p) \/ SetDeleted(p) \/ SetHave(p) \/ SlotAuthor(p)
    BY <1>2, <1>3, GetAuthorGoes, ClaimGoes, SetDeletedGoes, SetHaveGoes, SlotAuthorGoes DEF Same
  <1>4. CASE SearchTag(p) \/ SearchAuthor(p) \/ SearchKind(p) \/ Scan(p)
    <2>1. Same(proc'[p], proc[p]) \/ Resumes(proc'[p], proc[p]) \/ proc'[p] = Idle
      BY <1>4, SearchTagGoes, SearchAuthorGoes, SearchKindGoes, ScanGoes
    <2> QED
      BY <1>1, <1>2, <2>1 DEF Same
  <1>5. CASE TagStep(p) \/ SetRequested(p) \/ CheckAuthor(p)
    BY <1>1, <1>5, TagStepGoes, SetRequestedGoes, CheckAuthorGoes DEF Same
  <1>6. CASE Remove(p) \/ RemoveStatus(p) \/ RemoveKey(p) \/ RemoveTime(p) \/ RemoveEvent(p)
    BY <1>1, <1>6, RemoveGoes, RemoveStatusGoes, RemoveKeysGoes, RemoveEventGoes DEF Same
  <1>7. CASE Insert(p) \/ InsertRef(p) \/ InsertKey(p) \/ InsertTime(p)
    BY <1>2, <1>7, InsertGoes, InsertRefGoes, InsertKeyGoes, InsertTimeGoes DEF Same
  <1> QED
    BY <1>3, <1>4, <1>5, <1>6, <1>7 DEF Step

\* A removal goes on until its victim is gone.
LEMMA StepRemoves ==
    ASSUME IndexInv, TurnOK(Running), NEW p \in Procs, Step(p),
           Running = proc[p], Running' = proc'[p], proc[p].pc \in Removing,
           n_to_event[proc[p].victim] # None, n_to_event'[proc[p].victim] # None
    PROVE  proc'[p].pc \in Removing /\ proc'[p].victim = proc[p].victim
  <1>1. \/ Remove(p) \/ RemoveStatus(p) \/ RemoveKey(p) \/ RemoveTime(p) \/ RemoveEvent(p)
    <2>1. GetAuthor(p) \/ Claim(p) \/ SetDeleted(p) \/ SetHave(p) \/ SlotAuthor(p) => FALSE
      BY DEF GetAuthor, Claim, SetDeleted, SetHave, SlotAuthor, Removing
    <2>2. SearchTag(p) \/ SearchAuthor(p) \/ SearchKind(p) \/ Scan(p) => FALSE
      BY SearchTagGoes, SearchAuthorGoes, SearchKindGoes, ScanGoes DEF Removing
    <2>3. TagStep(p) \/ SetRequested(p) \/ CheckAuthor(p) => FALSE
      BY TagStepGoes, SetRequestedGoes, CheckAuthorGoes DEF Removing
    <2>4. Insert(p) \/ InsertRef(p) \/ InsertKey(p) \/ InsertTime(p) => FALSE
      BY DEF Insert, InsertRef, InsertKey, InsertTime, Removing
    <2> QED
      BY <2>1, <2>2, <2>3, <2>4 DEF Step
  <1> QED
    BY <1>1, RemoveGoes, RemoveStatusGoes, RemoveKeysGoes, RemoveEventGoes DEF Removing

\* What the registers say of the tag at hand, and of the event being accepted.
LEMMA StepTag ==
    ASSUME IndexInv, TurnOK(Running), BookOK(Running), NEW p \in Procs, Step(p),
           Running = proc[p], Running' = proc'[p]
    PROVE  IdKnown(Running)' /\ AddsRequest(Running)' /\ Unasked(Running)'
  <1> DEFINE r == proc[p]
             x == proc'[p]
             h == TagAt(r).value.hash
             Id(m, status) == hash_to_n'[h] # None /\ hash_to_n'[h].n = m /\ hash_to_n'[h].status = status
  <1>5. ASSUME Same(x, r), r.tag \in DOMAIN r.event.tags, TagAt(r).name = "e",
               TagAt(r).value # None, TagAt(r).value.type = "hex32",
               Id(x.victim, IF x.pc \in {"remove_keys", "remove_event"} THEN "Deleted" ELSE "Have"),
               x.pc \in Removing => x.status = "Deleted"
        PROVE  IdKnown(Running)'
    <2>1. TagAt(x) = TagAt(r) /\ x.event = r.event /\ x.tag = r.tag /\ Running' = x
      BY <1>5 DEF Same, TagAt
    <2>2. TagAt(r).value.hash = h
      OBVIOUS
    <2> HIDE DEF h, x
    <2> QED
      BY <1>5, <2>1, <2>2 DEF IdKnown, Known, TagAt
  <1>1. ASSUME AtId(x) PROVE IdKnown(Running)'
    <2>1. CASE TagStep(p) /\ x.pc = "check_author"
      <3>1. /\ r.pc = "tags" /\ UNCHANGED hash_to_n /\ Same(x, r) /\ r.tag <= Len(r.event.tags)
            /\ TagAt(r).name = "e" /\ TagAt(r).value # None /\ TagAt(r).value.type = "hex32"
            /\ x.victim = hash_to_n[h].n /\ hash_to_n[h] # None /\ hash_to_n[h].status = "Have"
        BY <2>1, TagStepGoes, ResumesTo DEF db
      <3>2. r.tag \in DOMAIN r.event.tags
        <4>1. r.event \in Events /\ r.tag \in Nat /\ r.tag # 0
          BY <3>1, Tracing DEF Registers, RegisterOK, Removing
        <4> QED
          BY <3>1, <4>1, EventTags
      <3> QED
        BY <1>5, <2>1, <3>1, <3>2 DEF Removing
    <2>2. CASE x.pc \in Removing
      <3>1. CASE Scan(p)
        <4>1. r.pc = "scan" /\ Same(x, r)
          BY <2>2, <3>1, ScanGoes, ResumesTo DEF Removing, Idle
        <4>2. TagAt(x) = TagAt(r) /\ x.event = r.event
          BY <4>1 DEF Same, TagAt
        <4>3. r.event.kind = EVENT_DELETION /\ TagAt(r).name = "e"
          BY <1>1, <2>2, <4>2 DEF AtId, IsRequest, Removing
        <4> QED
          BY <4>1, <4>3, Tracing DEF Traced, Searching, AtAddress
      <3>2. CASE \/ CheckAuthor(p) \/ Remove(p) \/ RemoveKey(p) \/ RemoveTime(p)
        <4>1. /\ UNCHANGED hash_to_n /\ Same(x, r) /\ x.victim = r.victim
              /\ \/ r.pc = "check_author" /\ x.pc = "remove" /\ x.status = "Deleted"
                 \/ /\ x.status = r.status
                    /\ \/ r.pc = "remove" /\ x.pc = "remove_status"
                       \/ /\ r.pc = "remove_keys"
                          /\ x.pc \in {"remove_keys", "remove_event"}
          BY <2>2, <3>2, CheckAuthorGoes, RemoveGoes, RemoveKeysGoes, ResumesTo DEF Removing, db
        <4>2. TagAt(x) = TagAt(r) /\ x.event = r.event /\ x.tag = r.tag
          BY <4>1 DEF Same, TagAt
        <4>3. AtId(r)
          BY <1>1, <2>2, <4>1, <4>2 DEF AtId, IsRequest, Removing
        <4>4. IdKnown(r)
          BY DEF BookOK
        <4>5. /\ r.tag \in DOMAIN r.event.tags /\ (r.pc \in Removing => r.status = "Deleted")
              /\ TagAt(r).name = "e" /\ TagAt(r).value # None /\ TagAt(r).value.type = "hex32"
              /\ Known(h, r.victim)
              /\ hash_to_n[h].status =
                    IF r.pc \in {"remove_keys", "remove_event"} THEN "Deleted" ELSE "Have"
          BY <4>3, <4>4 DEF IdKnown
        <4>6. x.status = "Deleted"
          BY <4>1, <4>5 DEF Removing
        <4>8. x.pc \in {"remove_keys", "remove_event"} <=> r.pc \in {"remove_keys", "remove_event"}
          <5> HIDE DEF x
          <5> QED
            BY <4>1
        <4>7. Id(x.victim, IF x.pc \in {"remove_keys", "remove_event"} THEN "Deleted" ELSE "Have")
          <5> HIDE DEF x, h
          <5> QED
            BY <4>1, <4>5, <4>8 DEF Known
        <4> HIDE DEF x, h
        <4> QED
          BY <1>5, <4>1, <4>5, <4>6, <4>7
      <3>3. CASE RemoveStatus(p)
        <4>1. /\ r.pc = "remove_status" /\ Same(x, r) /\ x.victim = r.victim
              /\ x.status = r.status /\ x.pc = "remove_keys"
              /\ SetEntry(r.removed.id, Entry(r.victim, r.status, {}))
          BY <3>3, RemoveStatusGoes
        <4>2. TagAt(x) = TagAt(r) /\ x.event = r.event /\ x.tag = r.tag
          BY <4>1 DEF Same, TagAt
        <4>3. AtId(r)
          BY <1>1, <2>2, <4>1, <4>2 DEF AtId, IsRequest, Removing
        <4>4. /\ r.tag \in DOMAIN r.event.tags /\ r.status = "Deleted" /\ TagAt(r).name = "e"
              /\ TagAt(r).value # None /\ TagAt(r).value.type = "hex32" /\ Known(h, r.victim)
          BY <4>1, <4>3 DEF BookOK, IdKnown, Removing
        <4>5. h \in Hashes /\ r.event \in Events
          <5>1. r.event \in Events
            BY <4>3, Tracing DEF Registers, AtId, IsRequest
          <5>2. TagAt(r).value # None /\ TagAt(r).value.type = "hex32"
            BY <4>4
          <5>3. r.event.tags[r.tag].value # None /\ r.event.tags[r.tag].value.type = "hex32"
            BY ONLY <5>2 DEF TagAt
          <5>4. r.event.tags[r.tag].value.hash \in Hashes
            BY ONLY <4>4, <5>1, <5>3, TagHex
          <5> QED
            BY ONLY <5>1, <5>4 DEF TagAt
        <4>6. h = r.removed.id
          BY <4>1, <4>4, <4>5, KnownOwner, RemovedOwned DEF HasRemoved, IndexInv
        <4>7. hash_to_n'[h] = Entry(r.victim, "Deleted", {}) /\ r.victim \in Ns
          BY <4>1, <4>4, <4>5, <4>6, VictimStored
             DEF SetEntry, HasRemoved, IndexInv, Inv, TypeOK
        <4>8. /\ hash_to_n'[h] # None /\ hash_to_n'[h].n = r.victim
              /\ hash_to_n'[h].status = "Deleted"
          BY <4>7, EntryIsSome DEF Status
        <4> QED
          BY <1>5, <4>1, <4>4, <4>8
      <3> QED
        BY <2>2, <3>1, <3>2, <3>3, StepLeaves DEF Removing
    <2> QED
      BY <1>1, <2>1, <2>2, StepLeaves DEF AtId
  <1>2. IdKnown(Running)'
    <2>1. CASE AtId(x)
      BY <1>1, <2>1
    <2>2. CASE ~AtId(x)
      <3>1. ~AtId(Running)'
        BY <2>2 DEF AtId, IsRequest, TagAt
      <3> QED
        BY <3>1 DEF IdKnown
    <2> QED
      BY <2>1, <2>2
  <1>3. ASSUME x.pc = "set_requested" PROVE AddsRequest(Running)'
    <2>1. /\ UNCHANGED hash_to_n /\ Same(x, r)
          /\ \/ hash_to_n[h] = None /\ x.by = {r.author}
             \/ x.by = hash_to_n[h].by \cup {r.author}
      BY <1>3, StepLeaves, TagStepGoes, ResumesTo DEF db
    <2>2. x.event = r.event /\ x.tag = r.tag /\ x.author = r.author /\ Running' = x
      BY <2>1 DEF Same
    <2>4. TagAt(x).value.hash = h
      BY <2>2 DEF TagAt
    <2>3. /\ x.author \in x.by
          /\ hash_to_n'[h] # None => hash_to_n'[h].by \subseteq x.by
      BY <2>1, <2>2
    <2> HIDE DEF h, x
    <2> QED
      BY <2>2, <2>3, <2>4 DEF AddsRequest, TagAt
  <1>4. ASSUME x.pc = "set_have" PROVE Unasked(Running)'
    <2>1. /\ UNCHANGED hash_to_n /\ x.event = r.event /\ x.author = r.ref
          /\ hash_to_n[r.event.id] # None => hash_to_n[r.event.id].status = "Unknown"
          /\ hash_to_n[r.event.id] = None \/ r.ref \notin hash_to_n[r.event.id].by
      BY <1>4, StepLeaves, ClaimGoes DEF db, Idle
    <2> QED
      BY <2>1 DEF Unasked
  <1> QED
    BY <1>2, <1>3, <1>4 DEF AddsRequest, Unasked

\* The histories stay in step with the databases.
LEMMA StepHistory ==
    ASSUME IndexInv, TurnOK(Running), BookOK(Running), NEW p \in Procs, Step(p),
           Running = proc[p], Running' = proc'[p]
    PROVE  AcceptedKnown' /\ ExpiredGone(Running)'
  <1> DEFINE r == proc[p]
             x == proc'[p]
  <1>1. Stable /\ expired' = expired
    BY StepStable, StepBook
  <1>2. AcceptedKnown'
    <2>1. ASSUME NEW a \in accepted
          PROVE  hash_to_n'[a[1].id] # None /\ hash_to_n'[a[1].id].n = a[2]
      <3>1. a[1] \in Events /\ a[1].id \in Hashes
        BY EventHashes DEF IndexInv, Inv, TypeOK
      <3>2. Known(a[1].id, a[2])
        BY DEF BookOK, AcceptedKnown
      <3> QED
        BY <1>1, <3>1, <3>2, StillKnown
    <2>2. ASSUME r.pc = "insert_keys", UNCHANGED hash_to_n
          PROVE  hash_to_n'[r.event.id] # None /\ hash_to_n'[r.event.id].n = r.n
      <3>1. HasNumber(r)
        BY <2>2, Tracing DEF HasNumber, Removing
      <3>2. r.n \in Ns /\ hash_to_n[r.event.id] = Entry(r.n, "Have", {})
        BY <2>2, <3>1, Numbered DEF IndexInv, TurnOK, Claimed
      <3> QED
        BY <2>2, <3>2, EntryIsSome
    <2>3. ASSUME NEW a \in accepted'
          PROVE  hash_to_n'[a[1].id] # None /\ hash_to_n'[a[1].id].n = a[2]
      <3>1. CASE a \in accepted
        BY <2>1, <3>1
      <3>2. CASE a \notin accepted
        <4>1. a = <<r.event, r.n>> /\ r.pc = "insert_keys" /\ UNCHANGED hash_to_n
          BY <2>3, <3>2, StepBook
        <4> QED
          BY <2>2, <4>1
      <3> QED
        BY <3>1, <3>2
    <2> QED
      BY <2>3 DEF AcceptedKnown, Known
  <1>3. x.event # None => x.event \notin expired
    <2>1. x.event = None \/ x.event = r.event
      BY StepEvent
    <2> QED
      BY <2>1 DEF BookOK, ExpiredGone
  <1>4. ASSUME NEW n \in Ns, n_to_event'[n] # None, n_to_event'[n] \in expired
        PROVE  x.pc \in Removing /\ x.victim = n
    <2>1. CASE r.pc \in Removing
      <3>1. n_to_event'[n] = n_to_event[n] /\ n \in Stored
        BY <1>4, <2>1, StepStores DEF Stored, Removing
      <3>2. r.victim = n
        BY <1>4, <3>1 DEF BookOK, ExpiredGone
      <3>3. x.pc \in Removing /\ x.victim = r.victim
        BY <1>4, <2>1, <3>1, <3>2, StepRemoves DEF Stored
      <3> QED
        BY <3>2, <3>3
    <2>2. CASE r.pc \notin Removing
      <3>1. n_to_event[n] = None \/ n_to_event[n] \notin expired
        BY <2>2 DEF BookOK, ExpiredGone, Stored
      <3>2. n_to_event'[n] = r.event /\ HasNumber(r)
        BY <1>4, <2>2, <3>1, StepStores DEF Removing
      <3> QED
        BY <1>4, <3>2 DEF BookOK, ExpiredGone, HasNumber
    <2> QED
      BY <2>1, <2>2
  <1> QED
    BY <1>1, <1>2, <1>3, <1>4 DEF ExpiredGone, Stored

\* An operation that starts finds nothing out of step.
LEMMA StartBook ==
    ASSUME BookOK(Running), NEW x, Running = Idle, Running' = x,
           x.pc = "author" \/ (x.pc = "remove" /\ x.event = None),
           UNCHANGED <<hash_to_n, n_to_event, accepted>>
    PROVE  AcceptedKnown' /\ IdKnown(Running)' /\ AddsRequest(Running)' /\ Unasked(Running)'
  <1>1. AcceptedKnown'
    BY DEF BookOK, AcceptedKnown, Known
  <1> QED
    BY <1>1 DEF IdKnown, AtId, IsRequest, AddsRequest, Unasked, Removing

LEMMA BookInvariant == SeqSpec => []BookOK(Running)
  <1>1. SeqInit => BookOK(Running)
    <2> SUFFICES ASSUME SeqInit PROVE BookOK(Running)
      OBVIOUS
    <2>1. Running = Idle /\ Stored = {} /\ accepted = {} /\ expired = {}
      BY DEF SeqInit, Init, Busy, Running, Stored
    <2>2. Idle.pc = "idle" /\ Idle.event = None
      BY DEF Idle
    <2> QED
      BY <2>1, <2>2
         DEF BookOK, AcceptedKnown, ExpiredGone, IdKnown, AtId, IsRequest, AddsRequest, Unasked
  <1>2. TurnInv /\ BookOK(Running) /\ [SeqNext]_<<vars, view>> => BookOK(Running)'
    <2> SUFFICES ASSUME TurnInv, BookOK(Running), [SeqNext]_<<vars, view>>
                 PROVE  BookOK(Running)'
      OBVIOUS
    <2>1. ASSUME NEW p \in Procs, Step(p), Running = proc[p], Running' = proc'[p]
          PROVE  BookOK(Running)'
      <3>1. /\ IdKnown(Running)' /\ AddsRequest(Running)' /\ Unasked(Running)'
            /\ AcceptedKnown' /\ ExpiredGone(Running)'
        BY <2>1, StepTag, StepHistory DEF TurnInv
      <3> QED
        BY <3>1 DEF BookOK
    <2>2. ASSUME NEW e \in Events, StartsAdd(e) PROVE BookOK(Running)'
      <3>1. /\ UNCHANGED <<hash_to_n, n_to_event, accepted, expired>>
            /\ Running = Idle /\ Running'.pc = "author" /\ Running'.event = e /\ e \notin expired
        BY <2>2 DEF StartsAdd, db, book
      <3>2. ExpiredGone(Running)'
        BY <3>1 DEF ExpiredGone, BookOK, Stored, Idle, Removing
      <3> QED
        BY <3>1, <3>2, StartBook DEF BookOK
    <2>3. ASSUME NEW e \in Events, NEW n \in Ns, StartsExpire(e, n)
          PROVE  BookOK(Running)'
      <3>1. /\ UNCHANGED <<hash_to_n, n_to_event, accepted>> /\ expired' = expired \cup {e}
            /\ Running = Idle /\ Running'.pc = "remove" /\ Running'.victim = n
            /\ Running'.event = None
        BY <2>3 DEF StartsExpire, db
      <3>2. \A m \in Stored : n_to_event[m] \in expired' => m = n
        <4> SUFFICES ASSUME NEW m \in Stored, n_to_event[m] \in expired' PROVE m = n
          OBVIOUS
        <4>1. n_to_event[m] = e
          BY <3>1 DEF BookOK, ExpiredGone, Idle, Removing
        <4>2. Known(e.id, n)
          BY <2>3 DEF StartsExpire, BookOK, AcceptedKnown, TurnInv, IndexInv, Inv, TypeOK
        <4>3. hash_to_n[e.id] = Entry(m, "Have", {}) /\ m \in Ns
          BY <3>1, <4>1 DEF TurnInv, TurnOK, StoredHave, Leaving, Idle, Stored
        <4> QED
          BY <4>2, <4>3, EntryIsSome DEF Known, Status
      <3>3. ExpiredGone(Running)'
        BY <3>1, <3>2 DEF ExpiredGone, Stored, Removing
      <3> QED
        BY <3>1, <3>3, StartBook DEF BookOK
    <2>4. CASE SeqNext
      BY <2>1, <2>2, <2>3, <2>4, TurnStep DEF TurnInv, IndexInv
    <2>5. CASE UNCHANGED vars
      <3>1. /\ UNCHANGED <<hash_to_n, n_to_event, accepted, expired>> /\ Running' = Running
            /\ Stored' = Stored
        BY <2>5 DEF vars, db, book, Busy, Running, Stored
      <3>2. AcceptedKnown' /\ ExpiredGone(Running)'
        BY <3>1 DEF BookOK, AcceptedKnown, Known, ExpiredGone
      <3>3. IdKnown(Running)'
        BY <3>1 DEF BookOK, IdKnown, AtId, IsRequest, TagAt, Known
      <3>4. AddsRequest(Running)' /\ Unasked(Running)'
        BY <3>1 DEF BookOK, AddsRequest, TagAt, Unasked
      <3> QED
        BY <3>2, <3>3, <3>4 DEF BookOK
    <2> QED
      BY <2>4, <2>5
  <1> QED
    BY <1>1, <1>2, TurnInvariant, PTL DEF SeqSpec

\* An operation that starts leaves everything that is asked for as it is.
LEMMA StartHonours ==
    ASSUME Honoured(Running), NEW x, Running = Idle, Running' = x,
           x.pc = "author" \/ (x.pc = "remove" /\ x.event = None),
           UNCHANGED <<hash_to_n, n_to_event, accepted>>, expired \subseteq expired'
    PROVE  Honoured(Running)'
  <1> SUFFICES ASSUME NEW e \in Events, Asked(Running, e)' PROVE Out(Running, e)'
    BY DEF Honoured
  <1>1. ~Asking(Running, e)'
    BY DEF Asking, IsRequest, Done
  <1>2. Out(Running, e)
    BY <1>1 DEF Asked, Honoured
  <1>3. ~BeingAdded(Running, e)'
    BY DEF BeingAdded, HasNumber
  <1> QED
    BY <1>2, <1>3 DEF Out, Refused

LEMMA RequestsInvariant == ASSUME NamesOthers PROVE SeqSpec => []Honoured(Running)
  <1>1. SeqInit => Honoured(Running)
    <2> SUFFICES ASSUME SeqInit PROVE Honoured(Running)
      OBVIOUS
    <2>1. Running = Idle /\ accepted = {}
      BY DEF SeqInit, Init, Busy, Running
    <2>2. Idle.event = None
      BY DEF Idle
    <2> QED
      BY <2>1, <2>2 DEF Honoured, Asked, Asking, IsRequest
  <1>2. TurnInv /\ NumberKnown(Running) /\ BookOK(Running) /\ Honoured(Running)
            /\ [SeqNext]_<<vars, view>> => Honoured(Running)'
    <2> SUFFICES ASSUME TurnInv, NumberKnown(Running), BookOK(Running), Honoured(Running),
                        [SeqNext]_<<vars, view>>
                 PROVE  Honoured(Running)'
      OBVIOUS
    <2>1. ASSUME NEW p \in Procs, Step(p), Running = proc[p], Running' = proc'[p]
          PROVE  Honoured(Running)'
      BY <2>1, StepHonoured DEF TurnInv, RequestsOK
    <2>2. ASSUME NEW e \in Events, StartsAdd(e) PROVE Honoured(Running)'
      BY <2>2, StartHonours DEF StartsAdd, db, book
    <2>3. ASSUME NEW e \in Events, NEW n \in Ns, StartsExpire(e, n)
          PROVE  Honoured(Running)'
      BY <2>3, StartHonours DEF StartsExpire, db
    <2>4. CASE SeqNext
      BY <2>1, <2>2, <2>3, <2>4, TurnStep DEF TurnInv, IndexInv
    <2>5. CASE UNCHANGED vars
      <3>1. UNCHANGED <<hash_to_n, n_to_event, accepted, expired>> /\ Running' = Running
        BY <2>5 DEF vars, db, book, Busy, Running
      <3>2. \A e : (Asked(Running, e)' <=> Asked(Running, e)) /\ (Out(Running, e)' <=> Out(Running, e))
        BY <3>1 DEF Asked, Asking, IsRequest, Done, Out, Refused, BeingAdded, HasNumber
      <3> QED
        BY <3>1, <3>2 DEF Honoured
    <2> QED
      BY <2>4, <2>5
  <1> QED
    BY <1>1, <1>2, TurnInvariant, NumbersInvariant, BookInvariant, PTL DEF SeqSpec

\* With one operation at a time, an event that an accepted deletion request of its
\* author names is not stored, and is never stored again: the status in its entry
\* outlives it, a request for an id nothing is known of is remembered in the entry, and
\* an event that expires is not accepted once more.
THEOREM DeletionsHonoured == ASSUME NamesOthers PROVE SeqSpec => []DeletionHonoured
  <1>1. TurnInv /\ BookOK(Running) /\ Honoured(Running) => DeletionHonoured
    <2> SUFFICES ASSUME TurnInv, BookOK(Running), Honoured(Running), Quiet,
                        NEW a \in accepted, NEW n \in Stored, Names(a[1], n_to_event[n])
                 PROVE  FALSE
      BY DEF DeletionHonoured
    <2> DEFINE e == n_to_event[n]
    <2>1. StoredHave(Running) /\ Running.pc = "idle"
      BY QuietTurn
    <2>2. e \in Events /\ n \in Ns /\ e # None
      BY StoredIds DEF TurnInv, Stored
    <2>3. hash_to_n[e.id] = Entry(n, "Have", {})
      BY <2>1 DEF StoredHave, Leaving
    <2>4. e \notin expired
      BY <2>1 DEF BookOK, ExpiredGone, Removing
    <2>5. /\ hash_to_n[e.id].status = "Have" /\ hash_to_n[e.id].n = n
      BY <2>2, <2>3, EntryIsSome
    <2>6. Out(Running, e)
      BY <2>2 DEF Honoured, Asked
    <2> QED
      BY <2>2, <2>4, <2>5, <2>6 DEF Out, Refused
  <1> QED
    BY <1>1, TurnInvariant, BookInvariant, RequestsInvariant, PTL
-------------------------------------------------------------------------------
(* What is lost, and for what.                                               *)

\* The event being added will be accepted, whatever the other databases hold.
Certain(r) ==
    /\ r.event # None
    /\ \/ r.pc \in Removing \cup {"insert", "insert_keys", "insert_key"}
       \/ IsRequest(r) /\ HasNumber(r) /\ r.pc \notin {"set_have", "set_deleted"}

\* The events that may be the reason that another one is lost.
Reasons(r) == {a[1] : a \in accepted} \cup {e \in Events : Certain(r) /\ r.event = e}

Outdoes(b, e) == (SameSlot(b, e) /\ Beats(b, e)) \/ NamesAddress(b, e)

StatusIs(e, status) == hash_to_n[e.id] # None /\ hash_to_n[e.id].status = status

\* An event is gone for a reason that its entry states.
Excused(r, e) ==
    \/ e \in expired
    \/ StatusIs(e, "Deleted") /\ \E b \in Reasons(r) : Names(b, e)
    \/ StatusIs(e, "Outdated") /\ \E b \in Reasons(r) : Outdoes(b, e)

LossOK(r) ==
    \A a \in accepted : (n_to_event[a[2]] = a[1] /\ ~Leaving(r, a[2])) \/ Excused(r, a[1])

\* There is a reason to remove what is being removed, and its status is the one to write.
Justified(r) ==
    r.pc \in Removing /\ r.victim \in Stored =>
        LET e == n_to_event[r.victim] IN
        \/ e \in expired /\ r.status = "Unknown"
        \/ r.event # None /\ r.status = "Deleted" /\ Names(r.event, e)
        \/ r.event # None /\ r.status = "Outdated" /\ Outdoes(r.event, e)

\* What is added was not accepted before.
Anew(r) == r.pc \in {"set_have", "set_deleted"} => \A a \in accepted : a[1] # r.event

\* An event that searches has versions.
Slotted(r) ==
    r.pc \in Searching \cup {"slot_author"} /\ ~IsRequest(r) =>
        \/ IsReplaceable(r.event.kind)
        \/ IsAddressable(r.event.kind) /\ FirstDValue(r.event) # None

\* What a search has found is of the kind it is for, and as old as its Time says.
FoundKind(r) ==
    r.pc = "scan" =>
        \A t \in r.cand : t[2] \in Stored =>
            n_to_event[t[2]].kind = Goal(r).kind /\ n_to_event[t[2]].created_at = t[1]

\* The event is being added, stored, deleted, expired, or its address was deleted.
Standing(r, e) ==
    \/ Certain(r) /\ r.event = e
    \/ \E n \in Stored : n_to_event[n] = e /\ ~Leaving(r, n)
    \/ StatusIs(e, "Deleted") \/ StatusIs(e, "Unknown")
    \/ \E b \in Reasons(r) : NamesAddress(b, e)

\* Of an event or a version that beats it, something is to be seen still.
Survived(r, e) ==
    \E b \in Reasons(r) : (b = e \/ (SameSlot(b, e) /\ Beats(b, e))) /\ Standing(r, b)

LossesOK(r) ==
    /\ LossOK(r) /\ Justified(r) /\ Anew(r) /\ Slotted(r) /\ FoundKind(r)
    /\ \A a \in accepted : Survived(r, a[1])

\* An event that will be accepted is, after some more steps of its operation.
LEMMA StepCertain ==
    ASSUME IndexInv, TurnOK(Running), NEW p \in Procs, Step(p),
           Running = proc[p], Running' = proc'[p], Certain(proc[p])
    PROVE  InsertTime(p) \/ (Certain(proc'[p]) /\ proc'[p].event = proc[p].event)
  <1> DEFINE r == proc[p]
             x == proc'[p]
  <1>1. ASSUME Resumes(x, r) PROVE Certain(x) /\ x.event = r.event
    BY <1>1 DEF Certain, Resumes, IsRequest, HasNumber
  <1>2. ASSUME Same(x, r),
               \/ x.pc \in Removing \cup {"insert", "insert_keys", "insert_key"}
               \/ x.pc \in Searching \cup {"slot_author", "set_requested", "check_author"}
                  /\ r.pc \notin Removing \cup {"insert", "insert_keys", "insert_key"}
        PROVE  Certain(x) /\ x.event = r.event
    BY <1>2 DEF Certain, Same, IsRequest, HasNumber, Searching
  <1>3. GetAuthor(p) \/ Claim(p) \/ SetDeleted(p) \/ SetHave(p) => FALSE
    BY GetAuthorGoes, ClaimGoes, SetDeletedGoes, SetHaveGoes DEF Certain, Removing, HasNumber
  <1>4. CASE SlotAuthor(p)
    BY <1>2, <1>4, SlotAuthorGoes DEF Removing, Searching
  <1>5. CASE SearchTag(p) \/ SearchAuthor(p) \/ SearchKind(p)
    BY <1>1, <1>2, <1>5, SearchTagGoes, SearchAuthorGoes, SearchKindGoes DEF Removing, Searching
  <1>6. CASE Scan(p)
    <2>1. r.event.kind = EVENT_DELETION
      BY <1>6, ScanGoes DEF Certain, IsRequest, Removing
    <2>2. \/ Resumes(x, r)
          \/ Same(x, r) /\ x.pc \in {"scan", "remove"}
      BY <1>6, <2>1, ScanGoes
    <2> QED
      BY <1>1, <1>2, <1>6, <2>2, ScanGoes DEF Removing, Searching
  <1>7. CASE TagStep(p)
    <2>1. r.pc = "tags" /\ (x.event = r.event \/ Resumes(x, r))
      BY <1>7, TagStepGoes DEF Same
    <2>2. \/ Resumes(x, r)
          \/ x.pc = "insert" /\ x.event = r.event
          \/ Same(x, r) /\ x.pc \in {"set_requested", "check_author", "slot_author"}
      BY <1>7, TagStepGoes
    <2> QED
      BY <1>1, <1>2, <2>1, <2>2 DEF Removing, Certain
  <1>8. CASE SetRequested(p) \/ CheckAuthor(p)
    BY <1>1, <1>2, <1>8, SetRequestedGoes, CheckAuthorGoes DEF Removing
  <1>9. CASE Remove(p) \/ RemoveStatus(p) \/ RemoveKey(p) \/ RemoveTime(p) \/ RemoveEvent(p)
    BY <1>1, <1>2, <1>9, RemoveGoes, RemoveStatusGoes, RemoveKeysGoes, RemoveEventGoes DEF Removing
  <1>10. CASE Insert(p) \/ InsertRef(p) \/ InsertKey(p)
    BY <1>2, <1>10, InsertGoes, InsertRefGoes, InsertKeyGoes
  <1> QED
    BY <1>3, <1>4, <1>5, <1>6, <1>7, <1>8, <1>9, <1>10 DEF Step

\* What is a reason remains one.
LEMMA StepReasons ==
    ASSUME IndexInv, TurnOK(Running), NEW p \in Procs, Step(p),
           Running = proc[p], Running' = proc'[p]
    PROVE  /\ Reasons(Running) \subseteq Reasons(Running)' /\ Reasons(Running) \subseteq Events
           /\ Certain(Running) => Running.event \in Reasons(Running)
  <1> DEFINE r == proc[p]
             x == proc'[p]
  <1>1. Reasons(Running) \subseteq Events
    BY DEF Reasons, IndexInv, Inv, TypeOK
  <1>2. Certain(r) => r.event \in Events
    BY Tracing DEF Certain, Registers
  <1>3. ASSUME NEW a \in accepted PROVE a[1] \in Reasons(Running)'
    <2>1. a \in accepted'
      BY <1>3, StepBook
    <2> QED
      BY <2>1 DEF Reasons
  <1>4. ASSUME Certain(r) PROVE r.event \in Reasons(Running)'
    <2>1. CASE InsertTime(p)
      <3>1. <<r.event, r.n>> \in accepted' /\ <<r.event, r.n>>[1] = r.event
        BY <2>1, InsertTimeGoes
      <3> QED
        BY <3>1 DEF Reasons
    <2>2. CASE Certain(x) /\ x.event = r.event
      <3>1. Certain(Running)'
        BY <2>2 DEF Certain, IsRequest, HasNumber
      <3> QED
        BY <1>2, <1>4, <2>2, <3>1 DEF Reasons
    <2> QED
      BY <1>4, <2>1, <2>2, StepCertain
  <1>5. Reasons(Running) \subseteq Reasons(Running)'
    <2> SUFFICES ASSUME NEW b \in Reasons(Running) PROVE b \in Reasons(Running)'
      OBVIOUS
    <2>1. (\E a \in accepted : b = a[1]) \/ (Certain(r) /\ r.event = b)
      BY DEF Reasons
    <2> QED
      BY <1>3, <1>4, <2>1
  <1> QED
    BY <1>1, <1>2, <1>5 DEF Reasons

\* An event is on its way out when its status has been written.
LEMMA StepLeaving ==
    ASSUME IndexInv, TurnOK(Running), NEW p \in Procs, Step(p), NEW n,
           Running = proc[p], Running' = proc'[p], Leaving(proc'[p], n)
    PROVE  Leaving(proc[p], n) \/ (RemoveStatus(p) /\ n = proc[p].victim)
  <1>1. RemoveStatus(p) \/ RemoveKey(p) \/ RemoveTime(p)
    BY StepLeaves DEF Leaving
  <1> QED
    BY <1>1, RemoveStatusGoes, RemoveKeysGoes DEF Leaving

\* What the registers say of a search, and of what it has found.
LEMMA StepSearch ==
    ASSUME IndexInv, TurnOK(Running), VersionsOK(Running), NEW p \in Procs, Step(p),
           Running = proc[p], Running' = proc'[p], Slotted(proc[p]), FoundKind(proc[p])
    PROVE  Slotted(proc'[p]) /\ FoundKind(Running)'
  <1> DEFINE r == proc[p]
             x == proc'[p]
             goal == Goal(r)
  <1>1. Slotted(x)
    <2>1. CASE SetHave(p)
      <3>1. /\ x.event = r.event /\ r.event \in Events /\ r.event # None
            /\ \/ IsReplaceable(r.event.kind)
               \/ IsAddressable(r.event.kind) /\ FirstDValue(r.event) # None
               \/ x.pc \in {"tags", "insert"}
        BY <2>1, SetHaveGoes, Tracing DEF Removing
      <3> QED
        BY <3>1 DEF Slotted, Searching
    <2>2. CASE SlotAuthor(p) \/ SearchTag(p) \/ SearchAuthor(p) \/ SearchKind(p) \/ Scan(p)
      <3>1. r.pc \in Searching \cup {"slot_author"}
        BY <2>2, SlotAuthorGoes, SearchTagGoes, SearchAuthorGoes, SearchKindGoes, ScanGoes
           DEF Searching
      <3>2. Same(x, r) \/ x.pc \in {"idle", "tags", "insert"} \/ x.event = r.event
        <4>1. Same(x, r) \/ Resumes(x, r) \/ x = Idle
          BY <2>2, SlotAuthorGoes, SearchTagGoes, SearchAuthorGoes, SearchKindGoes, ScanGoes
        <4> QED
          BY <4>1, ResumesTo DEF Idle
      <3> QED
        BY <3>1, <3>2 DEF Slotted, Searching, IsRequest, Same
    <2>3. CASE TagStep(p)
      <3>1. r.pc = "tags" /\ r.event.kind = EVENT_DELETION /\ r.event # None
        BY <2>3, TagStepGoes, Tracing DEF Removing, VersionsOK, Routed
      <3>2. x.event = r.event
        BY <2>3, <3>1, TagStepGoes DEF Same, Resumes
      <3> QED
        BY <3>1, <3>2 DEF Slotted, IsRequest
    <2>4. CASE x.pc \in Searching \cup {"slot_author"}
      BY <2>1, <2>2, <2>3, <2>4, StepLeaves DEF Searching
    <2> QED
      BY <2>4 DEF Slotted
  <1> SUFFICES FoundKind(Running)'
    BY <1>1
  <1>2. CASE SearchKind(p)
    <2>1. /\ x.cand = r.cand \cap Hits(Kind(goal.kind)) /\ Goal(x) = goal /\ UNCHANGED n_to_event
      BY <1>2, SearchKindGoes, SameGoal DEF Same, db
    <2>2. ASSUME NEW t \in x.cand, t[2] \in Stored
          PROVE  n_to_event[t[2]].kind = goal.kind /\ n_to_event[t[2]].created_at = t[1]
      <3> DEFINE c == Kind(goal.kind)
                 f == n_to_event[t[2]]
      <3>1. CompactNow(c) = c /\ IsPlain(c) /\ c[1] = "kind" /\ c[2].kind = goal.kind
        BY DEF CompactNow, Compact, IsPlain, IsCondition, HasHash, Kind, NUL, SOH
      <3>2. <<c, t>> \in conditions
        BY <2>1, <2>2 DEF Hits
      <3> HIDE DEF c
      <3>3. c \in Range(Conditions(f)) /\ f \in Events /\ f.created_at = t[1]
        BY <2>2, <3>1, <3>2, FoundMeets, StoredIds DEF Stored
      <3>4. c = Kind(f.kind) /\ Kind(f.kind)[2].kind = f.kind
        BY <3>1, <3>3, IndexedAssumption DEF Kind
      <3> QED
        BY <3>1, <3>3, <3>4
    <2> HIDE DEF x, goal
    <2>3. Goal(Running') = goal /\ Running'.cand = x.cand
      BY <2>1 DEF x, Goal
    <2> QED
      BY <2>1, <2>2, <2>3 DEF FoundKind, Stored
  <1>3. CASE Scan(p) /\ x.pc = "scan"
    <2>1. r.pc = "scan" /\ Same(x, r) /\ x.cand \subseteq r.cand /\ UNCHANGED n_to_event
      BY <1>3, ScanGoes, ResumesTo DEF db, Idle
    <2>2. Goal(x) = goal
      BY <2>1, SameGoal DEF Same
    <2> HIDE DEF x, goal
    <2>3. Goal(Running') = goal /\ Running'.cand = x.cand
      BY <2>2 DEF x, Goal
    <2> QED
      BY <2>1, <2>3 DEF FoundKind, Stored, goal
  <1>4. CASE x.pc = "scan"
    BY <1>2, <1>3, <1>4, StepLeaves
  <1> QED
    BY <1>4 DEF FoundKind

\* What a search removes is beaten by the event being added, or the request names its
\* address.
LEMMA ScanRemoves ==
    ASSUME IndexInv, TurnOK(Running), NEW p \in Procs, Scan(p), Running = proc[p],
           Slotted(proc[p]), FoundKind(proc[p]), proc'[p].pc = "remove",
           proc'[p].victim \in Stored
    PROVE  Outdoes(proc[p].event, n_to_event[proc'[p].victim])
  <1> DEFINE r == proc[p]
             e == r.event
             goal == Goal(r)
  <1>1. /\ r.pc = "scan" /\ e \in Events /\ e # None /\ AtAddress(r)
        /\ \A t \in r.cand : ByAuthor(t[2], goal.pubkey, owner)
    BY ScanGoes, Tracing DEF Traced, Searching, Removing
  <1>2. PICK t \in r.cand : /\ IsVersion(n_to_event[t[2]], goal.d)
                            /\ ~HaveNewer(t, n_to_event[t[2]], e) /\ proc'[p].victim = t[2]
    BY ScanGoes, ResumesTo DEF Idle
  <1> DEFINE v == n_to_event[t[2]]
  <1>3. /\ v \in Events /\ v # None /\ t[2] \in Ns /\ owner[t[2]] = v.id
        /\ v.kind = goal.kind /\ v.created_at = t[1]
    BY <1>1, <1>2, StoredIds, EventHashes DEF FoundKind, IndexInv, Inv, NumbersOwned, Stored
  <1>4. v.pubkey = goal.pubkey
    <2>1. PICK f \in Events : owner[t[2]] = f.id /\ f.pubkey = goal.pubkey
      BY <1>1 DEF ByAuthor, Owns
    <2> QED
      BY <1>3, <2>1, SameEvent
  <1>5. goal.d # None => FirstDValue(v) = goal.d
    BY <1>2 DEF IsVersion
  <1>6. CASE e.kind = EVENT_DELETION
    <2>1. /\ r.tag \in DOMAIN e.tags /\ e.tags[r.tag].name = "a"
          /\ e.tags[r.tag].value = goal /\ goal # None /\ goal.type = "address"
      BY <1>1, <1>6 DEF AtAddress, TagAt, Goal
    <2>2. goal = Address(goal.kind, goal.pubkey, goal.d) /\ goal.d # None
      BY <1>1, <2>1, ValuesAssumption
    <2> HIDE DEF goal, v
    <2>3. e.tags[r.tag].value = Address(v.kind, v.pubkey, FirstDValue(v))
      BY <1>3, <1>4, <1>5, <2>1, <2>2
    <2> QED
      BY <1>2, <1>6, <2>1, <2>3 DEF Outdoes, NamesAddress, v
  <1>7. CASE e.kind # EVENT_DELETION
    <2>1. SameSlot(e, v)
      <3>1. /\ goal.pubkey = e.pubkey /\ goal.kind = e.kind
            /\ goal.d = IF IsAddressable(e.kind) THEN FirstDValue(e) ELSE None
        BY <1>7 DEF Goal, Address
      <3>2. \/ IsReplaceable(e.kind)
            \/ IsAddressable(e.kind) /\ FirstDValue(e) # None
        BY <1>1, <1>7 DEF Slotted, Searching, IsRequest
      <3> QED
        BY <1>3, <1>4, <1>5, <3>1, <3>2 DEF SameSlot
    <2>2. v.id # e.id
      <3>1. HasNumber(r)
        BY <1>1 DEF HasNumber
      <3>2. hash_to_n[e.id] = Entry(r.n, "Have", {}) /\ n_to_event[r.n] = None /\ r.n \in Ns
        BY <1>1, <3>1, Numbered DEF TurnOK, Claimed, Entering, IndexInv
      <3>3. hash_to_n[v.id] = Entry(t[2], "Have", {})
        BY <1>1, <1>2, <1>3 DEF TurnOK, StoredHave, Leaving, Stored
      <3> QED
        BY <1>3, <3>2, <3>3, EntryIsSome DEF Status
    <2>3. /\ e.created_at \in Nat /\ v.created_at \in Nat /\ e.id \in Nat /\ v.id \in Nat
      BY <1>1, <1>3, EventHashes, DbAssumption
    <2>4. ~(v.created_at > e.created_at) /\ ~(v.created_at = e.created_at /\ v.id > e.id)
      BY <1>2, <1>3, <1>7 DEF HaveNewer
    <2> HIDE DEF e, v
    <2>5. Beats(e, v)
      BY <2>2, <2>3, <2>4 DEF Beats
    <2> QED
      BY <1>2, <2>1, <2>5 DEF Outdoes, e, v
  <1> QED
    BY <1>6, <1>7

\* What is removed is removed for a reason.
LEMMA StepJustified ==
    ASSUME IndexInv, TurnOK(Running), VersionsOK(Running), BookOK(Running),
           NEW p \in Procs, Step(p), Running = proc[p], Running' = proc'[p],
           Slotted(proc[p]), FoundKind(proc[p]), Justified(proc[p])
    PROVE  Justified(Running)'
  <1> DEFINE r == proc[p]
             x == proc'[p]
             By(y, e) == \/ e \in expired /\ y.status = "Unknown"
                         \/ y.event # None /\ y.status = "Deleted" /\ Names(y.event, e)
                         \/ y.event # None /\ y.status = "Outdated" /\ Outdoes(y.event, e)
  <1>1. expired' = expired
    BY StepBook
  <1>2. ASSUME UNCHANGED n_to_event, x.victim \in Stored => By(x, n_to_event[x.victim])
        PROVE  Justified(Running)'
    BY <1>1, <1>2 DEF Justified, Stored
  <1>3. CASE Scan(p) /\ x.pc = "remove"
    <2>1. x.event = r.event /\ r.event # None /\ x.status = "Outdated" /\ UNCHANGED n_to_event
      BY <1>3, ScanGoes, ResumesTo, Tracing DEF Idle, Same, db, Removing
    <2> QED
      BY <1>2, <1>3, <2>1, ScanRemoves
  <1>4. CASE CheckAuthor(p) /\ x.pc = "remove"
    <2>1. /\ x.event = r.event /\ x.status = "Deleted" /\ UNCHANGED n_to_event
          /\ x.victim = r.victim /\ r.pc = "check_author"
          /\ n_to_event[r.victim].pubkey = r.event.pubkey
      BY <1>4, CheckAuthorGoes, ResumesTo DEF Same, db
    <2>2. r.event # None /\ r.event \in Events /\ r.event.kind = EVENT_DELETION
      BY <2>1, Tracing DEF Removing, VersionsOK, Routed
    <2>3. ASSUME r.victim \in Stored PROVE Names(r.event, n_to_event[r.victim])
      <3> DEFINE v == n_to_event[r.victim]
                 value == TagAt(r).value
      <3>1. /\ r.tag \in DOMAIN r.event.tags /\ TagAt(r).name = "e"
            /\ value # None /\ value.type = "hex32" /\ Known(value.hash, r.victim)
        BY <2>1, <2>2 DEF BookOK, IdKnown, AtId, IsRequest
      <3>5. value = r.event.tags[r.tag].value /\ r.event.tags[r.tag].name = "e"
        BY <3>1 DEF TagAt
      <3>2. value = Hex32(value.hash) /\ value.hash \in Hashes
        BY ONLY <2>2, <3>1, <3>5, TagHex
      <3>3. owner[r.victim] = value.hash
        BY <3>1, <3>2, KnownOwner
      <3>4. v.id = value.hash
        BY <2>3, <3>3 DEF IndexInv, Inv, NumbersOwned, Stored
      <3> QED
        <4>1. r.event.tags[r.tag].value = Hex32(v.id) /\ v.pubkey = r.event.pubkey
          BY <2>1, <3>2, <3>4, <3>5
        <4> HIDE DEF v, value
        <4> QED
          BY <2>2, <3>1, <3>5, <4>1 DEF Names, v
    <2> QED
      BY <1>2, <2>1, <2>2, <2>3
  <1>5. CASE Remove(p) /\ x.pc = "remove_status"
    <2>1. r.pc \in Removing /\ Same(x, r) /\ x.victim = r.victim /\ x.status = r.status
          /\ UNCHANGED n_to_event
      BY <1>5, RemoveGoes, ResumesTo DEF Removing, db
    <2> QED
      BY <1>2, <2>1 DEF Justified, Same
  <1>6. CASE RemoveStatus(p) \/ RemoveKey(p) \/ RemoveTime(p)
    <2>1. r.pc \in Removing /\ Same(x, r) /\ x.victim = r.victim /\ x.status = r.status
          /\ UNCHANGED n_to_event
      BY <1>6, RemoveStatusGoes, RemoveKeysGoes DEF Removing
    <2> QED
      BY <1>2, <2>1 DEF Justified, Same
  <1>7. CASE x.pc \in Removing
    BY <1>3, <1>4, <1>5, <1>6, <1>7, StepLeaves DEF Removing
  <1> QED
    BY <1>7 DEF Justified

\* What gets the status of a new event was not accepted before.
LEMMA StepAnew ==
    ASSUME IndexInv, TurnOK(Running), BookOK(Running), LossOK(Running),
           NEW p \in Procs, Step(p), Running = proc[p], Running' = proc'[p]
    PROVE  Anew(Running)'
  <1> DEFINE r == proc[p]
             x == proc'[p]
  <1>1. ASSUME x.pc \in {"set_have", "set_deleted"}, NEW a \in accepted, a[1] = r.event
        PROVE  FALSE
    <2>1. r.pc = "claim" /\ (hash_to_n[r.event.id] # None => hash_to_n[r.event.id].status = "Unknown")
      BY <1>1, StepLeaves, ClaimGoes DEF Idle
    <2>2. hash_to_n[a[1].id] # None /\ hash_to_n[a[1].id].status = "Unknown"
      BY <1>1, <2>1 DEF BookOK, AcceptedKnown, Known
    <2>3. a[1] \in Events /\ a[2] \in Ns /\ a[1] \notin expired /\ a[1] # None
      <3>1. a[1] \in Events /\ a[2] \in Ns
        BY DEF IndexInv, Inv, TypeOK
      <3> QED
        BY <1>1, <3>1, EventHashes DEF BookOK, ExpiredGone
    <2>4. CASE n_to_event[a[2]] = a[1]
      <3>1. hash_to_n[a[1].id] = Entry(a[2], "Have", {})
        BY <2>1, <2>3, <2>4 DEF TurnOK, StoredHave, Leaving, Stored
      <3> QED
        BY <2>2, <3>1, EntryIsSome
    <2>5. CASE Excused(Running, a[1])
      BY <2>2, <2>3, <2>5 DEF Excused, StatusIs
    <2> QED
      BY <2>4, <2>5 DEF LossOK
  <1>2. ASSUME x.pc \in {"set_have", "set_deleted"}
        PROVE  x.event = r.event /\ UNCHANGED accepted
    BY <1>2, StepLeaves, ClaimGoes DEF Idle, book
  <1> QED
    BY <1>1, <1>2 DEF Anew

\* A status that says why an event is gone is not written over.
LEMMA StepStatus ==
    ASSUME IndexInv, TurnOK(Running), Anew(Running), NEW p \in Procs, Step(p),
           Running = proc[p], Running' = proc'[p], NEW e \in Reasons(Running),
           NEW status \in {"Deleted", "Outdated", "Unknown"}, StatusIs(e, status)
    PROVE  StatusIs(e, status)'
  <1> DEFINE r == proc[p]
  <1>1. e \in Events /\ e.id \in Hashes
    BY StepReasons, EventHashes
  <1>2. hash_to_n[e.id] # None /\ hash_to_n[e.id].status = status
    BY DEF StatusIs
  <1>3. CASE hash_to_n'[e.id] = hash_to_n[e.id]
    BY <1>2, <1>3 DEF StatusIs
  <1>4. CASE r.pc \in {"set_deleted", "set_have"} /\ e.id = r.event.id
    <2>1. r.event = e
      BY <1>1, <1>4, Tracing, SameEvent DEF Removing
    <2> QED
      BY <1>4, <2>1 DEF Reasons, Anew, Certain, Removing
  <1>5. CASE /\ r.pc = "set_requested" /\ e.id = TagAt(r).value.hash
             /\ hash_to_n'[e.id] = Entry(r.victim, "Unknown", r.by)
    <2>1. status = "Unknown"
      BY <1>2, <1>5 DEF TurnOK, Named
    <2>2. r.victim \in Ns /\ r.by \in SUBSET Ns
      BY <1>5, Tracing DEF RegisterOK, Registers
    <2> QED
      BY <1>5, <2>1, <2>2, EntryIsSome DEF Status, StatusIs
  <1>6. CASE r.pc = "remove_status" /\ e.id = r.removed.id
    <2>1. /\ r.victim \in Stored /\ n_to_event[r.victim] = r.removed
      BY <1>6, VictimStored DEF HasRemoved
    <2>2. hash_to_n[e.id] = Entry(r.victim, "Have", {})
      BY <1>6, <2>1 DEF TurnOK, StoredHave, Leaving
    <2> QED
      BY <1>2, <2>2, EntryIsSome
  <1> QED
    BY <1>1, <1>2, <1>3, <1>4, <1>5, <1>6, StepEntry

\* A stored event stays, or its entry gets the status that says why it goes.
LEMMA StepStored ==
    ASSUME IndexInv, TurnOK(Running), Justified(Running), NEW p \in Procs, Step(p),
           Running = proc[p], Running' = proc'[p],
           NEW n \in Ns, NEW e \in Events, n_to_event[n] = e, ~Leaving(Running, n)
    PROVE  \/ n_to_event'[n] = e /\ ~Leaving(Running, n)'
           \/ e \in expired /\ StatusIs(e, "Unknown")'
           \/ /\ Certain(Running) /\ Certain(Running)' /\ Running'.event = Running.event
              /\ \/ Names(Running.event, e) /\ StatusIs(e, "Deleted")'
                 \/ Outdoes(Running.event, e) /\ StatusIs(e, "Outdated")'
  <1> DEFINE r == proc[p]
             x == proc'[p]
  <1>1. n \in Stored /\ e # None
    BY EventHashes DEF Stored
  <1>2. n_to_event'[n] = e
    <2>1. CASE r.pc = "remove_event" /\ r.victim = n
      BY <2>1 DEF Leaving
    <2>2. CASE r.pc = "insert" /\ HasNumber(r) /\ r.n = n
      BY <1>1, <2>2 DEF TurnOK, Claimed, Entering
    <2> QED
      BY <2>1, <2>2, StepStores
  <1>3. CASE ~Leaving(x, n)
    BY <1>2, <1>3 DEF Leaving
  <1>4. CASE RemoveStatus(p) /\ n = r.victim
    <2>1. /\ r.pc = "remove_status" /\ Same(x, r) /\ x.pc = "remove_keys"
          /\ SetEntry(r.removed.id, Entry(r.victim, r.status, {}))
      BY <1>4, RemoveStatusGoes
    <2>2. r.removed = e /\ e.id \in Hashes /\ r \in Registers
      BY <1>4, <2>1, VictimStored, Tracing DEF HasRemoved
    <2>3. hash_to_n'[e.id] = Entry(n, r.status, {})
      BY <1>4, <2>1, <2>2 DEF SetEntry, IndexInv, Inv, TypeOK
    <2>4. hash_to_n'[e.id] # None /\ hash_to_n'[e.id].status = r.status
      BY <2>2, <2>3, EntryIsSome DEF Registers
    <2>5. StatusIs(e, "Unknown")' <=> r.status = "Unknown"
      BY <2>4 DEF StatusIs
    <2>6. StatusIs(e, "Deleted")' <=> r.status = "Deleted"
      BY <2>4 DEF StatusIs
    <2>7. StatusIs(e, "Outdated")' <=> r.status = "Outdated"
      BY <2>4 DEF StatusIs
    <2>8. \/ e \in expired /\ r.status = "Unknown"
          \/ r.event # None /\ r.status = "Deleted" /\ Names(r.event, e)
          \/ r.event # None /\ r.status = "Outdated" /\ Outdoes(r.event, e)
      BY <1>1, <1>4, <2>1 DEF Justified, Removing
    <2>9. x.event = r.event /\ (r.event # None => Certain(r) /\ Certain(x))
      BY <2>1 DEF Same, Certain, Removing
    <2>10. Certain(x) => Certain(Running)'
      BY DEF Certain, IsRequest, HasNumber
    <2> QED
      BY <2>5, <2>6, <2>7, <2>8, <2>9, <2>10
  <1> QED
    BY <1>3, <1>4, StepLeaving

\* What add_event has just accepted is stored.
LEMMA StepAccepts ==
    ASSUME IndexInv, TurnOK(Running), NEW p \in Procs, Step(p),
           Running = proc[p], Running' = proc'[p],
           InsertTime(p) \/ ~UNCHANGED accepted
    PROVE  /\ Running.event \in Events /\ Running.n \in Ns
           /\ accepted' = accepted \cup {<<Running.event, Running.n>>}
           /\ n_to_event'[Running.n] = Running.event
           /\ \A n : ~Leaving(Running, n)'
  <1> DEFINE r == proc[p]
  <1>1. /\ r.pc = "insert_keys" /\ UNCHANGED n_to_event /\ proc'[p] = Idle
        /\ accepted' = accepted \cup {<<r.event, r.n>>}
    BY StepBook, InsertTimeGoes
  <1>2. HasNumber(r) /\ r.event \in Events /\ r.n \in Ns
    <2>1. HasNumber(r)
      BY <1>1, Tracing DEF HasNumber, Removing
    <2> QED
      BY <2>1, Numbered DEF IndexInv
  <1>3. n_to_event[r.n] = r.event
    BY <1>1, <1>2 DEF TurnOK, Claimed, Entering
  <1>4. \A n : ~Leaving(Running, n)'
    BY <1>1 DEF Leaving, Idle
  <1> QED
    BY <1>1, <1>2, <1>3, <1>4

\* No accepted event is lost without a reason.
LEMMA StepLoss ==
    ASSUME IndexInv, TurnOK(Running), Anew(Running), Justified(Running), LossOK(Running),
           NEW p \in Procs, Step(p), Running = proc[p], Running' = proc'[p]
    PROVE  LossOK(Running)'
  <1>1. expired' = expired /\ accepted \subseteq accepted'
    BY StepBook
  <1>2. /\ Reasons(Running) \subseteq Reasons(Running)'
        /\ Certain(Running) => Running.event \in Reasons(Running)'
    BY StepReasons
  <1>3. ASSUME NEW a \in accepted
        PROVE  (n_to_event'[a[2]] = a[1] /\ ~Leaving(Running, a[2])') \/ Excused(Running, a[1])'
    <2>1. a[1] \in Events /\ a[2] \in Ns /\ a[1] \in Reasons(Running)
      BY DEF Reasons, IndexInv, Inv, TypeOK
    <2>2. CASE a[1] \in expired
      BY <1>1, <2>2 DEF Excused
    <2>3. CASE StatusIs(a[1], "Deleted") /\ \E b \in Reasons(Running) : Names(b, a[1])
      <3>1. StatusIs(a[1], "Deleted")'
        BY <2>1, <2>3, StepStatus
      <3> QED
        BY <1>2, <2>3, <3>1 DEF Excused
    <2>4. CASE StatusIs(a[1], "Outdated") /\ \E b \in Reasons(Running) : Outdoes(b, a[1])
      <3>1. StatusIs(a[1], "Outdated")'
        BY <2>1, <2>4, StepStatus
      <3> QED
        BY <1>2, <2>4, <3>1 DEF Excused
    <2>5. CASE n_to_event[a[2]] = a[1] /\ ~Leaving(Running, a[2])
      <3>1. \/ n_to_event'[a[2]] = a[1] /\ ~Leaving(Running, a[2])'
            \/ a[1] \in expired
            \/ /\ Running.event \in Reasons(Running)'
               /\ \/ Names(Running.event, a[1]) /\ StatusIs(a[1], "Deleted")'
                  \/ Outdoes(Running.event, a[1]) /\ StatusIs(a[1], "Outdated")'
        BY <1>2, <2>1, <2>5, StepStored
      <3> QED
        BY <2>2, <3>1 DEF Excused
    <2> QED
      BY <2>2, <2>3, <2>4, <2>5 DEF LossOK, Excused
  <1>4. ASSUME NEW a \in accepted', a \notin accepted
        PROVE  n_to_event'[a[2]] = a[1] /\ ~Leaving(Running, a[2])'
    <2>1. a = <<Running.event, Running.n>>
      BY <1>4, StepAccepts
    <2>2. n_to_event'[Running.n] = Running.event /\ \A n : ~Leaving(Running, n)'
      BY <1>4, StepAccepts
    <2> QED
      BY <2>1, <2>2
  <1> QED
    BY <1>3, <1>4 DEF LossOK

\* Beats is an order on the events of one store.
LEMMA Beaten ==
    /\ \A e, f, g \in Events : Beats(e, f) /\ Beats(f, g) => Beats(e, g)
    /\ \A e, f \in Events : ~(Beats(e, f) /\ Beats(f, e))
  <1>1. \A e \in Events : e.created_at \in Nat /\ e.id \in Nat
    BY EventHashes, DbAssumption
  <1> QED
    BY <1>1 DEF Beats

\* Of every accepted event, or a version that beats it, something is to be seen still.
LEMMA StepSurvived ==
    ASSUME IndexInv, TurnOK(Running), Anew(Running), Justified(Running),
           NEW p \in Procs, Step(p), Running = proc[p], Running' = proc'[p],
           NEW e \in Events, Survived(Running, e)
    PROVE  Survived(Running, e)'
  <1>1. PICK b \in Reasons(Running) : (b = e \/ (SameSlot(b, e) /\ Beats(b, e))) /\ Standing(Running, b)
    BY DEF Survived
  <1>2. /\ Reasons(Running) \subseteq Reasons(Running)' /\ b \in Events
        /\ Certain(Running) => Running.event \in Reasons(Running)'
    BY StepReasons
  <1>3. ASSUME Standing(Running, b)' PROVE Survived(Running, e)'
    BY <1>1, <1>2, <1>3 DEF Survived
  <1>4. CASE Certain(Running) /\ Running.event = b
    <2>1. CASE InsertTime(p)
      <3>1. n_to_event'[Running.n] = b /\ Running.n \in Ns /\ b # None /\ \A n : ~Leaving(Running, n)'
        BY <1>2, <1>4, <2>1, StepAccepts, EventHashes
      <3>2. Standing(Running, b)'
        BY <3>1 DEF Standing, Stored
      <3> QED
        BY <1>3, <3>2
    <2>2. CASE Certain(proc'[p]) /\ proc'[p].event = proc[p].event
      <3>1. Certain(Running)' /\ Running'.event = b
        BY <1>4, <2>2 DEF Certain, IsRequest, HasNumber
      <3>2. Standing(Running, b)'
        BY <3>1 DEF Standing
      <3> QED
        BY <1>3, <3>2
    <2> QED
      BY <1>4, <2>1, <2>2, StepCertain
  <1>5. CASE StatusIs(b, "Deleted") \/ StatusIs(b, "Unknown")
    <2>1. StatusIs(b, "Deleted")' \/ StatusIs(b, "Unknown")'
      BY <1>5, StepStatus
    <2>2. Standing(Running, b)'
      BY <2>1 DEF Standing
    <2> QED
      BY <1>3, <2>2
  <1>6. CASE \E c \in Reasons(Running) : NamesAddress(c, b)
    <2>1. Standing(Running, b)'
      BY <1>2, <1>6 DEF Standing
    <2> QED
      BY <1>3, <2>1
  <1>7. CASE \E n \in Stored : n_to_event[n] = b /\ ~Leaving(Running, n)
    <2>1. PICK n \in Stored : n_to_event[n] = b /\ ~Leaving(Running, n)
      BY <1>7
    <2>2. n \in Ns /\ b # None
      BY <1>2, EventHashes DEF Stored
    <2>3. CASE n_to_event'[n] = b /\ ~Leaving(Running, n)'
      <3>1. Standing(Running, b)'
        BY <2>2, <2>3 DEF Standing, Stored
      <3> QED
        BY <1>3, <3>1
    <2>4. CASE StatusIs(b, "Unknown")' \/ StatusIs(b, "Deleted")'
      <3>1. Standing(Running, b)'
        BY <2>4 DEF Standing
      <3> QED
        BY <1>3, <3>1
    <2>5. CASE /\ Certain(Running) /\ Certain(Running)' /\ Running'.event = Running.event
               /\ Outdoes(Running.event, b)
      <3>1. PICK c : c = Running.event
        OBVIOUS
      <3>2. c \in Reasons(Running)' /\ c \in Events
        BY <1>2, <2>5, <3>1, StepReasons
      <3>3. Standing(Running, c)'
        BY <2>5, <3>1 DEF Standing
      <3>4. CASE NamesAddress(c, b)
        <4>1. Standing(Running, b)'
          BY <3>2, <3>4 DEF Standing
        <4> QED
          BY <1>3, <4>1
      <3>5. CASE SameSlot(c, b) /\ Beats(c, b)
        <4>1. SameSlot(c, e) /\ Beats(c, e)
          BY <1>1, <1>2, <3>2, <3>5, SlotAlike, Beaten
        <4> QED
          BY <3>2, <3>3, <4>1 DEF Survived
      <3> QED
        BY <2>5, <3>1, <3>4, <3>5 DEF Outdoes
    <2> QED
      BY <1>2, <2>1, <2>2, <2>3, <2>4, <2>5, StepStored
  <1> QED
    BY <1>1, <1>4, <1>5, <1>6, <1>7 DEF Standing

\* An operation that starts is no reason for anything yet.
LEMMA StartLosses ==
    ASSUME LossesOK(Running), NEW x, Running = Idle, Running' = x,
           x.pc = "author" \/ (x.pc = "remove" /\ x.event = None),
           UNCHANGED <<hash_to_n, n_to_event, accepted>>, expired \subseteq expired',
           Justified(Running)'
    PROVE  LossesOK(Running)'
  <1>1. ~Certain(Running) /\ ~Certain(Running)'
    BY DEF Certain, IsRequest, HasNumber, Removing, Idle
  <1>2. /\ Reasons(Running)' = Reasons(Running) /\ Stored' = Stored
        /\ \A n : ~Leaving(Running, n) /\ ~Leaving(Running, n)'
    BY <1>1 DEF Reasons, Stored, Leaving, Idle
  <1>3. \A e, status : StatusIs(e, status)' <=> StatusIs(e, status)
    BY DEF StatusIs
  <1>4. \A e : Excused(Running, e) => Excused(Running, e)'
    BY <1>2, <1>3 DEF Excused
  <1>5. LossOK(Running)'
    BY <1>2, <1>4 DEF LossesOK, LossOK
  <1>6. \A e : Standing(Running, e) => Standing(Running, e)'
    BY <1>1, <1>2, <1>3 DEF Standing
  <1>7. \A e : Survived(Running, e) => Survived(Running, e)'
    BY <1>2, <1>6 DEF Survived
  <1>8. Anew(Running)' /\ Slotted(Running)' /\ FoundKind(Running)'
    BY DEF Anew, Slotted, FoundKind, Searching
  <1> QED
    BY <1>5, <1>7, <1>8 DEF LossesOK

LEMMA LossesInvariant == SeqSpec => []LossesOK(Running)
  <1>1. SeqInit => LossesOK(Running)
    <2> SUFFICES ASSUME SeqInit PROVE LossesOK(Running)
      OBVIOUS
    <2>1. Running = Idle /\ accepted = {}
      BY DEF SeqInit, Init, Busy, Running
    <2>2. Idle.pc = "idle"
      BY DEF Idle
    <2> QED
      BY <2>1, <2>2
         DEF LossesOK, LossOK, Justified, Anew, Slotted, FoundKind, Removing, Searching
  <1>2. TurnInv /\ VersionsOK(Running) /\ BookOK(Running) /\ LossesOK(Running)
            /\ [SeqNext]_<<vars, view>> => LossesOK(Running)'
    <2> SUFFICES ASSUME TurnInv, VersionsOK(Running), BookOK(Running), LossesOK(Running),
                        [SeqNext]_<<vars, view>>
                 PROVE  LossesOK(Running)'
      OBVIOUS
    <2>1. ASSUME NEW p \in Procs, Step(p), Running = proc[p], Running' = proc'[p]
          PROVE  LossesOK(Running)'
      <3>1. /\ IndexInv /\ TurnOK(Running) /\ LossOK(Running) /\ Justified(Running)
            /\ Anew(Running) /\ Slotted(proc[p]) /\ FoundKind(proc[p])
        BY <2>1 DEF TurnInv, LossesOK
      <3>2. Justified(proc[p])
        BY <2>1 DEF LossesOK
      <3>3. LossOK(Running)' /\ Justified(Running)' /\ Anew(Running)'
        BY <2>1, <3>1, <3>2, StepLoss, StepJustified, StepAnew
      <3>4. Slotted(Running)' /\ FoundKind(Running)'
        <4>1. Slotted(proc'[p]) /\ FoundKind(Running)'
          BY <2>1, <3>1, StepSearch
        <4>2. Slotted(Running)' <=> Slotted(proc'[p])
          BY <2>1 DEF Slotted, IsRequest
        <4> QED
          BY <4>1, <4>2
      <3>5. ASSUME NEW a \in accepted PROVE Survived(Running, a[1])'
        <4>1. a[1] \in Events /\ Survived(Running, a[1])
          BY <3>1 DEF LossesOK, IndexInv, Inv, TypeOK
        <4> QED
          BY <2>1, <3>1, <4>1, StepSurvived
      <3>6. ASSUME NEW a \in accepted', a \notin accepted PROVE Survived(Running, a[1])'
        <4>1. /\ Running.event \in Events /\ Running.n \in Ns
              /\ a = <<Running.event, Running.n>> /\ n_to_event'[Running.n] = Running.event
              /\ \A n : ~Leaving(Running, n)'
          BY <2>1, <3>1, <3>6, StepAccepts
        <4>2. a[1] = Running.event /\ a[1] # None /\ n_to_event'[Running.n] = a[1]
          BY <4>1, EventHashes
        <4>3. Standing(Running, a[1])'
          BY <4>1, <4>2 DEF Standing, Stored
        <4>4. a[1] \in Reasons(Running)'
          BY <3>6 DEF Reasons
        <4> QED
          BY <4>3, <4>4 DEF Survived
      <3> QED
        BY <3>3, <3>4, <3>5, <3>6 DEF LossesOK
    <2>2. ASSUME NEW e \in Events, StartsAdd(e) PROVE LossesOK(Running)'
      <3>1. /\ UNCHANGED <<hash_to_n, n_to_event, accepted, expired>>
            /\ Running = Idle /\ Running'.pc = "author"
        BY <2>2 DEF StartsAdd, db, book
      <3>2. Justified(Running)'
        BY <3>1 DEF Justified, Removing
      <3> QED
        BY <3>1, <3>2, StartLosses
    <2>3. ASSUME NEW e \in Events, NEW n \in Ns, StartsExpire(e, n)
          PROVE  LossesOK(Running)'
      <3>1. /\ UNCHANGED <<hash_to_n, n_to_event, accepted>> /\ expired' = expired \cup {e}
            /\ Running = Idle /\ Running'.pc = "remove" /\ Running'.victim = n
            /\ Running'.status = "Unknown" /\ Running'.event = None
        BY <2>3 DEF StartsExpire, db
      <3>2. n \in Stored => n_to_event[n] = e
        <4>1. Known(e.id, n)
          BY <2>3 DEF StartsExpire, BookOK, AcceptedKnown, TurnInv, IndexInv, Inv, TypeOK
        <4> QED
          BY <4>1, KnownEvent DEF TurnInv
      <3>3. Justified(Running)'
        BY <3>1, <3>2 DEF Justified, Stored
      <3> QED
        BY <3>1, <3>3, StartLosses
    <2>4. CASE SeqNext
      BY <2>1, <2>2, <2>3, <2>4, TurnStep DEF TurnInv, IndexInv
    <2>5. CASE UNCHANGED vars
      <3>1. /\ UNCHANGED <<hash_to_n, n_to_event, accepted, expired>> /\ Running' = Running
            /\ Stored' = Stored
        BY <2>5 DEF vars, db, book, Busy, Running, Stored
      <3>2. /\ \A e, status : StatusIs(e, status)' <=> StatusIs(e, status)
            /\ Reasons(Running)' = Reasons(Running) /\ (Certain(Running)' <=> Certain(Running))
            /\ \A n : Leaving(Running, n)' <=> Leaving(Running, n)
        BY <3>1 DEF StatusIs, Reasons, Certain, IsRequest, HasNumber, Leaving
      <3>3. /\ \A e : Excused(Running, e) => Excused(Running, e)'
            /\ \A e : Standing(Running, e) => Standing(Running, e)'
        BY <3>1, <3>2 DEF Excused, Standing
      <3>4. \A e : Survived(Running, e) => Survived(Running, e)'
        BY <3>2, <3>3 DEF Survived
      <3>5. LossOK(Running)'
        BY <3>1, <3>2, <3>3 DEF LossesOK, LossOK
      <3>6. Justified(Running)' /\ Anew(Running)' /\ Slotted(Running)' /\ FoundKind(Running)'
        BY <3>1 DEF LossesOK, Justified, Anew, Slotted, IsRequest, FoundKind, Goal
      <3> QED
        BY <3>1, <3>4, <3>5, <3>6 DEF LossesOK
    <2> QED
      BY <2>4, <2>5
  <1> QED
    BY <1>1, <1>2, TurnInvariant, VersionsInvariant, BookInvariant, PTL DEF SeqSpec

\* Between two operations only what was accepted is a reason, and nothing is on its way
\* out.
LEMMA QuietLosses ==
    ASSUME TurnInv, Quiet
    PROVE  Reasons(Running) = {a[1] : a \in accepted} /\ \A n : ~Leaving(Running, n)
  <1>1. ~Certain(Running) /\ \A n : ~Leaving(Running, n)
    BY QuietTurn DEF Certain, IsRequest, HasNumber, Removing, Leaving
  <1> QED
    BY <1>1 DEF Reasons

\* With one operation at a time, an event that add_event has accepted is not lost: it is
\* stored, or its entry says that it was deleted or outdated and an event that was
\* accepted names it or is a newer version, or it has expired.  An event that outdates
\* another one is itself accepted in the end, and no entry of an accepted event is
\* written over by a later request.
THEOREM LossesJustified == SeqSpec => []LossJustified
  <1>1. TurnInv /\ LossesOK(Running) => LossJustified
    <2> SUFFICES ASSUME TurnInv, LossesOK(Running), Quiet, NEW a \in accepted
                 PROVE  LET e == a[1]
                            status == hash_to_n[e.id].status
                        IN  \/ n_to_event[a[2]] = e
                            \/ status = "Deleted" /\ \E b \in accepted : Names(b[1], e)
                            \/ status = "Outdated" /\ \E b \in accepted :
                                   (SameSlot(b[1], e) /\ Beats(b[1], e)) \/ NamesAddress(b[1], e)
                            \/ e \in expired
      BY DEF LossJustified
    <2>1. n_to_event[a[2]] = a[1] \/ Excused(Running, a[1])
      BY DEF LossesOK, LossOK
    <2> QED
      BY <2>1, QuietLosses DEF Excused, StatusIs, Outdoes
  <1> QED
    BY <1>1, TurnInvariant, LossesInvariant, PTL

\* With one operation at a time and whatever the order in which versions are published,
\* between two operations the version that is stored beats all that were accepted, but
\* for those that are beaten by, or are, a version that was deleted, by id or by
\* address, or has expired.
THEOREM NewestIsKept == SeqSpec => []NewestKept
  <1>1. TurnInv /\ VersionsOK(Running) /\ LossesOK(Running) => NewestKept
    <2> SUFFICES ASSUME TurnInv, VersionsOK(Running), LossesOK(Running), Quiet,
                        NEW n \in Stored, NEW a \in accepted,
                        SameSlot(n_to_event[n], a[1]), Beats(a[1], n_to_event[n])
                 PROVE  \E b \in accepted :
                           /\ SameSlot(b[1], a[1])
                           /\ b = a \/ Beats(b[1], a[1])
                           /\ \/ hash_to_n[b[1].id].status \in {"Deleted", "Unknown"}
                              \/ \E c \in accepted : NamesAddress(c[1], b[1])
      BY DEF NewestKept
    <2> DEFINE v == n_to_event[n]
               e == a[1]
    <2>1. v \in Events /\ e \in Events
      BY StoredIds DEF TurnInv, IndexInv, Inv, TypeOK
    <2>2. SameSlot(e, v) /\ SameSlot(e, e)
      BY <2>1, SlotAlike
    <2>3. PICK f \in Reasons(Running) : (f = e \/ (SameSlot(f, e) /\ Beats(f, e))) /\ Standing(Running, f)
      BY DEF LossesOK, Survived
    <2>4. PICK b \in accepted : b[1] = f /\ (f = e => b = a)
      BY <2>3, QuietLosses
    <2>5. f \in Events /\ SameSlot(f, e) /\ SameSlot(f, v) /\ Beats(f, v)
      <3>1. f \in Events
        BY <2>4 DEF TurnInv, IndexInv, Inv, TypeOK
      <3>2. SameSlot(f, e) /\ (f = e \/ Beats(f, e))
        BY <2>2, <2>3
      <3>3. SameSlot(e, f)
        BY <3>2, SlotAlike
      <3> QED
        BY <2>1, <2>2, <3>1, <3>2, <3>3, SlotAlike, Beaten
    <2>6. ~(\E m \in Stored : n_to_event[m] = f)
      <3> SUFFICES ASSUME NEW m \in Stored, n_to_event[m] = f PROVE FALSE
        OBVIOUS
      <3>1. m = n
        BY <2>5 DEF VersionsOK, Single
      <3> QED
        BY <2>1, <2>5, <3>1, Beaten
    <2>7. \/ hash_to_n[f.id].status \in {"Deleted", "Unknown"}
          \/ \E c \in accepted : NamesAddress(c[1], f)
      <3>1. ~Certain(Running)
        BY QuietTurn DEF Certain, IsRequest, HasNumber, Removing
      <3> QED
        BY <2>3, <2>6, <3>1, QuietLosses DEF Standing, StatusIs
    <2> QED
      BY <2>3, <2>4, <2>5, <2>7
  <1> QED
    BY <1>1, TurnInvariant, VersionsInvariant, LossesInvariant, PTL
================================================================================
