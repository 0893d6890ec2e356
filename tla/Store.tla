--------------------------------- MODULE Store ---------------------------------
(*****************************************************************************)
(* What the event store is for its callers: every operation takes effect at  *)
(* once, on the set of stored events and on what is known of their ids.      *)
(*****************************************************************************)
EXTENDS Nostr, SequencesExt

CONSTANT Events

VARIABLES
    stored,        \* the events a query may find
    status,        \* id -> "Unknown" | "Have" | "Deleted" | "Outdated"
    requests       \* <<id, pubkey>>: deletion requests for ids not seen yet

vars == <<stored, status, requests>>

Ids == {e.id : e \in Events}

\* Versions of one thing, of which the latest counts.
SameSlot(e, f) ==
    /\ e.pubkey = f.pubkey /\ e.kind = f.kind
    /\ \/ IsReplaceable(e.kind)
       \/ IsAddressable(e.kind) /\ FirstDValue(e) # None /\ FirstDValue(e) = FirstDValue(f)

Beats(e, f) == e.created_at > f.created_at \/ (e.created_at = f.created_at /\ e.id > f.id)

Named(tag, request, events) ==
    IF tag.name = "e" /\ tag.value # None
    THEN {f \in events : tag.value = Hex32(f.id) /\ f.pubkey = request.pubkey}
    ELSE IF tag.name = "a" /\ tag.value # None
    THEN {f \in events : /\ tag.value = Address(f.kind, f.pubkey, FirstDValue(f))
                         /\ f.created_at <= request.created_at}
    ELSE {}

\* The events are taken out, for the reason given.
Without(s, events, reason) ==
    [s EXCEPT !.stored = @ \ events,
              !.status = [id \in Ids |->
                  IF \E f \in events : f.id = id THEN reason ELSE @[id]]]

\* What one tag of a deletion request does.
Honour(s, tag, request) ==
    LET names(id) == tag.name = "e" /\ tag.value = Hex32(id)
        out == Without(s, Named(tag, request, s.stored),
                       IF tag.name = "e" THEN "Deleted" ELSE "Outdated")
    IN  [out EXCEPT !.requests = @ \cup
            {<<id, request.pubkey>> : id \in {i \in Ids : names(i) /\ s.status[i] = "Unknown"}}]

State == [stored |-> stored, status |-> status, requests |-> requests]

Set(s) == stored' = s.stored /\ status' = s.status /\ requests' = s.requests

Init == stored = {} /\ status = [id \in Ids |-> "Unknown"] /\ requests = {}

\* An event whose author has asked to delete it stays out.
Refuse(e) ==
    /\ status[e.id] = "Unknown" /\ <<e.id, e.pubkey>> \in requests
    /\ status' = [status EXCEPT ![e.id] = "Deleted"]
    /\ requests' = {r \in requests : r[1] # e.id}
    /\ UNCHANGED stored

\* A version older than the stored one counts as known.
TurnDown(e) ==
    /\ status[e.id] = "Unknown" /\ <<e.id, e.pubkey>> \notin requests
    /\ \E f \in stored : SameSlot(e, f) /\ Beats(f, e)
    /\ status' = [status EXCEPT ![e.id] = "Have"]
    /\ requests' = {r \in requests : r[1] # e.id}
    /\ UNCHANGED stored

\* Anything else is stored, in the place of the versions it beats, and a
\* deletion request is honoured.
Accept(e) ==
    LET known == [State EXCEPT !.status[e.id] = "Have",
                               !.requests = {r \in @ : r[1] # e.id}]
        others == {f \in stored : SameSlot(e, f)}
        done == IF e.kind = EVENT_DELETION
                THEN FoldLeft(LAMBDA s, tag : Honour(s, tag, e), known, e.tags)
                ELSE Without(known, others, "Outdated")
    IN
    /\ status[e.id] = "Unknown" /\ <<e.id, e.pubkey>> \notin requests
    /\ ~\E f \in stored : SameSlot(e, f) /\ Beats(f, e)
    /\ Set([done EXCEPT !.stored = @ \cup {e}])

\* An expired event goes, and may be published again.
Expire(e) ==
    /\ e \in stored
    /\ Set(Without(State, {e}, "Unknown"))

Next == \E e \in Events : Refuse(e) \/ TurnDown(e) \/ Accept(e) \/ Expire(e)

Spec == Init /\ [][Next]_vars
================================================================================
