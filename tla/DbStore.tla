-------------------------------- MODULE DbStore --------------------------------
(*****************************************************************************)
(* The event store as its callers see it when they take turns: from the end  *)
(* of one operation to the end of the next, Db implements Store.             *)
(*****************************************************************************)
EXTENDS Db

VARIABLE view      \* history: what the databases held after the last operation

EventIds == {e.id : e \in Events}

Busy == {p \in Procs : proc[p] # Idle}

View == [
    stored |-> {n_to_event[n] : n \in Ns} \ {None},
    status |-> [id \in EventIds |->
        IF hash_to_n[id] = None THEN "Unknown" ELSE hash_to_n[id].status],
    requests |-> UNION {
        {<<id, owner[n]>> : n \in (IF hash_to_n[id] = None THEN {} ELSE hash_to_n[id].by)} :
        id \in EventIds}]

SeqInit == Init /\ view = View

\* One operation at a time.
SeqNext ==
    /\ Next
    /\ \A p, q \in Busy' : p = q
    /\ view' = IF Busy' = {} THEN View' ELSE view

SeqSpec == SeqInit /\ [][SeqNext]_<<vars, view>>

S == INSTANCE Store WITH
    stored <- view.stored, status <- view.status, requests <- view.requests

\* Seen between operations, add_event and remove_event change the store in one
\* step each: they store, replace, turn down, refuse and delete exactly what
\* Store says, through whatever calls, and leave no trace of how.
ImplementsStore == S!Spec
================================================================================
