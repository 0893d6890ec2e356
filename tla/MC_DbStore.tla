------------------------------- MODULE MC_DbStore ------------------------------
(* Instances of the store under one operation at a time for TLC: the scenario *)
(* is chosen at the start, and its events are published in every order.       *)
EXTENDS MC_Db, DbStore

VARIABLE scenario

\* A profile that expires and its successor, an addressable event in two
\* versions, a request for an id and an address, and a foreign request.
StoreEvents == {
    Ev(91, P1, 1, 0, <<Tag("expiration", String("9"))>>),
    Ev(92, P1, 1, 0, <<>>),
    Ev(93, P1, 2, 30000, <<D("x")>>),
    Ev(94, P1, 1, 30000, <<D("x"), D("y")>>),
    Ev(95, P1, 1, 5, <<E(93), A(30000, P1, "x"), E(91)>>),
    Ev(96, P2, 1, 5, <<E(91), E(93)>>)}

Scenarios == {ReplaceEvents, AddressEvents, StoreEvents}

AllEvents == UNION Scenarios

TurnsInit == SeqInit /\ scenario \in Scenarios

TurnsNext ==
    /\ SeqNext
    /\ \A p \in Procs : proc'[p].event \in scenario \cup {None}
    /\ UNCHANGED scenario

TurnsSpec ==
    /\ TurnsInit /\ [][TurnsNext]_<<vars, view, scenario>>
    /\ \A p \in Procs : WF_vars(Step(p))
================================================================================
