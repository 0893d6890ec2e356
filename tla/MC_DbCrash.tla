------------------------------- MODULE MC_DbCrash ------------------------------
(* Instances of the store with crashes, or with expirations, for TLC: which of *)
(* the two is decided by the event that is published first.                    *)
EXTENDS MC_Db

Version(id, created_at, tags) == Ev(id, P1, created_at, 30000, <<D("x")>> \o tags)

\* Two versions of an addressable event and a request that deletes the second.
CrashEvents == {Version(41, 1, <<>>), Version(42, 2, <<>>), Ev(43, P1, 2, 5, <<E(42)>>)}

\* A version that expires, one that replaces it, and a request that deletes it.
ExpireEvents == {
    Version(51, 1, <<Tag("expiration", String("2"))>>),
    Version(52, 2, <<>>),
    Ev(53, P1, 2, 5, <<E(51)>>)}

BothEvents == CrashEvents \cup ExpireEvents

\* The store has heard of the event.
Touched(e) == hash_to_n[e.id] # None \/ \E p \in Procs : proc[p].event = e

OnlyTouched(events) == \A e \in Events : Touched(e) => e \in events

\* Crashes may lose the removal of an event that expires for ever
\* (ExpirationQueue), so that they happen with CrashEvents only.
CrashNext ==
    \/ \E p \in Connections, e \in Events :
          /\ \E scenario \in {CrashEvents, ExpireEvents} :
                e \in scenario /\ OnlyTouched(scenario)
          /\ StartAdd(p, e)
    \/ \E e \in Events, n \in Ns : StartExpire(e, n)
    \/ \E p \in Procs : Step(p)
    \/ OnlyTouched(CrashEvents) /\ Restart

FairCrashSpec ==
    /\ Init /\ [][CrashNext]_vars
    /\ \A p \in Procs : WF_vars(Step(p))
    /\ WF_vars(\E e \in Events, n \in Ns : StartExpire(e, n))
================================================================================
