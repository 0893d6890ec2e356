------------------------------- MODULE MC_Plugin -------------------------------
(* Instances of the plugin for TLC. *)
EXTENDS Plugin

CONSTANTS c1, c2, c3, c4, c5, c6, x, y

\* Calls about one event, and one about another.
TwoEvents == [c \in Calls |-> IF c = c3 THEN y ELSE x]

\* All calls about one event.
OneEvent == [c \in Calls |-> x]

Order == <<c1, c2, c3, c4, c5, c6>>

\* How far a call has got: whether it has begun, and its question been sent.
Stage(c) == IF call[c] = "new" THEN 0 ELSE IF call[c] = "sending" THEN 1 ELSE 2

\* Calls about one event are alike until they are in the channel: they begin, and
\* get there, in this order.
InOrder ==
    \A i, j \in DOMAIN Order :
        /\ i < j /\ {Order[i], Order[j]} \subseteq Calls
        /\ EventOf[Order[i]] = EventOf[Order[j]]
        => Stage(Order[j])' <= Stage(Order[i])'

OrderedSpec == Init /\ [][Next /\ InOrder]_vars /\ Fairness
WorkingSpec == OrderedSpec /\ CommandWorks
================================================================================
