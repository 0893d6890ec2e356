--------------------------- MODULE MC_Subscriptions ----------------------------
(* Instances of a connection's subscriptions for TLC: the scenario is chosen  *)
(* at the start.                                                              *)
EXTENDS Subscriptions

CONSTANTS
    note, other, brief, wrap,  \* events: two that are stored, one that is not,
                               \* and a gift wrap without a signature
    k1, k2, s1, s2,
    Scenarios      \* what is published, and what the client asks for

VARIABLE scenario

MCAddressees == [e \in Events |-> IF e = wrap THEN {k1} ELSE None]

\* Two filters that overlap, and one of them alone.
Overlapping == {<<{note}, {note, other}>>, <<{other}>>}

\* Stored events under filters that change.
Changing == [events |-> {note, other}, subs |-> {s1}, filters |-> Overlapping, keys |-> {}]

\* A gift wrap while the client authenticates.
Wrapped == [events |-> {wrap}, subs |-> {s1}, filters |-> {<<{wrap}>>}, keys |-> {k1, k2}]

\* A stored event and an ephemeral one that may overtake it.
Overtaken == [events |-> {note, brief}, subs |-> {s1}, filters |-> {<<{note}>>}, keys |-> {}]

\* An event for two subscriptions.
Twice == [events |-> {note}, subs |-> {s1, s2}, filters |-> {<<{note}>>}, keys |-> {}]

SafeScenarios == {Changing, Wrapped}
LiveScenarios == {Overtaken, Twice}
OneScenario == {Changing}

AllLists == UNION {c.filters : c \in Scenarios}

MCInit == Init /\ scenario \in Scenarios

MCNext ==
    /\ Next
    /\ \A e \in Events \ scenario.events : stage'[e] = "new"
    /\ \A s \in Subs :
          req'[s] # None => s \in scenario.subs /\ req'[s].filters \in scenario.filters
    /\ proved' \subseteq scenario.keys
    /\ scenario.keys = {} => ~rumors'
    /\ UNCHANGED scenario

MCSpec == MCInit /\ [][MCNext]_<<vars, scenario>>

MCFairSpec == MCSpec /\ Fairness
================================================================================
