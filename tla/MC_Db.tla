--------------------------------- MODULE MC_Db ---------------------------------
(* Instances of the event store for TLC. *)
EXTENDS DbProperties, TLC

P1 == 1
P2 == 2
P3 == 3

Ev(id, pubkey, created_at, kind, tags) ==
    [id |-> id, pubkey |-> pubkey, created_at |-> created_at, kind |-> kind, tags |-> tags]

E(id) == Tag("e", Hex32(id))
P(pubkey) == Tag("p", Hex32(pubkey))
D(s) == Tag("d", String(s))
A(kind, pubkey, s) == Tag("a", Address(kind, pubkey, String(s)))

Symmetry == Permutations(Connections)

MCHashes == {P1, P2, P3} \cup UNION {HashesOf(e) : e \in Events}

\* Three versions of a profile, two of them with equal times, a request of the
\* author to delete two of them, and one of somebody else to delete the first.
ReplaceEvents == {
    Ev(11, P1, 1, 0, <<>>),
    Ev(12, P1, 2, 0, <<>>),
    Ev(13, P1, 2, 0, <<P(P2)>>),
    Ev(14, P1, 3, 5, <<E(13), E(11)>>),
    Ev(15, P2, 3, 5, <<E(11)>>)}

\* Addressable events whose d tags are a string, a hash and both, the event of
\* another author under the same d, and a request that names an address.
AddressEvents == {
    Ev(21, P1, 1, 30000, <<D("x")>>),
    Ev(22, P1, 2, 30000, <<D("y"), D("x")>>),
    Ev(23, P1, 2, 30000, <<D("x"), P(P2)>>),
    Ev(24, P2, 1, 30000, <<D("x")>>),
    Ev(25, P1, 3, 30000, <<Tag("d", Hex32(P2)), D("x")>>),
    Ev(26, P1, 2, 5, <<A(30000, P1, "x")>>)}

\* A profile and a request that deletes it.
RaceEvents == {
    Ev(31, P1, 1, 0, <<P(P2)>>),
    Ev(32, P1, 2, 5, <<E(31)>>)}

\* Two versions of a profile, to be published in either order.
TwoVersions == {Ev(61, P1, 1, 0, <<>>), Ev(62, P1, 2, 0, <<>>)}

\* A note that mentions someone, and a note of someone else.
ReuseEvents == {
    Ev(71, P1, 1, 1, <<P(P2)>>),
    Ev(72, P3, 2, 1, <<>>)}

\* An addressable event, and a request of another author that names its address.
ForeignEvents == {
    Ev(81, P1, 1, 30000, <<D("x")>>),
    Ev(82, P2, 2, 5, <<A(30000, P1, "x")>>)}

Query(ids, groups) ==
    [since |-> 0, until |-> 9, ids |-> ids, conditions |-> groups, search |-> FALSE]

MCFilters ==
    {Query(None, {{Author(p)}}) : p \in {P1, P2}}
        \cup {Query(None, {{<<"p", Hex32(p)>>}}) : p \in {P1, P2}}
        \cup {Query(None, {{Author(P1)}, {Kind(0), Kind(1)}}), Query(None, {}), Query({e.id : e \in Events}, {})}
        \cup {[Query(None, {{Author(P1)}}) EXCEPT !.search = TRUE]}

\* Filters of both kinds of fields, such as a client sends to check what became
\* of a set of events.
IdsAndKinds == {Query({e.id : e \in Events}, {{Kind(0)}})}

\* Filters with tag names that no client means: the key of one is that of an
\* author, the key of the other that of a kind.
ControlNames == {
    Query(None, {{<<NUL, Hex32(P1)>>}}),
    Query(None, {{<<SOH, KindText(255)>>}})}

\* A note that mentions someone, and an event of kind 255.
OddKindEvents == {
    Ev(91, P1, 1, 1, <<P(P2)>>),
    Ev(92, P3, 2, 255, <<>>)}
================================================================================
