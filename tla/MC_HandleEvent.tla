---------------------------- MODULE MC_HandleEvent -----------------------------
(* Instances of handle_event for TLC. *)
EXTENDS HandleEvent

P1 == 1
P2 == 2
P3 == 3

\* A good event.
Good(id, pubkey, kind) ==
    [id |-> id, pubkey |-> pubkey, kind |-> kind, faults |-> {}, signed |-> TRUE,
     work |-> FALSE, protected |-> FALSE, expiration |-> None, proof |-> {}]

\* A profile and a note; a note with work; a rumor; a protected event that
\* expires; an event too large and one whose id is wrong; one of a banned key; an
\* ephemeral one.
\* AUTH events of two keys, the second without the relay's name.
PolicyEvents == {
    Good(1, P1, 0), Good(2, P1, 1),
    [Good(3, P2, 1) EXCEPT !.work = TRUE],
    [Good(4, P1, 14) EXCEPT !.signed = FALSE],
    [Good(5, P2, 30) EXCEPT !.protected = TRUE, !.expiration = 1],
    [Good(6, P3, 30) EXCEPT !.faults = {"large"}],
    [Good(7, P1, 30) EXCEPT !.faults = {"hash"}],
    Good(8, P3, 30),
    Good(9, P2, 20001),
    [Good(10, P1, 22242) EXCEPT !.proof = {"relay", "challenge", "fresh"}],
    [Good(11, P2, 22242) EXCEPT !.proof = {"challenge", "fresh"}]}

\* Who is banned.
MCBanned == {P3}

MCNobody == {}

\* An event that expires.
ExpiringEvents == {
    Good(1, P2, 0),
    [Good(2, P1, 30) EXCEPT !.expiration = 1]}

NoteEvents == {Good(1, P1, 0), Good(2, P1, 1), [Good(3, P2, 30) EXCEPT !.protected = TRUE]}
================================================================================
