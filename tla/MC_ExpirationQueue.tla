-------------------------- MODULE MC_ExpirationQueue ---------------------------
(* Instances of the expiration queue for TLC. *)
EXTENDS ExpirationQueue

CONSTANTS x1, x2, x3, note

\* Two events that expire together, one that does later, and one that never does.
MCExpiresAt == [e \in Events |-> CASE e \in {x1, x2} -> 1 [] e = x3 -> 2 [] OTHER -> None]
================================================================================
