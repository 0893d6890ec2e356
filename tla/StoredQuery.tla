------------------------------ MODULE StoredQuery ------------------------------
(*****************************************************************************)
(* What a stored query promises while others write: it delivers events that  *)
(* match, latest first and none twice, and misses no event that is there     *)
(* from the beginning, unless it reaches its limit.  An event that comes or  *)
(* goes while the query runs may be delivered or not.                        *)
(*****************************************************************************)
EXTENDS Nostr

CONSTANT Times       \* the Times events may have

VARIABLES
    limit,           \* how many events are asked for
    ever,            \* the Times of matching events that have been in the store
    always,          \* those that have been there all the time
    out,             \* the Times delivered
    done

vars == <<limit, ever, always, out, done>>

Init ==
    /\ limit \in Nat
    /\ ever \subseteq Times
    /\ always \subseteq ever
    /\ out = <<>>
    /\ done = FALSE

Write ==
    /\ ever' \subseteq Times /\ ever \subseteq ever'
    /\ always' \subseteq always
    /\ UNCHANGED <<limit, out, done>>

Deliver ==
    /\ ~done /\ Len(out) < limit
    /\ \E t \in ever :
          /\ \A i \in DOMAIN out : Later(out[i], t)
          /\ \A s \in always : Later(s, t) => s \in Range(out)
          /\ out' = Append(out, t)
    /\ UNCHANGED <<limit, ever, always, done>>

Finish ==
    /\ ~done
    /\ Len(out) = limit \/ always \subseteq Range(out)
    /\ done' = TRUE
    /\ UNCHANGED <<limit, ever, always, out>>

Next == Write \/ Deliver \/ Finish

Spec == Init /\ [][Next]_vars
================================================================================
