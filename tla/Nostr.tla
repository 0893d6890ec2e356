--------------------------------- MODULE Nostr ---------------------------------
(*****************************************************************************)
(* The data of the protocol, as crates/lnostr and src/nostr.rs define it:    *)
(* kinds, tags, the conditions an event is indexed under, and filters.       *)
(*                                                                           *)
(* An event is a record [id, pubkey, created_at, kind, tags].  Every 32-byte *)
(* value (an id, a public key, a hex tag value) is a natural number, so that *)
(* the byte order of ids is the order of numbers.  Two events with one id    *)
(* are one event: the id is the SHA-256 of everything but the signature.     *)
(*****************************************************************************)
EXTENDS Integers, Sequences, Functions

CONSTANT None      \* the missing value of an Option

-------------------------------------------------------------------------------
(* Kinds.  The ranges are the arms of the match in Db::add_event.            *)

EVENT_DELETION == 5

IsReplaceable(kind) == kind \in {0, 3} \/ kind \in 10000..19999

IsAddressable(kind) == kind \in 30000..39999

-------------------------------------------------------------------------------
(* First values of tags.  A 64-digit hex string becomes Hex32, anything else *)
(* stays a String.  An Address is a String of the form kind:pubkey:d, kept   *)
(* in the parsed form in which a deletion request reads it.                  *)

Hex32(h) == [type |-> "hex32", hash |-> h]

String(s) == [type |-> "string", text |-> s]

Address(kind, pubkey, d) ==
    [type |-> "address", kind |-> kind, pubkey |-> pubkey, d |-> d]

\* A String of three bytes which, ended by 0xff, are the bytes of this kind.
KindText(kind) == [type |-> "kind_text", kind |-> kind]

\* A tag without a value has value None, as in Tag("-", None).
Tag(name, value) == [name |-> name, value |-> value]

SingleLetters == {"a", "d", "e", "p", "t"}

\* A filter may ask for any name of one byte, also for these two.
NUL == "\\u0000"
SOH == "\\u0001"

SingleLetterTags(tags) ==
    SelectSeq(tags, LAMBDA t : t.name \in SingleLetters /\ t.value # None)

\* The value of the first "d" tag that has one.
FirstDValue(event) ==
    LET ds == SelectSeq(event.tags, LAMBDA t : t.name = "d" /\ t.value # None)
    IN  IF ds = <<>> THEN None ELSE ds[1].value

\* Whether important_tags finds an expiration: the tag's value is a String.
Expires(event) ==
    \E i \in DOMAIN event.tags :
        /\ event.tags[i].name = "expiration"
        /\ event.tags[i].value # None /\ event.tags[i].value.type = "string"

-------------------------------------------------------------------------------
(* Conditions.  A condition is a pair: what is indexed, and its value.       *)

Author(pubkey) == <<"author", Hex32(pubkey)>>

Kind(kind) == <<"kind", [type |-> "kind", kind |-> kind]>>

TagCondition(tag) == <<tag.name, tag.value>>

\* What an event is indexed under, in the order add_event writes the keys.
Conditions(event) ==
    LET tags == SingleLetterTags(event.tags)
    IN  [i \in 1..Len(tags) |-> TagCondition(tags[i])]
            \o <<Author(event.pubkey), Kind(event.kind)>>

\* A condition whose value is a hash is stored with the hash's number n.
HasHash(condition) == condition[2].type = "hex32"

\* Mutant: the key does not say what is indexed.
CompactBare(condition, n) ==
    IF HasHash(condition) THEN <<"hash", [type |-> "n", n |-> n]>> ELSE condition

\* A key does not say which form of condition it is of: an author is written as
\* the tag NUL would be, and a kind as a String of the tag SOH may be.
KeyName(name) == IF name = "author" THEN NUL ELSE name

Compact(condition, n) ==
    IF HasHash(condition) THEN <<KeyName(condition[1]), [type |-> "n", n |-> n]>>
    ELSE IF condition[1] = SOH /\ condition[2].type = "kind_text" THEN Kind(condition[2].kind)
    ELSE condition

-------------------------------------------------------------------------------
(* Times.  An event is indexed under its Time: created_at and its number.    *)

\* Mutant: the fields in the other order.
TimeSwapped(event, n) == <<n, event.created_at>>

\* The Time of an event
TimeOf(event, n) == <<event.created_at, n>>

\* The derived order of Time
Later(s, t) == s[1] > t[1] \/ (s[1] = t[1] /\ s[2] > t[2])

Latest(times) == CHOOSE t \in times : \A s \in times : ~Later(s, t)

-------------------------------------------------------------------------------
(* Filters: [since, until, ids, conditions, search], where ids is None or a  *)
(* set of ids, conditions is a set of groups, and search says whether there  *)
(* is such a field, which no event matches.  An event has to satisfy every   *)
(* group, that is one condition of each.                                     *)

Matches(filter, event) ==
    /\ ~filter.search
    /\ filter.since <= event.created_at /\ event.created_at <= filter.until
    /\ filter.ids # None => event.id \in filter.ids
    /\ \A group \in filter.conditions : \E c \in group :
           c \in Range(Conditions(event))
================================================================================
