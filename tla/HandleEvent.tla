------------------------------- MODULE HandleEvent -----------------------------
(*****************************************************************************)
(* What becomes of an EVENT or AUTH message: handle_event of src/lib.rs on   *)
(* one connection, with the client's authentication and its credit, while    *)
(* other connections write to the store and the plugin takes its time.       *)
(*                                                                           *)
(* An event is a record of what the checks look at.                          *)
(*****************************************************************************)
EXTENDS Integers

CONSTANTS
    None,
    Events,        \* [id, pubkey, kind, faults, signed, work, protected,
                   \*  expiration, proof]: see below
    Banned,        \* banned_pubkeys
    Admin,         \* admin_pubkey: a key or None
    BlockNotes,    \* block_note_without_profile
    HasPlugin,     \* whether a plugin is configured
    MaxTime        \* bound on the clock

\* faults are those of "large", "hash", "sig" and "early" that the event has,
\* work says that its id has 25 leading zero bits, and proof which of "relay",
\* "challenge" and "fresh" hold of an AUTH event (verify_auth).

VARIABLES
    clock,
    stored,        \* the events in the store
    queued,        \* the events whose expiration has been handed over
    pc,            \* where handle_event is: "idle", "check", "ask", "plugin",
                   \* "decide", "answer" or "closed"
    message,       \* the message being handled: [type, event, now]
    accepted,      \* the verdict
    expiration,    \* whether an expiration is to be handed over
    authed_pubkey,
    credit,
    reason,        \* why the connection was closed: None, "malicious", "broken"
    strikes,       \* history: rejections since the last acceptance
    profiles,      \* history: the authors with a profile when it was looked for
    approved,      \* history: the plugin has accepted this event
    admitted,      \* history: None, or [event, key, profiles, approved]: what the
                   \* message has brought in
    answered       \* history: OK has been sent for the message

control == <<pc, message, accepted, expiration>>
client == <<authed_pubkey, credit, reason>>
history == <<strikes, profiles, approved, admitted, answered>>
vars == <<clock, stored, queued, control, client, history>>

DEFAULT_CREDIT == 30

Keys == {e.pubkey : e \in Events}

\* A message from the client, with the time of its receipt.
Message == [type : {"EVENT", "AUTH"}, event : Events, now : 0..MaxTime]

ASSUME HandleEventAssumption ==
    /\ None \notin Keys /\ None \notin Message /\ None \notin {"malicious", "broken"}
    /\ Admin \in Keys \cup {None} /\ Banned \subseteq Keys
    /\ {BlockNotes, HasPlugin} \subseteq BOOLEAN /\ MaxTime \in Nat

Init ==
    /\ clock = 0 /\ stored = {} /\ queued = {}
    /\ pc = "idle" /\ message = None /\ accepted = FALSE /\ expiration = FALSE
    /\ authed_pubkey = None /\ credit = DEFAULT_CREDIT /\ reason = None
    /\ strikes = 0 /\ profiles = {} /\ approved = FALSE /\ admitted = None /\ answered = FALSE

Event == message.event

-------------------------------------------------------------------------------
(* Around the connection.                                                    *)

\* Time passes while the relay waits: for the client, the plugin or the socket.
Tick ==
    /\ clock < MaxTime /\ pc \notin {"check", "decide"}
    /\ clock' = clock + 1
    /\ UNCHANGED <<stored, queued, control, client, history>>

\* Other connections publish, replace and delete profiles.
OthersWrite(e) ==
    /\ e.kind = 0
    /\ stored' = IF e \in stored THEN stored \ {e} ELSE stored \cup {e}
    /\ UNCHANGED <<clock, queued, control, client, history>>

-------------------------------------------------------------------------------

Receive(type, e) ==
    /\ pc = "idle"
    /\ pc' = "check"
    /\ message' = [type |-> type, event |-> e, now |-> clock]
    /\ approved' = FALSE /\ answered' = FALSE /\ admitted' = None
    /\ UNCHANGED <<clock, stored, queued, accepted, expiration, client, strikes, profiles>>

Verdict(verdict) == pc' = "answer" /\ accepted' = verdict

\* Mutant: the credit is not given back.
RestoredNever == credit

\* An acceptance restores the credit.
Restored == DEFAULT_CREDIT

Accept == Verdict(TRUE) /\ credit' = Restored /\ strikes' = 0

\* Mutant: such a message gets no answer.
RefuseSilently == pc' = "idle" /\ accepted' = FALSE /\ UNCHANGED <<credit, strikes>>

\* A message that is wrong in itself is refused without a penalty.
Refuse == Verdict(FALSE) /\ UNCHANGED <<credit, strikes>>

\* Mutant: a plain subtraction.
LessUnchecked(c) == c - DEFAULT_CREDIT \div 2

\* saturating_sub
Less(c) == IF c < DEFAULT_CREDIT \div 2 THEN 0 ELSE c - DEFAULT_CREDIT \div 2

\* A rejection by policy costs half of the default credit.
Penalise ==
    /\ Verdict(FALSE)
    /\ credit' = Less(credit)
    /\ strikes' = strikes + 1

\* check_sig: without a signature, the author has to be authenticated.
BadSig(e) == IF e.signed THEN "sig" \in e.faults ELSE authed_pubkey # e.pubkey

\* verify_auth
Authentic(e) ==
    /\ e.kind = 22242
    /\ {"challenge", "fresh"} \subseteq e.proof
    /\ "relay" \in e.proof \/ e.pubkey = Admin

\* have_kind_0
HaveKind0(author) == \E p \in stored : p.kind = 0 /\ p.pubkey = author

\* Mutant: whoever has authenticated passes.
ExemptAuthed(e) == authed_pubkey # None \/ e.work

Exempt(e) == authed_pubkey = Admin \/ e.work

IsEphemeral(e) == e.kind \in 20000..29999

\* The checks in their order, up to the plugin.
Check ==
    /\ pc = "check"
    /\ profiles' = {k \in Keys : HaveKind0(k)}
    /\ IF "large" \notin Event.faults /\ Event.pubkey \in Banned
       THEN /\ Verdict(FALSE)
            /\ credit' = 0 /\ strikes' = 2
            /\ UNCHANGED authed_pubkey
       ELSE IF Event.faults \cap {"large", "hash", "early"} # {} \/ BadSig(Event)
       THEN Refuse /\ UNCHANGED authed_pubkey
       ELSE IF message.type = "AUTH"
       THEN \/ Authentic(Event) /\ Accept /\ authed_pubkey' = Event.pubkey
            \/ ~Authentic(Event) /\ Refuse /\ UNCHANGED authed_pubkey
       ELSE /\ UNCHANGED authed_pubkey
            /\ IF /\ ~Exempt(Event)
                  /\ BlockNotes /\ Event.kind \in {1, 3} /\ ~HaveKind0(Event.pubkey)
               THEN Penalise
               ELSE /\ pc' = IF ~Exempt(Event) /\ HasPlugin THEN "ask" ELSE "decide"
                    /\ UNCHANGED <<accepted, credit, strikes>>
    /\ UNCHANGED <<clock, stored, queued, message, expiration, reason,
                   approved, admitted, answered>>

\* check_event puts its question into the channel of the plugin's task, as soon as
\* there is room, or fails because the task has ended.
Ask ==
    /\ pc = "ask"
    /\ \/ pc' = "plugin" /\ UNCHANGED <<accepted, credit, strikes>>
       \/ Penalise
    /\ UNCHANGED <<clock, stored, queued, message, expiration, authed_pubkey, reason,
                   profiles, approved, admitted, answered>>

\* check_event returns: the plugin accepts, rejects or fails.
PluginAnswer(ok) ==
    /\ pc = "plugin"
    /\ IF ok THEN pc' = "decide" /\ UNCHANGED <<accepted, credit, strikes>> ELSE Penalise
    /\ approved' = ok
    /\ UNCHANGED <<clock, stored, queued, message, expiration, authed_pubkey, reason,
                   profiles, admitted, answered>>

Admit ==
    admitted' = [event |-> Event, key |-> authed_pubkey,
                 profiles |-> profiles, approved |-> approved]

MayPublish(e) == e.protected => authed_pubkey \in {e.pubkey, Admin}

\* important_tags finds the expiration, which is compared with the time of receipt.
Expired(e, now) == e.expiration # None /\ e.expiration <= now

\* What is left once the event may pass.  What add_event says of an event that
\* is not stored is its own affair: it may be new, known or deleted.
Decide ==
    /\ pc = "decide"
    /\ \/ /\ IsEphemeral(Event)
          /\ Accept /\ Admit
          /\ UNCHANGED <<stored, expiration>>
       \/ /\ ~IsEphemeral(Event)
          /\ Expired(Event, message.now) \/ ~MayPublish(Event)
          /\ Refuse
          /\ UNCHANGED <<stored, expiration, admitted>>
       \/ /\ ~IsEphemeral(Event) /\ MayPublish(Event)
          /\ ~Expired(Event, message.now)
          /\ \/ /\ Event \notin stored                      \* Ok(n)
                /\ stored' = stored \cup {Event}
                /\ expiration' = (Event.expiration # None)
                /\ Accept /\ Admit
             \/ /\ Accept                                   \* HaveNewer, Duplicated
                /\ UNCHANGED <<stored, expiration, admitted>>
             \/ /\ Event \notin stored                      \* Deleted
                /\ Refuse
                /\ UNCHANGED <<stored, expiration, admitted>>
    /\ UNCHANGED <<clock, queued, message, authed_pubkey, reason,
                   profiles, approved, answered>>

Spent == credit = 0

\* OK is sent, the expiration handed over, and after an EVENT the credit checked.
Answer ==
    /\ pc = "answer"
    /\ answered' = TRUE
    /\ queued' = IF expiration THEN queued \cup {Event} ELSE queued
    /\ expiration' = FALSE
    /\ IF message.type = "EVENT" /\ Spent
       THEN pc' = "closed" /\ reason' = "malicious"
       ELSE pc' = "idle" /\ UNCHANGED reason
    /\ UNCHANGED <<clock, stored, message, accepted, authed_pubkey, credit,
                   strikes, profiles, approved, admitted>>

\* The socket fails when OK is sent, and handle_event returns the error.
AnswerFails ==
    /\ pc = "answer"
    /\ pc' = "closed" /\ reason' = "broken"
    /\ UNCHANGED <<clock, stored, queued, message, accepted, expiration,
                   authed_pubkey, credit, history>>

\* The steps of the handler that are bound to come: check_event waits 600 s for
\* the plugin at the most, and the others wait for nothing.
Prompt == Check \/ (\E ok \in BOOLEAN : PluginAnswer(ok)) \/ Decide

Handle == Prompt \/ Ask \/ Answer \/ AnswerFails

Next ==
    \/ Tick
    \/ \E e \in Events : OthersWrite(e)
    \/ \E type \in {"EVENT", "AUTH"}, e \in Events : Receive(type, e)
    \/ Handle

Spec == Init /\ [][Next]_vars

\* A handler goes on.  Nothing bounds the wait for room in the plugin's channel,
\* nor for a client that does not read its OK.
FairSpec == Spec /\ WF_vars(Prompt)

-------------------------------------------------------------------------------

\* The variables have their types, and the credit does not wrap around.
TypeOK ==
    /\ clock \in 0..MaxTime
    /\ stored \subseteq Events /\ queued \subseteq Events
    /\ pc \in {"idle", "check", "ask", "plugin", "decide", "answer", "closed"}
    /\ message \in Message \cup {None} /\ (message # None => message.now <= clock)
    /\ pc \in {"check", "ask", "plugin", "decide", "answer"} => message # None
    /\ {accepted, expiration, approved, answered} \subseteq BOOLEAN
    /\ authed_pubkey \in Keys \cup {None}
    /\ credit \in 0..DEFAULT_CREDIT
    /\ reason \in {None, "malicious", "broken"}

ByAdmin == Admin # None /\ admitted.key = Admin

\* Writes are restricted as the relay's information document says and as the
\* client's keys allow, for whoever is not the admin: a note needs a profile of
\* its author or work, anything but work the plugin's consent, a protected event
\* its author, and an event without a signature its author as well.
WritesRestricted ==
    admitted # None =>
        LET e == admitted.event IN
        /\ BlockNotes /\ e.kind \in {1, 3} =>
              e.work \/ e.pubkey \in admitted.profiles \/ ByAdmin
        /\ HasPlugin => e.work \/ admitted.approved \/ ByAdmin
        /\ e.protected /\ ~IsEphemeral(e) => admitted.key = e.pubkey \/ ByAdmin
        /\ ~e.signed => admitted.key = e.pubkey

\* A connection is closed as malicious after two rejections with no acceptance
\* in between, or an event of a banned key, and then with the next answer to an
\* EVENT.
MaliciousDeserved ==
    /\ reason = "malicious" => strikes >= 2
    /\ pc = "idle" /\ message # None /\ message.type = "EVENT" => strikes < 2

\* "Every ClientMessage::Event will trigger a RelayMessage::OK response": on every
\* way out of handle_event, also when the client is then disconnected, unless the
\* socket is broken or one of two awaits never ends: the send into the plugin's
\* channel, which may stay full (plugin_pipes), or the write of OK itself.
EventAnswered ==
    (pc = "check") ~> (answered \/ reason = "broken" \/ [](pc = "ask") \/ [](pc = "answer"))

-------------------------------------------------------------------------------
(* What the code does not keep.                                              *)

\* An event that expires does so in the end: once handle_event is through with
\* an event it stored, its expiration has been handed over.
HandedOver ==
    pc \in {"idle", "closed"} /\ admitted # None =>
        (admitted.event.expiration # None /\ ~IsEphemeral(admitted.event)
            => admitted.event \in queued)

\* "invalid: event expired": an event is not let in after its expiration.
ExpiredRefused ==
    [][admitted' \notin {admitted, None} =>
          IsEphemeral(admitted'.event) \/ ~Expired(admitted'.event, clock)]_vars
================================================================================
