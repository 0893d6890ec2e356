--------------------------- MODULE HandleEventProofs ---------------------------
(*****************************************************************************)
(* Proofs about handle_event, for any events, keys and configuration: what   *)
(* gets in has passed the checks, and a connection is closed as malicious    *)
(* only for two rejections in a row, or for a banned key.                    *)
(*****************************************************************************)
EXTENDS HandleEvent, TLAPS

\* What the client has to its credit is what its rejections have left.
CreditLeft ==
    \/ strikes = 0 /\ credit = DEFAULT_CREDIT
    \/ strikes = 1 /\ credit = DEFAULT_CREDIT \div 2
    \/ strikes \in Nat /\ strikes >= 2 /\ credit = 0

\* A connection that is closed stays so.
ClosedFor == reason = "malicious" => pc = "closed" /\ strikes >= 2

\* An EVENT that is through with has left some credit.
CreditChecked == pc = "idle" /\ message # None /\ message.type = "EVENT" => strikes < 2

\* What has been checked of the message when the plugin is asked ...
Checked ==
    pc \in {"ask", "plugin", "decide"} =>
        /\ BlockNotes /\ Event.kind \in {1, 3} => Exempt(Event) \/ Event.pubkey \in profiles
        /\ ~Event.signed => authed_pubkey = Event.pubkey

\* ... and when it has answered.
Consented == pc = "decide" /\ HasPlugin => Exempt(Event) \/ approved

Inv ==
    /\ TypeOK /\ CreditLeft /\ ClosedFor /\ CreditChecked
    /\ Checked /\ Consented
-------------------------------------------------------------------------------
(* The data.                                                                 *)

LEMMA Constants ==
    /\ None \notin Keys /\ None \notin Message /\ None # "malicious"
    /\ Admin \in Keys \cup {None}
    /\ \A e \in Events : e.pubkey \in Keys
    /\ MaxTime \in Nat
  BY HandleEventAssumption DEF HandleEventAssumption, Keys

\* The event of the message is one of the events.
LEMMA OfMessage ==
    ASSUME TypeOK, pc \in {"check", "ask", "plugin", "decide", "answer"}
    PROVE  /\ message \in Message /\ message.now <= clock
           /\ Event \in Events /\ Event.pubkey \in Keys
           /\ message.type \in {"EVENT", "AUTH"}
  <1>1. message \in Message /\ message.now <= clock
    BY DEF TypeOK
  <1>2. Event \in Events /\ message.type \in {"EVENT", "AUTH"}
    BY <1>1 DEF Message, Event
  <1> QED
    BY <1>1, <1>2, Constants

\* The two ways in which the credit changes keep to its bounds.
LEMMA Credits ==
    /\ DEFAULT_CREDIT = 30 /\ DEFAULT_CREDIT \div 2 = 15
    /\ Less(30) = 15 /\ Less(15) = 0 /\ Less(0) = 0
    /\ \A c \in 0..30 : Less(c) \in 0..30
  BY DEF DEFAULT_CREDIT, Less
-------------------------------------------------------------------------------
(* Types.                                                                    *)

\* The parts of TypeOK.
MessageOK ==
    /\ clock \in 0..MaxTime
    /\ message \in Message \cup {None} /\ (message # None => message.now <= clock)
ControlOK ==
    /\ pc \in {"idle", "check", "ask", "plugin", "decide", "answer", "closed"}
    /\ pc \in {"check", "ask", "plugin", "decide", "answer"} => message # None
FlagsOK == {accepted, expiration, approved, answered} \subseteq BOOLEAN
StoreOK == stored \subseteq Events /\ queued \subseteq Events
ClientOK ==
    /\ authed_pubkey \in Keys \cup {None}
    /\ credit \in 0..DEFAULT_CREDIT
    /\ reason \in {None, "malicious", "broken"}

LEMMA TypeParts ==
    /\ TypeOK <=> MessageOK /\ ControlOK /\ FlagsOK /\ StoreOK /\ ClientOK
    /\ TypeOK' <=> (MessageOK /\ ControlOK /\ FlagsOK /\ StoreOK /\ ClientOK)'
  BY DEF TypeOK, MessageOK, ControlOK, FlagsOK, StoreOK, ClientOK

LEMMA InitTypes == Init => TypeOK
  <1> SUFFICES ASSUME Init PROVE MessageOK /\ ControlOK /\ FlagsOK /\ StoreOK /\ ClientOK
    BY TypeParts
  <1>1. FlagsOK
    BY DEF Init, FlagsOK
  <1> QED
    BY <1>1, Constants DEF Init, MessageOK, ControlOK, StoreOK, ClientOK, DEFAULT_CREDIT

LEMMA ReceiveTypes ==
    ASSUME TypeOK, NEW type \in {"EVENT", "AUTH"}, NEW e \in Events, Receive(type, e)
    PROVE  TypeOK'
  <1> DEFINE m == [type |-> type, event |-> e, now |-> clock]
  <1>1. /\ UNCHANGED <<clock, stored, queued, accepted, expiration>>
        /\ UNCHANGED <<authed_pubkey, credit, reason>>
        /\ pc' = "check" /\ message' = m /\ approved' = FALSE /\ answered' = FALSE
    BY DEF Receive, client
  <1>2. m \in Message /\ m.now = clock
    BY DEF TypeOK, Message
  <1> HIDE DEF m
  <1>3. MessageOK' /\ ControlOK'
    BY <1>1, <1>2, Constants DEF TypeOK, MessageOK, ControlOK
  <1>4. FlagsOK'
    BY <1>1 DEF TypeOK, FlagsOK
  <1>5. StoreOK' /\ ClientOK'
    BY <1>1 DEF TypeOK, StoreOK, ClientOK
  <1> QED
    BY <1>3, <1>4, <1>5, TypeParts

LEMMA CheckTypes == ASSUME TypeOK, Check PROVE TypeOK'
  <1>1. /\ UNCHANGED <<clock, stored, queued, message, expiration, reason, approved, answered>>
        /\ pc = "check"
    BY DEF Check
  <1>2. /\ pc' \in {"answer", "ask", "decide"}
        /\ accepted' \in {TRUE, FALSE, accepted}
        /\ credit' \in {0, Restored, credit, Less(credit)}
        /\ authed_pubkey' \in {authed_pubkey, Event.pubkey}
    BY Zenon DEF Check, Verdict, Accept, Refuse, Penalise
  <1>3. MessageOK' /\ ControlOK'
    BY <1>1, <1>2 DEF TypeOK, MessageOK, ControlOK
  <1>4. FlagsOK'
    BY <1>1, <1>2 DEF TypeOK, FlagsOK
  <1>5. StoreOK' /\ ClientOK'
    BY <1>1, <1>2, OfMessage, Credits DEF TypeOK, StoreOK, ClientOK, Restored
  <1> QED
    BY <1>3, <1>4, <1>5, TypeParts

LEMMA AskTypes == ASSUME TypeOK, Ask PROVE TypeOK'
  <1>1. /\ UNCHANGED <<clock, stored, queued, message, expiration, authed_pubkey, reason>>
        /\ UNCHANGED <<approved, answered>>
        /\ pc = "ask"
    BY DEF Ask
  <1>2. /\ pc' \in {"answer", "plugin"}
        /\ accepted' \in {FALSE, accepted}
        /\ credit' \in {credit, Less(credit)}
    BY Zenon DEF Ask, Verdict, Penalise
  <1>3. MessageOK' /\ ControlOK'
    BY <1>1, <1>2 DEF TypeOK, MessageOK, ControlOK
  <1>4. FlagsOK'
    BY <1>1, <1>2 DEF TypeOK, FlagsOK
  <1>5. StoreOK' /\ ClientOK'
    BY <1>1, <1>2, Credits DEF TypeOK, StoreOK, ClientOK
  <1> QED
    BY <1>3, <1>4, <1>5, TypeParts

LEMMA PluginTypes == ASSUME TypeOK, NEW ok \in BOOLEAN, PluginAnswer(ok) PROVE TypeOK'
  <1>1. /\ UNCHANGED <<clock, stored, queued, message, expiration, authed_pubkey, reason>>
        /\ UNCHANGED answered
        /\ pc = "plugin" /\ approved' = ok
    BY DEF PluginAnswer
  <1>2. /\ pc' \in {"answer", "decide"}
        /\ accepted' \in {FALSE, accepted}
        /\ credit' \in {credit, Less(credit)}
    BY Zenon DEF PluginAnswer, Verdict, Penalise
  <1>3. MessageOK' /\ ControlOK'
    BY <1>1, <1>2 DEF TypeOK, MessageOK, ControlOK
  <1>4. FlagsOK'
    BY <1>1, <1>2 DEF TypeOK, FlagsOK
  <1>5. StoreOK' /\ ClientOK'
    BY <1>1, <1>2, Credits DEF TypeOK, StoreOK, ClientOK
  <1> QED
    BY <1>3, <1>4, <1>5, TypeParts

LEMMA DecideTypes == ASSUME TypeOK, Decide PROVE TypeOK'
  <1>1. /\ UNCHANGED <<clock, queued, message, authed_pubkey, reason, approved, answered>>
        /\ pc = "decide" /\ pc' = "answer"
    BY DEF Decide, Accept, Refuse, Verdict
  <1>2. /\ accepted' \in {TRUE, FALSE}
        /\ expiration' \in {expiration, Event.expiration # None}
        /\ stored' \in {stored, stored \cup {Event}}
        /\ credit' \in {Restored, credit}
    BY Zenon DEF Decide, Accept, Refuse, Verdict
  <1>3. MessageOK' /\ ControlOK'
    BY <1>1 DEF TypeOK, MessageOK, ControlOK
  <1>4. FlagsOK'
    BY <1>1, <1>2 DEF TypeOK, FlagsOK
  <1>5. StoreOK' /\ ClientOK'
    BY <1>1, <1>2, OfMessage, Credits DEF TypeOK, StoreOK, ClientOK, Restored
  <1> QED
    BY <1>3, <1>4, <1>5, TypeParts

LEMMA AnswerTypes == ASSUME TypeOK, Answer PROVE TypeOK'
  <1>1. /\ UNCHANGED <<clock, stored, message, accepted, authed_pubkey, credit, approved>>
        /\ pc = "answer" /\ answered' = TRUE /\ expiration' = FALSE
        /\ queued' \in {queued, queued \cup {Event}}
        /\ pc' \in {"idle", "closed"} /\ reason' \in {reason, "malicious"}
    BY DEF Answer
  <1>2. MessageOK' /\ ControlOK'
    BY <1>1 DEF TypeOK, MessageOK, ControlOK
  <1>3. FlagsOK'
    BY <1>1 DEF TypeOK, FlagsOK
  <1>4. StoreOK' /\ ClientOK'
    BY <1>1, OfMessage DEF TypeOK, StoreOK, ClientOK
  <1> QED
    BY <1>2, <1>3, <1>4, TypeParts

LEMMA TypesKept == ASSUME TypeOK, [Next]_vars PROVE TypeOK'
  <1>1. CASE Tick
    <2>1. FlagsOK'
      BY <1>1 DEF Tick, control, history, TypeOK, FlagsOK
    <2>2. MessageOK' /\ ControlOK' /\ StoreOK' /\ ClientOK'
      BY <1>1, Constants
      DEF Tick, control, client, TypeOK, MessageOK, ControlOK, StoreOK, ClientOK, Message
    <2> QED
      BY <2>1, <2>2, TypeParts
  <1>2. CASE \E e \in Events : OthersWrite(e)
    <2>1. FlagsOK'
      BY <1>2 DEF OthersWrite, control, history, TypeOK, FlagsOK
    <2>2. MessageOK' /\ ControlOK' /\ StoreOK' /\ ClientOK'
      BY <1>2 DEF OthersWrite, control, client, TypeOK, MessageOK, ControlOK, StoreOK, ClientOK
    <2> QED
      BY <2>1, <2>2, TypeParts
  <1>3. CASE AnswerFails
    <2>1. FlagsOK'
      BY <1>3 DEF AnswerFails, history, TypeOK, FlagsOK
    <2>2. MessageOK' /\ ControlOK' /\ StoreOK' /\ ClientOK'
      BY <1>3 DEF AnswerFails, TypeOK, MessageOK, ControlOK, StoreOK, ClientOK
    <2> QED
      BY <2>1, <2>2, TypeParts
  <1>4. CASE UNCHANGED vars
    <2>1. FlagsOK'
      BY <1>4 DEF vars, control, history, TypeOK, FlagsOK
    <2>2. MessageOK' /\ ControlOK' /\ StoreOK' /\ ClientOK'
      BY <1>4 DEF vars, control, client, TypeOK, MessageOK, ControlOK, StoreOK, ClientOK
    <2> QED
      BY <2>1, <2>2, TypeParts
  <1> QED
    BY <1>1, <1>2, <1>3, <1>4, ReceiveTypes, CheckTypes, AskTypes, PluginTypes, DecideTypes,
       AnswerTypes
    DEF Next, Handle, Prompt
-------------------------------------------------------------------------------
(* Credit and checks.                                                        *)

LEMMA Initially == Init => Inv
  <1> SUFFICES ASSUME Init PROVE Inv
    OBVIOUS
  <1>1. TypeOK
    BY InitTypes
  <1>2. CreditLeft /\ ClosedFor /\ CreditChecked /\ Checked /\ Consented
    BY Constants DEF Init, CreditLeft, ClosedFor, CreditChecked, Checked, Consented
  <1> QED
    BY <1>1, <1>2 DEF Inv

\* The ways in which a step changes the credit.
CreditStep ==
    \/ credit' = credit /\ strikes' = strikes
    \/ credit' = Restored /\ strikes' = 0
    \/ credit' = Less(credit) /\ strikes' = strikes + 1
    \/ credit' = 0 /\ strikes' = 2

LEMMA CreditStays == ASSUME CreditLeft, CreditStep PROVE CreditLeft'
  BY Credits DEF CreditLeft, CreditStep, Restored

LEMMA ReceiveKeeps ==
    ASSUME Inv, NEW type \in {"EVENT", "AUTH"}, NEW e \in Events, Receive(type, e)
    PROVE  Inv'
  <1>1. TypeOK'
    BY ReceiveTypes DEF Inv
  <1>2. pc = "idle" /\ pc' = "check" /\ UNCHANGED <<credit, strikes, reason>>
    BY DEF Receive, client
  <1> QED
    BY <1>1, <1>2 DEF Inv, CreditLeft, ClosedFor, CreditChecked, Checked, Consented

LEMMA CheckKeeps == ASSUME Inv, Check PROVE Inv'
  <1>1. TypeOK'
    BY CheckTypes DEF Inv
  <1>2. /\ pc = "check" /\ UNCHANGED <<message, reason, approved>>
        /\ profiles' = {k \in Keys : HaveKind0(k)}
    BY DEF Check
  <1>3. pc' \notin {"idle", "plugin"} /\ CreditStep
    BY DEF Check, Verdict, Accept, Refuse, Penalise, CreditStep
  <1>4. pc' \in {"ask", "decide"} =>
           /\ authed_pubkey' = authed_pubkey /\ ~BadSig(Event)
           /\ BlockNotes /\ Event.kind \in {1, 3} => Exempt(Event) \/ HaveKind0(Event.pubkey)
           /\ pc' = "decide" /\ HasPlugin => Exempt(Event)
    BY DEF Check, Verdict, Accept, Refuse, Penalise
  <1>5. CreditLeft'
    BY <1>3, CreditStays DEF Inv
  <1>6. ClosedFor' /\ CreditChecked'
    BY <1>2, <1>3 DEF Inv, ClosedFor, CreditChecked
  <1>7. Event \in Events /\ Event.pubkey \in Keys /\ Event' = Event
    BY <1>2, OfMessage DEF Inv, Event
  <1>8. Checked'
    BY <1>2, <1>3, <1>4, <1>7 DEF Checked, BadSig, Exempt
  <1>9. Consented'
    BY <1>4, <1>7 DEF Consented, Exempt
  <1> QED
    BY <1>1, <1>5, <1>6, <1>8, <1>9 DEF Inv

LEMMA AskKeeps == ASSUME Inv, Ask PROVE Inv'
  <1>1. TypeOK'
    BY AskTypes DEF Inv
  <1>2. /\ pc = "ask"
        /\ UNCHANGED <<message, authed_pubkey, reason, profiles>>
    BY DEF Ask
  <1>3. pc' \notin {"idle", "decide"} /\ CreditStep
    BY DEF Ask, Verdict, Penalise, CreditStep
  <1>4. CreditLeft'
    BY <1>3, CreditStays DEF Inv
  <1>5. ClosedFor' /\ CreditChecked'
    BY <1>2, <1>3 DEF Inv, ClosedFor, CreditChecked
  <1>6. Checked' /\ Consented'
    BY <1>2, <1>3 DEF Inv, Checked, Consented, Event, Exempt
  <1> QED
    BY <1>1, <1>4, <1>5, <1>6 DEF Inv

LEMMA PluginKeeps == ASSUME Inv, NEW ok \in BOOLEAN, PluginAnswer(ok) PROVE Inv'
  <1>1. TypeOK'
    BY PluginTypes DEF Inv
  <1>2. /\ pc = "plugin" /\ approved' = ok
        /\ UNCHANGED <<message, authed_pubkey, reason, profiles>>
    BY DEF PluginAnswer
  <1>3. pc' # "idle" /\ CreditStep /\ (pc' = "decide" => ok)
    BY DEF PluginAnswer, Verdict, Penalise, CreditStep
  <1>4. CreditLeft'
    BY <1>3, CreditStays DEF Inv
  <1>5. ClosedFor' /\ CreditChecked'
    BY <1>2, <1>3 DEF Inv, ClosedFor, CreditChecked
  <1>6. Checked'
    BY <1>2 DEF Inv, Checked, Event, Exempt
  <1>7. Consented'
    BY <1>2, <1>3 DEF Consented
  <1> QED
    BY <1>1, <1>4, <1>5, <1>6, <1>7 DEF Inv

LEMMA DecideKeeps == ASSUME Inv, Decide PROVE Inv'
  <1>1. TypeOK'
    BY DecideTypes DEF Inv
  <1>2. pc = "decide" /\ pc' = "answer" /\ reason' = reason /\ CreditStep
    BY DEF Decide, Accept, Refuse, Verdict, CreditStep
  <1>3. CreditLeft'
    BY <1>2, CreditStays DEF Inv
  <1> QED
    BY <1>1, <1>2, <1>3 DEF Inv, ClosedFor, CreditChecked, Checked, Consented

LEMMA AnswerKeeps == ASSUME Inv, Answer PROVE Inv'
  <1>1. TypeOK'
    BY AnswerTypes DEF Inv
  <1>2. /\ pc = "answer" /\ UNCHANGED <<message, credit, strikes>>
        /\ IF message.type = "EVENT" /\ credit = 0
           THEN pc' = "closed" /\ reason' = "malicious"
           ELSE pc' = "idle" /\ reason' = reason
    BY DEF Answer, Spent
  <1>3. CreditLeft' /\ (credit = 0 <=> strikes >= 2)
    BY <1>2, Credits DEF Inv, CreditLeft
  <1>4. ClosedFor' /\ CreditChecked'
    BY <1>2, <1>3, Credits DEF Inv, ClosedFor, CreditChecked, CreditLeft
  <1> QED
    BY <1>1, <1>2, <1>3, <1>4 DEF Inv, Checked, Consented

LEMMA OtherStepsKeep ==
    ASSUME Inv, Tick \/ AnswerFails \/ (\E e \in Events : OthersWrite(e)) \/ UNCHANGED vars
    PROVE  Inv'
  <1>1. TypeOK'
    BY TypesKept DEF Inv, Next, Handle
  <1>2. CASE AnswerFails
    BY <1>1, <1>2, Constants
    DEF AnswerFails, history, Inv, CreditLeft, ClosedFor, CreditChecked, Checked, Consented
  <1>3. CASE Tick \/ (\E e \in Events : OthersWrite(e)) \/ UNCHANGED vars
    <2>1. UNCHANGED <<control, client, history>>
      BY <1>3 DEF Tick, OthersWrite, vars
    <2>2. (CreditLeft /\ ClosedFor /\ CreditChecked)'
      BY <2>1 DEF control, client, history, Inv, CreditLeft, ClosedFor, CreditChecked
    <2>3. (Checked /\ Consented)'
      BY <2>1 DEF control, client, history, Inv, Checked, Consented, Event, Exempt
    <2> QED
      BY <1>1, <2>2, <2>3 DEF Inv
  <1> QED
    BY <1>2, <1>3

LEMMA Inductive == Spec => []Inv
  <1>1. ASSUME Inv, [Next]_vars PROVE Inv'
    BY <1>1, ReceiveKeeps, CheckKeeps, AskKeeps, PluginKeeps, DecideKeeps, AnswerKeeps,
       OtherStepsKeep
    DEF Next, Handle, Prompt
  <1> QED
    BY <1>1, Initially, PTL DEF Spec

\* The variables of handle_event keep their types, and the credit its bounds: it
\* does not wrap around (saturating_sub).
THEOREM TypeCorrect == Spec => []TypeOK
  <1>1. Inv => TypeOK
    BY DEF Inv
  <1> QED
    BY <1>1, Inductive, PTL

\* A connection is closed as malicious only after two rejections with no
\* acceptance in between, or for a banned key, and no later than with the answer
\* to the next EVENT, for any events and configuration.
THEOREM MaliciousOnly == Spec => []MaliciousDeserved
  <1>1. Inv => MaliciousDeserved
    BY DEF Inv, ClosedFor, CreditChecked, MaliciousDeserved
  <1> QED
    BY <1>1, Inductive, PTL

\* If there is an admin, nothing is let in against the restrictions, whatever the
\* events and the rest of the configuration (without one, the client that has not
\* authenticated passes for it: event_no_admin).
THEOREM Restricted == ASSUME Admin # None PROVE Spec => []WritesRestricted
  <1>1. Init => WritesRestricted
    BY DEF Init, WritesRestricted
  <1>2. ASSUME Inv, WritesRestricted, [Next]_vars PROVE WritesRestricted'
    <2>1. CASE admitted' = admitted \/ admitted' = None
      BY <1>2, <2>1 DEF WritesRestricted, ByAdmin
    <2>2. CASE admitted' # admitted /\ admitted' # None
      <3>1. Decide
        BY <1>2, <2>2 DEF Next, Handle, Prompt, Tick, OthersWrite, Receive, Check, Ask,
                          PluginAnswer, Answer, AnswerFails, vars, history
      <3>2. /\ admitted' = [event |-> Event, key |-> authed_pubkey,
                            profiles |-> profiles, approved |-> approved]
            /\ IsEphemeral(Event) \/ MayPublish(Event)
        BY <2>2, <3>1 DEF Decide, Admit
      <3>3. Checked /\ Consented /\ pc = "decide"
        BY <1>2, <3>1 DEF Inv, Decide
      <3> QED
        BY <3>2, <3>3 DEF WritesRestricted, ByAdmin, Checked, Consented, Exempt, MayPublish
    <2> QED
      BY <2>1, <2>2
  <1> QED
    BY <1>1, <1>2, Inductive, PTL DEF Spec
================================================================================
