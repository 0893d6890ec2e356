---------------------------- MODULE WsHandlerProofs ----------------------------
(*****************************************************************************)
(* Proofs about the select loop as a watchdog, for any timeout and any       *)
(* number of frames that wait: whom it gives up for silence has been silent, *)
(* and it gives up who is silent in time.                                    *)
(*****************************************************************************)
EXTENDS WsHandler, TLAPS

Waiting == \E i \in DOMAIN inbox : Readable(inbox[i])

\* While a pong is awaited, what has come since the ping is still in the inbox.
HeardWaits == waiting_for_pong /\ heard # "no" => Waiting

\* A handler runs for a frame that could be read.
HandlerHeard == busy = "handler" => ~waiting_for_pong

\* A readable frame is older than this tick only if a write has held the loop up,
\* or if the timeout has just been set again by an error in front of it.
HeldUp == waiting_for_pong /\ heard = "before" => held \/ left = Timeout

\* Silence and the timeout add up: one timeout to the ping, and one to the answer.
Shared ==
    closed = None => silence + left <= IF waiting_for_pong THEN 2 * Timeout ELSE Timeout

Inv ==
    /\ TypeOK /\ HeardWaits /\ HandlerHeard /\ HeldUp /\ Shared /\ NoResponseDeserved
-------------------------------------------------------------------------------

LEMMA Constants ==
    Timeout \in Nat /\ 0 < Timeout /\ MaxInbox \in Nat /\ None \notin Endings
  BY WsHandlerAssumption DEF WsHandlerAssumption

\* The parts of TypeOK.
NumbersOK == left \in 0..Timeout /\ silence \in 0..(2 * Timeout + 1)
InboxOK == inbox \in Seq(Frames) /\ Len(inbox) <= MaxInbox
FlagsOK == waiting_for_pong \in BOOLEAN /\ held \in BOOLEAN
ControlOK ==
    /\ busy \in {"no", "handler", "write"}
    /\ closed \in Endings \cup {None}
    /\ heard \in {"no", "now", "before"}

LEMMA TypeParts ==
    /\ TypeOK <=> NumbersOK /\ InboxOK /\ FlagsOK /\ ControlOK
    /\ TypeOK' <=> (NumbersOK /\ InboxOK /\ FlagsOK /\ ControlOK)'
  BY DEF TypeOK, NumbersOK, InboxOK, FlagsOK, ControlOK

\* A frame that arrives is the last one; what was waiting still is.
LEMMA Arrived ==
    ASSUME InboxOK, NEW frame \in Frames, inbox' = Append(inbox, frame)
    PROVE  /\ inbox' \in Seq(Frames) /\ Len(inbox') = Len(inbox) + 1
           /\ Waiting' <=> Waiting \/ Readable(frame)
  <1>1. /\ inbox' \in Seq(Frames) /\ Len(inbox') = Len(inbox) + 1
        /\ DOMAIN inbox' = DOMAIN inbox \cup {Len(inbox) + 1}
        /\ Len(inbox) + 1 \notin DOMAIN inbox
        /\ inbox'[Len(inbox) + 1] = frame /\ \A i \in DOMAIN inbox : inbox'[i] = inbox[i]
    BY DEF InboxOK
  <1> QED
    BY <1>1 DEF Waiting, Readable

\* If the frame received is not one that can be read, those are still waiting.
LEMMA Received ==
    ASSUME InboxOK, inbox # <<>>, inbox' = Tail(inbox)
    PROVE  /\ Head(inbox) \in Frames
           /\ inbox' \in Seq(Frames) /\ Len(inbox') = Len(inbox) - 1
           /\ Waiting /\ ~Readable(Head(inbox)) => Waiting'
  <1>1. /\ inbox \in Seq(Frames) /\ Head(inbox) \in Frames
        /\ inbox' \in Seq(Frames) /\ Len(inbox') = Len(inbox) - 1 /\ Head(inbox) = inbox[1]
    BY DEF InboxOK
  <1>2. \A i \in DOMAIN inbox : i # 1 => i - 1 \in DOMAIN inbox' /\ inbox'[i - 1] = inbox[i]
    BY <1>1
  <1> QED
    BY <1>1, <1>2 DEF Waiting, Readable

LEMMA Initially == Init => Inv
  <1> SUFFICES ASSUME Init PROVE Inv
    OBVIOUS
  <1>1. FlagsOK
    BY DEF Init, FlagsOK
  <1>2. NumbersOK /\ InboxOK /\ ControlOK
    BY Constants DEF Init, NumbersOK, InboxOK, ControlOK
  <1>3. HeardWaits /\ HandlerHeard /\ HeldUp /\ NoResponseDeserved
    BY DEF Init, HeardWaits, HandlerHeard, HeldUp, NoResponseDeserved
  <1>4. Shared
    BY Constants DEF Init, Shared
  <1> QED
    BY <1>1, <1>2, <1>3, <1>4, TypeParts DEF Inv

LEMMA ArriveKeeps == ASSUME Inv, NEW frame \in Frames, Arrive(frame) PROVE Inv'
  <1>1. /\ UNCHANGED <<left, waiting_for_pong, busy, closed, silence, held>>
        /\ closed = None /\ Len(inbox) < MaxInbox /\ inbox' = Append(inbox, frame)
        /\ heard' = IF Readable(frame) /\ heard = "no" THEN "now" ELSE heard
    BY DEF Arrive, Readable
  <1>2. NumbersOK /\ InboxOK /\ FlagsOK /\ ControlOK
    BY TypeParts DEF Inv
  <1>3. /\ inbox' \in Seq(Frames) /\ Len(inbox') = Len(inbox) + 1
        /\ Waiting' <=> Waiting \/ Readable(frame)
    BY <1>1, <1>2, Arrived
  <1>4. InboxOK'
    BY <1>1, <1>2, <1>3, Constants DEF InboxOK
  <1>5. NumbersOK' /\ FlagsOK' /\ ControlOK'
    BY <1>1, <1>2 DEF NumbersOK, FlagsOK, ControlOK
  <1>6. HeardWaits' /\ HeldUp'
    BY <1>1, <1>3 DEF Inv, HeardWaits, HeldUp
  <1>7. HandlerHeard' /\ Shared' /\ NoResponseDeserved'
    BY <1>1, Constants DEF Inv, HandlerHeard, Shared, NoResponseDeserved, Endings
  <1> QED
    BY <1>4, <1>5, <1>6, <1>7, TypeParts DEF Inv

LEMMA RecvKeeps == ASSUME Inv, Recv PROVE Inv'
  <1> DEFINE frame == Head(inbox)
  <1>1. /\ UNCHANGED <<closed, heard>>
        /\ closed = None /\ busy = "no" /\ inbox # <<>> /\ inbox' = Tail(inbox)
        /\ left' = Timeout /\ silence' = 0 /\ held' = FALSE
        /\ busy' = IF frame = "event" THEN "handler" ELSE "no"
    BY DEF Recv, TimeoutInit
  <1>2. waiting_for_pong' = (waiting_for_pong /\ ~Readable(frame))
    BY DEF Recv
  <1>3. NumbersOK /\ InboxOK /\ FlagsOK /\ ControlOK
    BY TypeParts DEF Inv
  <1>4. /\ frame \in Frames
        /\ inbox' \in Seq(Frames) /\ Len(inbox') = Len(inbox) - 1
        /\ Waiting /\ ~Readable(frame) => Waiting'
    BY <1>1, <1>3, Received
  <1> HIDE DEF frame
  <1>5. InboxOK' /\ NumbersOK'
    BY <1>1, <1>3, <1>4, Constants DEF InboxOK, NumbersOK
  <1>6. FlagsOK'
    BY <1>1, <1>2, Zenon DEF FlagsOK
  <1>7. ControlOK'
    BY <1>1, <1>3 DEF ControlOK
  <1>8. HeardWaits' /\ HeldUp'
    BY <1>1, <1>2, <1>4 DEF Inv, HeardWaits, HeldUp
  <1>9. HandlerHeard'
    BY <1>1, <1>2 DEF HandlerHeard, Readable
  <1>10. Shared'
    BY <1>1, Constants DEF Shared
  <1>11. NoResponseDeserved'
    BY <1>1, Constants DEF NoResponseDeserved, Endings
  <1> QED
    BY <1>5, <1>6, <1>7, <1>8, <1>9, <1>10, <1>11, TypeParts DEF Inv

LEMMA TimerKeeps == ASSUME Inv, Timer PROVE Inv'
  <1>1. closed = None /\ busy = "no" /\ left = 0 /\ UNCHANGED <<inbox, silence>>
    BY DEF Timer
  <1>2. NumbersOK /\ InboxOK /\ FlagsOK /\ ControlOK
    BY TypeParts DEF Inv
  <1>3. CASE waiting_for_pong
    <2>1. closed' = "NoResponse" /\ UNCHANGED <<left, waiting_for_pong, heard, held, busy>>
      BY <1>3 DEF Timer
    <2>2. TypeOK'
      BY <1>1, <1>2, <2>1, TypeParts DEF NumbersOK, InboxOK, FlagsOK, ControlOK, Endings
    <2>3. HeardWaits' /\ HandlerHeard' /\ HeldUp'
      BY <1>1, <2>1 DEF Inv, HeardWaits, HandlerHeard, HeldUp, Waiting
    <2>4. Shared'
      BY <2>1, Constants DEF Shared, Endings
    <2>5. NoResponseDeserved'
      BY <1>1, <1>3, <2>1, Constants DEF Inv, HeldUp, NoResponseDeserved
    <2> QED
      BY <2>2, <2>3, <2>4, <2>5 DEF Inv
  <1>4. CASE ~waiting_for_pong
    <2>1. /\ left' = Timeout /\ waiting_for_pong' = TRUE /\ held' = FALSE
          /\ heard' = (IF Waiting THEN "now" ELSE "no")
          /\ busy' \in {"no", "write"} /\ closed' = closed
      BY <1>4 DEF Timer, TimeoutInit, Waiting, Readable
    <2>2. NumbersOK' /\ InboxOK'
      BY <1>1, <1>2, <2>1, Constants DEF NumbersOK, InboxOK
    <2>3. FlagsOK'
      BY <2>1 DEF FlagsOK
    <2>4. ControlOK'
      BY <1>2, <2>1 DEF ControlOK
    <2>5. HeardWaits' /\ HandlerHeard' /\ HeldUp'
      BY <1>1, <2>1 DEF HeardWaits, HandlerHeard, HeldUp, Waiting
    <2>6. Shared'
      BY <1>1, <1>2, <1>4, <2>1, Constants DEF Inv, Shared, NumbersOK
    <2>7. NoResponseDeserved'
      BY <1>1, <2>1, Constants DEF NoResponseDeserved, Endings
    <2> QED
      BY <2>2, <2>3, <2>4, <2>5, <2>6, <2>7, TypeParts DEF Inv
  <1> QED
    BY <1>3, <1>4

LEMMA TickKeeps == ASSUME Inv, Tick PROVE Inv'
  <1>1. /\ UNCHANGED <<waiting_for_pong, inbox, busy, closed>>
        /\ closed = None
        /\ busy = "no" => inbox = <<>> /\ left # 0
        /\ left' = IF left = 0 THEN 0 ELSE left - 1
        /\ heard' = IF heard = "now" THEN "before" ELSE heard
        /\ silence' = IF busy # "no" \/ silence > 2 * Timeout THEN silence ELSE silence + 1
    BY DEF Tick, Ready
  <1>2. held' = (held \/ (busy = "write" /\ inbox # <<>>))
    BY DEF Tick
  <1>3. NumbersOK /\ InboxOK /\ FlagsOK /\ ControlOK
    BY TypeParts DEF Inv
  <1>4. NumbersOK' /\ InboxOK'
    BY <1>1, <1>3, Constants DEF NumbersOK, InboxOK
  <1>5. FlagsOK'
    BY <1>1, <1>2, <1>3, Zenon DEF FlagsOK
  <1>6. ControlOK'
    BY <1>1, <1>3 DEF ControlOK
  <1>7. HeardWaits' /\ HandlerHeard'
    BY <1>1 DEF Inv, HeardWaits, HandlerHeard, Waiting
  <1>8. HeldUp'
    <2> SUFFICES ASSUME waiting_for_pong, heard # "no" PROVE held'
      BY <1>1, <1>3 DEF HeldUp, ControlOK
    <2>1. inbox # <<>>
      BY DEF Inv, HeardWaits, Waiting
    <2>2. busy = "write"
      BY <1>1, <1>3, <2>1 DEF Inv, HandlerHeard, ControlOK
    <2> QED
      BY <1>2, <2>1, <2>2
  <1>9. Shared'
    BY <1>1, <1>3, Constants DEF Inv, Shared, NumbersOK
  <1>10. NoResponseDeserved'
    BY <1>1, Constants DEF NoResponseDeserved, Endings
  <1> QED
    BY <1>4, <1>5, <1>6, <1>7, <1>8, <1>9, <1>10, TypeParts DEF Inv

LEMMA OtherStepsKeep == ASSUME Inv, RecvEnd \/ Write \/ Done \/ UNCHANGED vars PROVE Inv'
  <1>1. /\ UNCHANGED <<left, waiting_for_pong, inbox, silence, heard, held>>
        /\ busy' \in {"no", "write", busy}
        /\ closed' = closed \/ closed' \in {"WsClosed", "MaliciousConnection", "error"}
    BY DEF RecvEnd, Write, Done, vars
  <1>2. NumbersOK /\ InboxOK /\ FlagsOK /\ ControlOK
    BY TypeParts DEF Inv
  <1>3. NumbersOK' /\ InboxOK' /\ FlagsOK' /\ ControlOK'
    BY <1>1, <1>2 DEF NumbersOK, InboxOK, FlagsOK, ControlOK, Endings
  <1>4. HeardWaits' /\ HandlerHeard' /\ HeldUp'
    BY <1>1 DEF Inv, HeardWaits, HandlerHeard, HeldUp, Waiting
  <1>5. Shared' /\ NoResponseDeserved'
    BY <1>1, Constants DEF Inv, Shared, NoResponseDeserved, Endings
  <1> QED
    BY <1>3, <1>4, <1>5, TypeParts DEF Inv

LEMMA Inductive == Spec => []Inv
  <1>1. ASSUME Inv, [Next]_vars PROVE Inv'
    BY <1>1, ArriveKeeps, RecvKeeps, TimerKeeps, TickKeeps, OtherStepsKeep DEF Next
  <1> QED
    BY <1>1, Initially, PTL DEF Spec

\* The timeout, the flags and the frames that wait keep their types.
THEOREM TypeCorrect == Spec => []TypeOK
  <1>1. Inv => TypeOK
    BY DEF Inv
  <1> QED
    BY <1>1, Inductive, PTL

\* The loop says "did not respond to our pings" only to a client that has sent
\* nothing readable since the ping, up to this tick, unless a write has held the
\* loop up, for any timeout and any frames.
THEOREM NoResponseJustified == Spec => []NoResponseDeserved
  <1>1. Inv => NoResponseDeserved
    BY DEF Inv
  <1> QED
    BY <1>1, Inductive, PTL

\* A client from which nothing comes is noticed after two timeouts in which the
\* loop could have received, for any timeout.
THEOREM SilenceNoticed == Spec => []SilenceBounded
  <1>1. Inv => SilenceBounded
    <2> SUFFICES ASSUME Inv, closed = None PROVE silence <= 2 * Timeout
      BY DEF SilenceBounded
    <2>1. NumbersOK
      BY TypeParts DEF Inv
    <2> QED
      BY <2>1, Constants DEF Inv, Shared, NumbersOK
  <1> QED
    BY <1>1, Inductive, PTL
================================================================================
