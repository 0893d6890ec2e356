-------------------------------- MODULE WsHandler ------------------------------
(*****************************************************************************)
(* The select loop of ws_handler in src/lib.rs as a watchdog: frames of the  *)
(* client, messages to the client, and the timer that sends a ping and, if   *)
(* nothing comes, closes the connection.                                     *)
(*                                                                           *)
(* Time passes in ticks.  The loop is prompt: no tick passes while it could  *)
(* go on.  It cannot while a handler waits: for the plugin, or for a client  *)
(* that is slow to read what is sent to it, or never does: neither wait has  *)
(* a timeout.                                                                *)
(*****************************************************************************)
EXTENDS Naturals, Sequences

CONSTANTS
    None,
    Timeout,       \* TIMEOUT_DURATION in ticks
    MaxInbox       \* bound on the frames that wait to be received

\* How the loop ends.
Endings == {"WsClosed", "NoResponse", "MaliciousConnection", "error"}

ASSUME WsHandlerAssumption ==
    Timeout \in Nat \ {0} /\ MaxInbox \in Nat /\ None \notin Endings

VARIABLES
    left,          \* ticks until the timeout
    waiting_for_pong,
    inbox,         \* the client's frames that have not been received
    busy,          \* "no", or what the loop awaits: "handler", "write"
    closed,        \* None, or the ending: a CloseReason or "error"
    silence,       \* history: ticks the loop has waited since it last received
    heard,         \* history: whether a readable frame has come since the last
                   \* ping: "no", "now" (in this tick) or "before"
    held           \* history: time has passed with frames waiting behind a write

vars == <<left, waiting_for_pong, inbox, busy, closed, silence, heard, held>>

\* What recv may return: a frame that is handled at once, a frame whose handler
\* awaits something, or an error of the socket.
Frames == {"pong", "event", "error"}

\* Mutant: a timeout is added to what is left.
TimeoutAdded == left + Timeout

\* timeout_init()
TimeoutInit == Timeout

Init ==
    /\ left = Timeout
    /\ waiting_for_pong = FALSE
    /\ inbox = <<>>
    /\ busy = "no"
    /\ closed = None
    /\ silence = 0 /\ heard = "no" /\ held = FALSE

\* Mutant: nothing but the answer to a ping counts.
ReadablePong(frame) == frame = "pong"

\* Only a frame that can be read shows that the client is there.
Readable(frame) == frame # "error"

Arrive(frame) ==
    /\ closed = None /\ Len(inbox) < MaxInbox
    /\ inbox' = Append(inbox, frame)
    /\ heard' = IF frame # "error" /\ heard = "no" THEN "now" ELSE heard
    /\ UNCHANGED <<left, waiting_for_pong, busy, closed, silence, held>>

\* m = cs.ws.recv()
Recv ==
    LET frame == Head(inbox) IN
    /\ closed = None /\ busy = "no" /\ inbox # <<>>
    /\ inbox' = Tail(inbox)
    /\ left' = TimeoutInit
    /\ waiting_for_pong' = (waiting_for_pong /\ ~Readable(frame))
    /\ silence' = 0 /\ held' = FALSE
    /\ busy' = IF frame = "event" THEN "handler" ELSE "no"
    /\ UNCHANGED <<closed, heard>>

\* The client closes its end.
RecvEnd ==
    /\ closed = None /\ busy = "no" /\ inbox = <<>>
    /\ closed' = "WsClosed"
    /\ UNCHANGED <<left, waiting_for_pong, inbox, busy, silence, heard, held>>

\* Mutant: the timeout starts again with every message.
WriteRestarts ==
    /\ closed = None /\ busy = "no"
    /\ busy' = "write" /\ left' = TimeoutInit
    /\ UNCHANGED <<waiting_for_pong, inbox, closed, silence, heard, held>>

\* A message of a task, or a broadcast event, is written.
Write ==
    /\ closed = None /\ busy = "no"
    /\ busy' = "write"
    /\ UNCHANGED <<left, waiting_for_pong, inbox, closed, silence, heard, held>>

\* The handler is done; with no credit left after an EVENT, or with an error of
\* the socket, the loop ends.
Done ==
    /\ closed = None /\ busy # "no"
    /\ busy' = "no"
    /\ \/ UNCHANGED closed
       \/ busy = "handler" /\ closed' \in {"MaliciousConnection", "error"}
    /\ UNCHANGED <<left, waiting_for_pong, inbox, silence, heard, held>>

\* Mutant: the ping is forgotten.
TimerForgets ==
    /\ closed = None /\ busy = "no" /\ left = 0
    /\ left' = TimeoutInit
    /\ UNCHANGED <<waiting_for_pong, inbox, busy, closed, silence, heard, held>>

\* sleep_until(timeout): the branches of the select are polled in any order.
Timer ==
    /\ closed = None /\ busy = "no" /\ left = 0
    /\ \/ /\ waiting_for_pong
          /\ closed' = "NoResponse"
          /\ UNCHANGED <<left, waiting_for_pong, heard, held, busy>>
       \/ /\ ~waiting_for_pong
          /\ left' = TimeoutInit
          /\ waiting_for_pong' = TRUE
          /\ heard' = IF \E i \in DOMAIN inbox : inbox[i] # "error" THEN "now" ELSE "no"
          /\ held' = FALSE
          /\ busy' \in {"no", "write"}
          /\ UNCHANGED closed
    /\ UNCHANGED <<inbox, silence>>

\* The loop has something to do.
Ready == busy = "no" /\ (inbox # <<>> \/ left = 0)

Tick ==
    /\ closed = None /\ ~Ready
    /\ left' = IF left = 0 THEN 0 ELSE left - 1
    /\ heard' = IF heard = "now" THEN "before" ELSE heard
    /\ held' = (held \/ (busy = "write" /\ inbox # <<>>))
    /\ silence' = IF busy # "no" \/ silence > 2 * Timeout THEN silence ELSE silence + 1
    /\ UNCHANGED <<waiting_for_pong, inbox, busy, closed>>

Next ==
    \/ \E frame \in Frames : Arrive(frame)
    \/ Recv \/ RecvEnd \/ Write \/ Done \/ Timer \/ Tick

Spec == Init /\ [][Next]_vars

\* Time passes.  The branches that are ready are polled in random order each time,
\* so that the timer is not passed over for ever.  A handler or a write need not
\* come to its end: nothing bounds the wait for room in the plugin's channel, nor
\* for a peer that acknowledges everything and reads nothing.
FairSpec == Spec /\ WF_vars(Tick) /\ SF_vars(Timer)

-------------------------------------------------------------------------------

\* The variables have their types.
TypeOK ==
    /\ left \in 0..Timeout
    /\ waiting_for_pong \in BOOLEAN
    /\ inbox \in Seq(Frames) /\ Len(inbox) <= MaxInbox
    /\ busy \in {"no", "handler", "write"}
    /\ closed \in Endings \cup {None}
    /\ silence \in 0..(2 * Timeout + 1)
    /\ heard \in {"no", "now", "before"} /\ held \in BOOLEAN

\* "Closing connection because your client did not respond to our pings": when
\* the loop says so, nothing readable has come since the ping, up to this tick
\* (a frame and the timer may come together), unless it had to wait for a write.
\* The flag, the timeout, and frames that wait behind a slow handler or an error
\* of the socket all bear on it (ws_handler).
NoResponseDeserved == closed = "NoResponse" => heard # "before" \/ held

\* A client from which nothing comes is noticed after two timeouts: one until
\* the ping and one for the answer, not counting the time the loop is held up.
SilenceBounded == closed = None => silence <= 2 * Timeout

\* A client from which nothing comes any more is given up in the end, however many
\* messages are written to it and however slowly, unless a single handler or write
\* never ends: that one await is all that can keep ws_handler from its timer.
SilentClosed == <>[](inbox = <<>>) => <>(closed # None) \/ <>[](busy # "no")

-------------------------------------------------------------------------------
(* What the notice says and the timer is for, and the code does not keep.    *)

\* The notice as it stands: the client has not responded.
NoResponseMeansSilence == closed = "NoResponse" => heard # "before"

\* A client from which nothing comes any more is given up, whatever it does not
\* read: cs.ws.send may wait for ever, and no timer counts meanwhile.
DeafClosed == <>[](inbox = <<>>) => <>(closed # None)
================================================================================
