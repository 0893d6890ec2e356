--------------------------------- MODULE Plugin --------------------------------
(*****************************************************************************)
(* The plugin of src/plugin.rs: connections that wait for a verdict on an    *)
(* event, the task between them and an external command, and the two pipes   *)
(* to the command, which answers in any order, late, never, or exits.        *)
(*****************************************************************************)
EXTENDS Naturals, SequencesExt

CONSTANTS
    None,
    Calls,         \* the calls of check_event
    EventOf,       \* call -> the event it asks about
    InputCap,      \* capacity of the channel to the task (100 in PluginState::new)
    PipeCap,       \* lines that fit in a pipe
    MaxHeld,       \* events the command works on at a time
    MaxStarts,     \* bound on the times the command is started
    Verdicts       \* what the command may answer: "ok", "rejected", or "unreadable"
                   \* when the line is not UTF-8

ASSUME PluginAssumption ==
    /\ None \notin Calls /\ DOMAIN EventOf = Calls
    /\ {InputCap, PipeCap, MaxHeld, MaxStarts} \subseteq Nat \ {0}
    /\ Verdicts \subseteq {"ok", "rejected", "unreadable"}

Events == Range(EventOf)

VARIABLES
    call,          \* call -> "new", "sending", "waiting", or its result
    inputs,        \* the channel to the task
    pc,            \* where the task is: "start", "select", "write" or "ended"
    current,       \* the call being written to the command
    es,            \* the cache: event -> the call that waits, or None
    stdin,         \* events on their way to the command
    stdout,        \* answers on their way back: <<event, verdict>>
    ends,          \* the ends of the pipes that the command holds open: of "stdin"
                   \* and "stdout"; without both it may have exited
    held,          \* the events it works on
    starts,        \* history: how often it was started
    panic,         \* history: which unwrap the task has panicked at, or None
    said           \* history: the <<event, verdict>> the command has answered

process == <<stdin, stdout, ends, held>>
vars == <<call, inputs, pc, current, es, process, starts, panic, said>>

Results == {"ok", "rejected", "error"}

Pipes == {"stdin", "stdout"}

Init ==
    /\ call = [c \in Calls |-> "new"]
    /\ inputs = <<>> /\ pc = "start" /\ current = None
    /\ es = [e \in Events |-> None]
    /\ stdin = <<>> /\ stdout = <<>> /\ ends = {} /\ held = <<>>
    /\ starts = 0 /\ panic = None /\ said = {}

\* The results once the senders of some calls are dropped: who still waits for
\* an answer gets an error.
Dropped(calls) ==
    [c \in Calls |-> IF c \in calls /\ call[c] = "waiting" THEN "error" ELSE call[c]]

Cached == Range(es) \ {None}

-------------------------------------------------------------------------------
(* check_event                                                               *)

Begin(c) ==
    /\ call[c] = "new"
    /\ call' = [call EXCEPT ![c] = "sending"]
    /\ UNCHANGED <<inputs, pc, current, es, process, starts, panic, said>>

\* Mutant: a channel with room for one more, and one that never fails.
HasRoomOne == Len(inputs) <= InputCap
ClosedNever == FALSE

HasRoom == Len(inputs) < InputCap

\* The receiver is dropped with the task.
Closed == pc = "ended"

\* The send waits while the channel is full, and fails once the task has ended.
Enqueue(c) ==
    /\ call[c] = "sending"
    /\ \/ /\ ~Closed /\ HasRoom
          /\ inputs' = Append(inputs, c)
          /\ call' = [call EXCEPT ![c] = "waiting"]
       \/ /\ Closed
          /\ call' = [call EXCEPT ![c] = "error"]
          /\ UNCHANGED inputs
    /\ UNCHANGED <<pc, current, es, process, starts, panic, said>>

\* After 600 s the caller gives up, wherever its question is.
Timeout(c) ==
    /\ call[c] = "waiting"
    /\ call' = [call EXCEPT ![c] = "error"]
    /\ UNCHANGED <<inputs, pc, current, es, process, starts, panic, said>>

-------------------------------------------------------------------------------
(* The task.                                                                 *)

\* It ends, by a panic or because the command cannot be started, and drops all
\* it holds.
End(why) ==
    /\ pc' = "ended" /\ panic' = why
    /\ call' = Dropped(Cached \cup Range(inputs))
    /\ inputs' = <<>> /\ es' = [e \in Events |-> None]
    /\ UNCHANGED current

Start ==
    /\ pc = "start"
    /\ IF starts < MaxStarts
       THEN /\ pc' = "select" /\ starts' = starts + 1
            /\ ends' = Pipes /\ stdin' = <<>> /\ stdout' = <<>> /\ held' = <<>>
            /\ UNCHANGED <<call, inputs, es, current, panic>>
       ELSE End(None) /\ UNCHANGED <<starts, process>>
    /\ UNCHANGED said

\* recv_event: a caller that waits for the same event is replaced.
RecvEvent ==
    LET c == Head(inputs)
        e == EventOf[c]
    IN
    /\ pc = "select" /\ inputs # <<>>
    /\ inputs' = Tail(inputs)
    /\ call' = Dropped({es[e]})
    /\ es' = [es EXCEPT ![e] = c]
    /\ current' = c /\ pc' = "write"
    /\ UNCHANGED <<process, starts, panic, said>>

\* write_all waits while the pipe is full; if the command does not hold its end
\* any more, it fails.
Write ==
    /\ pc = "write"
    /\ \/ /\ "stdin" \in ends /\ Len(stdin) < PipeCap
          /\ stdin' = Append(stdin, EventOf[current])
          /\ pc' = "select" /\ current' = None
          /\ UNCHANGED <<call, inputs, es, stdout, ends, held, panic>>
       \/ /\ "stdin" \notin ends
          /\ End("write")
          /\ UNCHANGED process
    /\ UNCHANGED <<starts, said>>

\* Mutant: the answer goes to whoever waits.
AskerAny(e) == IF Cached = {} THEN None ELSE CHOOSE c \in Cached : TRUE

Asker(e) == es[e]

\* The line has to be UTF-8.  recv_plugin_response: the answer goes to the caller
\* in the cache, if any.
RecvLine ==
    LET e == Head(stdout)[1]
        verdict == Head(stdout)[2]
        c == Asker(e)
    IN
    /\ pc = "select" /\ stdout # <<>>
    /\ stdout' = Tail(stdout)
    /\ IF verdict = "unreadable"
       THEN End("line")
       ELSE IF c # None /\ call[c] # "waiting"
       THEN End("answer")
       ELSE /\ es' = [es EXCEPT ![e] = None]
            /\ call' = IF c = None THEN call ELSE [call EXCEPT ![c] = verdict]
            /\ UNCHANGED <<inputs, pc, current, panic>>
    /\ UNCHANGED <<stdin, ends, held, starts, said>>

\* The command has closed its output, or gone, and its last answer is read: it is
\* started again, with an empty cache.
Eof ==
    /\ pc = "select" /\ "stdout" \notin ends /\ stdout = <<>>
    /\ pc' = "start"
    /\ call' = Dropped(Cached)
    /\ es' = [e \in Events |-> None]
    /\ UNCHANGED <<inputs, current, process, starts, panic, said>>

\* TimedCache forgets an entry 600 s after the task has received the event, and
\* so later than the caller gives up.
Forget(e) ==
    /\ es[e] # None /\ call[es[e]] # "waiting"
    /\ es' = [es EXCEPT ![e] = None]
    /\ UNCHANGED <<call, inputs, pc, current, process, starts, panic, said>>

Task == Start \/ RecvEvent \/ Write \/ RecvLine \/ Eof

-------------------------------------------------------------------------------
(* The command.                                                              *)

Take ==
    /\ "stdin" \in ends /\ stdin # <<>> /\ Len(held) < MaxHeld
    /\ stdin' = Tail(stdin)
    /\ held' = Append(held, Head(stdin))
    /\ UNCHANGED <<call, inputs, pc, current, es, stdout, ends, starts, panic, said>>

Answer(i, verdict) ==
    /\ "stdout" \in ends /\ Len(stdout) < PipeCap
    /\ stdout' = Append(stdout, <<held[i], verdict>>)
    /\ said' = said \cup {<<held[i], verdict>>}
    /\ held' = RemoveAt(held, i)
    /\ UNCHANGED <<call, inputs, pc, current, es, stdin, ends, starts, panic>>

\* The command closes an end, or both, and exits sooner or later.
CloseEnds(closed) ==
    /\ closed \subseteq ends
    /\ ends' = ends \ closed
    /\ UNCHANGED <<call, inputs, pc, current, es, stdin, stdout, held, starts, panic, said>>

Command == Take \/ \E i \in DOMAIN held, verdict \in Verdicts : Answer(i, verdict)

-------------------------------------------------------------------------------

Next ==
    \/ \E c \in Calls : Begin(c) \/ Enqueue(c) \/ Timeout(c)
    \/ Task
    \/ \E e \in Events : Forget(e)
    \/ Command
    \/ \E closed \in (SUBSET Pipes) \ {{}} : CloseEnds(closed)

Spec == Init /\ [][Next]_vars

\* Timers fire, a send that has room comes through, and the task is scheduled.
\* Nothing is assumed of the command ...
Fairness ==
    /\ \A c \in Calls : WF_vars(Enqueue(c)) /\ WF_vars(Timeout(c))
    /\ WF_vars(Task)

\* ... or that it works, as far as its pipes let it.
CommandWorks == WF_vars(Command)

-------------------------------------------------------------------------------

\* The variables have their types.
TypeOK ==
    /\ call \in [Calls -> {"new", "sending", "waiting"} \cup Results]
    /\ inputs \in Seq(Calls) /\ Len(inputs) <= InputCap
    /\ pc \in {"start", "select", "write", "ended"}
    /\ current \in Calls \cup {None} /\ (pc = "write" => current # None)
    /\ es \in [Events -> Calls \cup {None}]
    /\ \A e \in Events : es[e] # None => EventOf[es[e]] = e
    /\ stdin \in Seq(Events) /\ Len(stdin) <= PipeCap
    /\ stdout \in Seq(Events \X Verdicts) /\ Len(stdout) <= PipeCap
    /\ ends \subseteq Pipes
    /\ held \in Seq(Events) /\ Len(held) <= MaxHeld
    /\ starts \in 0..MaxStarts /\ panic \in {None, "write", "answer", "line"}
    /\ said \subseteq Events \X Verdicts

\* A verdict that a connection gets is one the command gave on its event, also
\* when answers come out of order, several connections ask about one event, and
\* the command is started again in between (recv_event, recv_plugin_response).
AnswersBelong ==
    \A c \in Calls : call[c] \in {"ok", "rejected"} => <<EventOf[c], call[c]>> \in said

\* The task is held up by a command that does not take what it is sent.
HeldUp == pc = "write" /\ "stdin" \in ends /\ Len(stdin) = PipeCap

\* A call of check_event comes back, whatever answers the command gives or fails to
\* give and however it ends, unless one write to it never ends and the channel
\* behind it is full: no other await of the call or of the task lasts for ever.
ReturnOrHeldUp ==
    \A c \in Calls :
        (call[c] # "new") ~> (call[c] \in Results \/ [](call[c] = "sending" /\ HeldUp))

-------------------------------------------------------------------------------
(* What the messages of the relay and the unwraps of the task promise, and   *)
(* the code does not keep.                                                   *)

\* "Every ClientMessage::Event will trigger a RelayMessage::OK response", for which
\* handle_event awaits check_event: the call comes back if the command works.
ChecksReturn == \A c \in Calls : (call[c] # "new") ~> (call[c] \in Results)

\* sender.send(..).unwrap(): whoever is in the cache still waits.
AskerWaits == panic # "answer"

\* write_all(..).await.unwrap(): the command takes its input.
CommandReads == panic # "write"
================================================================================
