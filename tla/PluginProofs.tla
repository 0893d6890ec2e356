------------------------------ MODULE PluginProofs ------------------------------
(*****************************************************************************)
(* Proofs about the plugin, for any number of calls, events, restarts and    *)
(* capacities: a verdict that a call gets is one the command gave on its     *)
(* event.                                                                    *)
(*                                                                           *)
(* AnswersBelong is not inductive: what RecvLine hands out comes from the    *)
(* pipe, and goes to the call in the cache.  OutputSaid says that the pipe   *)
(* holds what was said, TypeOK that a call is cached under its own event.    *)
(*****************************************************************************)
EXTENDS Plugin, TLAPS

OutputSaid == \A i \in DOMAIN stdout : stdout[i] \in said

Inv == TypeOK /\ AnswersBelong /\ OutputSaid

-------------------------------------------------------------------------------
(* The data.                                                                 *)

\* Every call is about an event.
LEMMA EventsOfCalls == \A c \in Calls : EventOf[c] \in Events
  BY PluginAssumption DEF PluginAssumption, Events, Range

\* The head of a sequence is an element of it, and the tail holds no other.
LEMMA HeadAndTail ==
    ASSUME NEW S, NEW s \in Seq(S), s # <<>>
    PROVE  /\ Head(s) \in S /\ Tail(s) \in Seq(S) /\ Len(Tail(s)) = Len(s) - 1
           /\ 1 \in DOMAIN s /\ Head(s) = s[1]
           /\ \A i \in DOMAIN Tail(s) : i + 1 \in DOMAIN s /\ Tail(s)[i] = s[i + 1]
  OBVIOUS

\* Appending adds one element.
LEMMA Appended ==
    ASSUME NEW S, NEW s \in Seq(S), NEW x \in S
    PROVE  Append(s, x) \in Seq(S) /\ Len(Append(s, x)) = Len(s) + 1
  OBVIOUS

\* There is room for something in the channel and in a pipe.
LEMMA Capacities ==
    /\ InputCap \in Nat /\ 0 < InputCap /\ PipeCap \in Nat /\ 0 < PipeCap
    /\ MaxHeld \in Nat /\ 0 < MaxHeld /\ MaxStarts \in Nat /\ 0 < MaxStarts
  BY PluginAssumption DEF PluginAssumption

\* Without one of its elements, a sequence is shorter.
LEMMA Removed ==
    ASSUME NEW S, NEW s \in Seq(S), NEW i \in DOMAIN s
    PROVE  RemoveAt(s, i) \in Seq(S) /\ Len(RemoveAt(s, i)) = Len(s) - 1
  BY DEF RemoveAt

\* Dropping senders gives nobody a verdict.
LEMMA DroppedCalls ==
    ASSUME TypeOK, NEW calls
    PROVE  /\ Dropped(calls) \in [Calls -> {"new", "sending", "waiting"} \cup Results]
           /\ \A c \in Calls : Dropped(calls)[c] \in {"ok", "rejected"} => Dropped(calls)[c] = call[c]
  BY DEF TypeOK, Dropped, Results

-------------------------------------------------------------------------------

LEMMA Initially == Init => Inv
  <1> SUFFICES ASSUME Init PROVE Inv
    OBVIOUS
  <1>1. TypeOK
    BY PluginAssumption DEF Init, TypeOK, PluginAssumption
  <1>2. AnswersBelong /\ OutputSaid
    BY DEF Init, AnswersBelong, OutputSaid
  <1> QED
    BY <1>1, <1>2 DEF Inv

(* The callers and the cache.                                                *)

LEMMA BeginKeeps == ASSUME Inv, NEW c \in Calls, Begin(c) PROVE Inv'
  <1>1. TypeOK'
    BY DEF Inv, Begin, TypeOK, process
  <1> QED
    BY <1>1 DEF Inv, Begin, TypeOK, AnswersBelong, OutputSaid, process

LEMMA EnqueueKeeps == ASSUME Inv, NEW c \in Calls, Enqueue(c) PROVE Inv'
  <1>1. UNCHANGED <<pc, current, es, stdin, stdout, ends, held, starts, panic, said>>
    BY DEF Enqueue, process
  <1>2. /\ call' \in [Calls -> {"new", "sending", "waiting"} \cup Results]
        /\ \A d \in Calls : call'[d] \in {"ok", "rejected"} => call'[d] = call[d]
    BY DEF Inv, TypeOK, Enqueue, Results
  <1>3. inputs' \in Seq(Calls) /\ Len(inputs') <= InputCap
    <2>1. CASE inputs' = Append(inputs, c) /\ HasRoom
      <3>1. Append(inputs, c) \in Seq(Calls) /\ Len(Append(inputs, c)) = Len(inputs) + 1
        BY Appended DEF Inv, TypeOK
      <3>2. Len(inputs) \in Nat /\ Len(inputs) < InputCap
        BY <2>1 DEF Inv, TypeOK, HasRoom
      <3> QED
        BY <2>1, <3>1, <3>2, Capacities
    <2>2. CASE inputs' = inputs
      BY <2>2 DEF Inv, TypeOK
    <2> QED
      BY <2>1, <2>2 DEF Enqueue
  <1>4. TypeOK'
    BY <1>1, <1>2, <1>3 DEF Inv, TypeOK
  <1> QED
    BY <1>1, <1>2, <1>4 DEF Inv, AnswersBelong, OutputSaid

LEMMA TimeoutKeeps == ASSUME Inv, NEW c \in Calls, Timeout(c) PROVE Inv'
  <1>1. TypeOK'
    BY DEF Inv, Timeout, TypeOK, process, Results
  <1> QED
    BY <1>1 DEF Inv, Timeout, TypeOK, AnswersBelong, OutputSaid, process

LEMMA ForgetKeeps == ASSUME Inv, NEW e \in Events, Forget(e) PROVE Inv'
  <1>1. TypeOK'
    BY DEF Inv, Forget, TypeOK, process
  <1> QED
    BY <1>1 DEF Inv, Forget, AnswersBelong, OutputSaid, process

(* The task.                                                                 *)

\* Ending the task keeps the invariant: at most it has read an answer.
LEMMA EndKeeps ==
    ASSUME Inv, NEW why \in {None, "write", "answer", "line"}, End(why),
           UNCHANGED <<stdin, ends, held, starts, said>>,
           stdout' \in Seq(Events \X Verdicts), Len(stdout') <= PipeCap, OutputSaid'
    PROVE  Inv'
  <1>1. /\ call' \in [Calls -> {"new", "sending", "waiting"} \cup Results]
        /\ \A c \in Calls : call'[c] \in {"ok", "rejected"} => call'[c] = call[c]
    BY DroppedCalls DEF Inv, End
  <1>2. inputs' \in Seq(Calls) /\ Len(inputs') <= InputCap
    BY Capacities DEF End
  <1>3. /\ es' \in [Events -> Calls \cup {None}]
        /\ \A e \in Events : es'[e] # None => EventOf[es'[e]] = e
    BY DEF End
  <1>4. /\ pc' = "ended" /\ current' \in Calls \cup {None}
        /\ panic' \in {None, "write", "answer", "line"}
    BY DEF End, Inv, TypeOK
  <1>5. TypeOK'
    BY <1>1, <1>2, <1>3, <1>4 DEF Inv, TypeOK
  <1> QED
    BY <1>1, <1>5 DEF Inv, AnswersBelong

LEMMA StartKeeps == ASSUME Inv, Start PROVE Inv'
  <1>1. CASE starts < MaxStarts
    <2>1. /\ pc' = "select" /\ starts' = starts + 1
          /\ ends' = Pipes /\ stdin' = <<>> /\ stdout' = <<>> /\ held' = <<>>
          /\ UNCHANGED <<call, inputs, es, current, panic, said>>
      BY <1>1 DEF Start
    <2>2. /\ stdin' \in Seq(Events) /\ Len(stdin') <= PipeCap
          /\ stdout' \in Seq(Events \X Verdicts) /\ Len(stdout') <= PipeCap
          /\ held' \in Seq(Events) /\ Len(held') <= MaxHeld
      BY <2>1, Capacities
    <2>3. starts' \in 0..MaxStarts
      BY <1>1, <2>1, Capacities DEF Inv, TypeOK
    <2>4. TypeOK'
      BY <2>1, <2>2, <2>3 DEF Inv, TypeOK
    <2> QED
      BY <2>1, <2>4 DEF Inv, AnswersBelong, OutputSaid
  <1>2. CASE ~(starts < MaxStarts)
    <2>1. End(None) /\ UNCHANGED <<starts, process, said>>
      BY <1>2 DEF Start
    <2>2. stdout' \in Seq(Events \X Verdicts) /\ Len(stdout') <= PipeCap /\ OutputSaid'
      BY <2>1 DEF process, Inv, TypeOK, OutputSaid
    <2> QED
      BY <2>1, <2>2, EndKeeps DEF process
  <1> QED
    BY <1>1, <1>2

LEMMA RecvEventKeeps == ASSUME Inv, RecvEvent PROVE Inv'
  <1> DEFINE c == Head(inputs)
             e == EventOf[c]
  <1>1. /\ c \in Calls /\ e \in Events
        /\ inputs' = Tail(inputs) /\ inputs' \in Seq(Calls) /\ Len(inputs') = Len(inputs) - 1
        /\ es' = [es EXCEPT ![e] = c] /\ current' = c /\ pc' = "write"
        /\ call' = Dropped({es[e]})
        /\ UNCHANGED <<process, starts, panic, said>>
    BY HeadAndTail, EventsOfCalls DEF Inv, TypeOK, RecvEvent
  <1> HIDE DEF c, e
  <1>2. /\ es' \in [Events -> Calls \cup {None}]
        /\ \A f \in Events : es'[f] # None => EventOf[es'[f]] = f
    BY <1>1 DEF Inv, TypeOK, e
  <1>3. /\ call' \in [Calls -> {"new", "sending", "waiting"} \cup Results]
        /\ \A d \in Calls : call'[d] \in {"ok", "rejected"} => call'[d] = call[d]
    BY <1>1, DroppedCalls DEF Inv
  <1>4. Len(inputs') <= InputCap
    <2>1. Len(inputs) \in Nat /\ Len(inputs) <= InputCap
      BY DEF Inv, TypeOK
    <2> QED
      BY <1>1, <2>1, Capacities
  <1>5. current' \in Calls /\ current' # None
    BY <1>1, PluginAssumption DEF PluginAssumption
  <1>6. TypeOK'
    BY <1>1, <1>2, <1>3, <1>4, <1>5 DEF Inv, TypeOK, process
  <1> QED
    BY <1>1, <1>3, <1>6 DEF Inv, AnswersBelong, OutputSaid, process

LEMMA WriteKeeps == ASSUME Inv, Write PROVE Inv'
  <1>1. CASE "stdin" \notin ends /\ End("write") /\ UNCHANGED process
    <2>1. stdout' \in Seq(Events \X Verdicts) /\ Len(stdout') <= PipeCap /\ OutputSaid'
      BY <1>1 DEF process, Inv, TypeOK, OutputSaid, Write
    <2> QED
      BY <1>1, <2>1, EndKeeps DEF process, Write
  <1>2. CASE /\ "stdin" \in ends /\ Len(stdin) < PipeCap
             /\ stdin' = Append(stdin, EventOf[current])
             /\ pc' = "select" /\ current' = None
             /\ UNCHANGED <<call, inputs, es, stdout, ends, held, panic>>
    <2>1. EventOf[current] \in Events
      BY EventsOfCalls DEF Inv, TypeOK, Write
    <2>2. Append(stdin, EventOf[current]) \in Seq(Events)
          /\ Len(Append(stdin, EventOf[current])) = Len(stdin) + 1
      BY <2>1, Appended DEF Inv, TypeOK
    <2>3. stdin' \in Seq(Events) /\ Len(stdin') <= PipeCap
      <3>1. Len(stdin) \in Nat
        BY DEF Inv, TypeOK
      <3> QED
        BY <1>2, <2>2, <3>1, Capacities
    <2>4. UNCHANGED <<starts, said>>
      BY DEF Write
    <2>5. TypeOK'
      BY <1>2, <2>3, <2>4 DEF Inv, TypeOK
    <2> QED
      BY <1>2, <2>4, <2>5 DEF Inv, AnswersBelong, OutputSaid
  <1> QED
    BY <1>1, <1>2 DEF Write

LEMMA RecvLineKeeps == ASSUME Inv, RecvLine PROVE Inv'
  <1> DEFINE line == Head(stdout)
             e == line[1]
             c == Asker(e)
  <1>1. /\ line \in Events \X Verdicts /\ line \in said
        /\ stdout' \in Seq(Events \X Verdicts) /\ Len(stdout') = Len(stdout) - 1
        /\ \A i \in DOMAIN stdout' : stdout'[i] \in said
    BY HeadAndTail DEF Inv, TypeOK, OutputSaid, RecvLine
  <1>2. /\ e \in Events /\ line[2] \in Verdicts /\ line = <<e, line[2]>>
        /\ c \in Calls \cup {None} /\ (c # None => EventOf[c] = e)
    BY <1>1 DEF Inv, TypeOK, Asker
  <1>3. UNCHANGED <<stdin, ends, held, starts, said>>
    BY DEF RecvLine
  <1>4. Len(stdout') <= PipeCap
    <2>1. Len(stdout) \in Nat /\ Len(stdout) <= PipeCap
      BY DEF Inv, TypeOK
    <2> QED
      BY <1>1, <2>1, Capacities
  <1>5. CASE line[2] = "unreadable" \/ (c # None /\ call[c] # "waiting")
    <2>1. End("line") \/ End("answer")
      BY <1>5 DEF RecvLine
    <2>2. stdout' \in Seq(Events \X Verdicts) /\ Len(stdout') <= PipeCap /\ OutputSaid'
      BY <1>1, <1>3, <1>4 DEF OutputSaid
    <2> QED
      BY <2>1, <2>2, <1>3, EndKeeps
  <1>6. CASE line[2] # "unreadable" /\ ~(c # None /\ call[c] # "waiting")
    <2>1. /\ es' = [es EXCEPT ![e] = None]
          /\ call' = IF c = None THEN call ELSE [call EXCEPT ![c] = line[2]]
          /\ UNCHANGED <<inputs, pc, current, panic>>
      BY <1>6 DEF RecvLine
    <2> HIDE DEF line, e, c
    <2>2. /\ line[2] \in {"ok", "rejected"}
          /\ call' \in [Calls -> {"new", "sending", "waiting"} \cup Results]
          /\ es' \in [Events -> Calls \cup {None}]
          /\ \A f \in Events : es'[f] # None => EventOf[es'[f]] = f
      BY <2>1, <1>2, <1>6, PluginAssumption DEF Inv, TypeOK, PluginAssumption, Results
    <2>3. TypeOK'
      BY <2>1, <2>2, <1>1, <1>3, <1>4 DEF Inv, TypeOK
    <2>4. AnswersBelong'
      BY <2>1, <1>1, <1>2, <1>3 DEF Inv, TypeOK, AnswersBelong
    <2> QED
      BY <2>3, <2>4, <1>1, <1>3 DEF Inv, OutputSaid
  <1> QED
    BY <1>5, <1>6

LEMMA EofKeeps == ASSUME Inv, Eof PROVE Inv'
  <1>1. TypeOK'
    BY DroppedCalls DEF Inv, Eof, TypeOK, process
  <1> QED
    BY <1>1, DroppedCalls DEF Inv, Eof, AnswersBelong, OutputSaid, process

(* The command.                                                              *)

LEMMA TakeKeeps == ASSUME Inv, Take PROVE Inv'
  <1>1. /\ Head(stdin) \in Events /\ Tail(stdin) \in Seq(Events)
        /\ Len(Tail(stdin)) = Len(stdin) - 1
    BY HeadAndTail DEF Inv, TypeOK, Take
  <1>2. TypeOK'
    BY <1>1, PluginAssumption DEF Inv, Take, TypeOK, PluginAssumption
  <1> QED
    BY <1>2 DEF Inv, Take, AnswersBelong, OutputSaid

LEMMA AnswerKeeps ==
    ASSUME Inv, NEW i \in DOMAIN held, NEW verdict \in Verdicts, Answer(i, verdict)
    PROVE  Inv'
  <1>1. /\ held[i] \in Events
        /\ RemoveAt(held, i) \in Seq(Events) /\ Len(RemoveAt(held, i)) = Len(held) - 1
    BY Removed DEF Inv, TypeOK
  <1>2. TypeOK'
    BY <1>1, PluginAssumption DEF Inv, Answer, TypeOK, PluginAssumption
  <1>3. AnswersBelong'
    BY DEF Inv, Answer, AnswersBelong
  <1>4. OutputSaid'
    BY <1>1 DEF Inv, TypeOK, Answer, OutputSaid
  <1> QED
    BY <1>2, <1>3, <1>4 DEF Inv

LEMMA CloseEndsKeeps == ASSUME Inv, NEW closed \in SUBSET Pipes, CloseEnds(closed) PROVE Inv'
  <1>1. TypeOK'
    BY DEF Inv, CloseEnds, TypeOK
  <1> QED
    BY <1>1 DEF Inv, CloseEnds, AnswersBelong, OutputSaid

LEMMA Stutters == ASSUME Inv, UNCHANGED vars PROVE Inv'
  BY DEF Inv, TypeOK, AnswersBelong, OutputSaid, vars, process

-------------------------------------------------------------------------------

LEMMA Inductive == Spec => []Inv
  <1>1. ASSUME Inv, [Next]_vars PROVE Inv'
    <2>1. CASE \E c \in Calls : Begin(c) \/ Enqueue(c) \/ Timeout(c)
      BY <1>1, <2>1, BeginKeeps, EnqueueKeeps, TimeoutKeeps
    <2>2. CASE Task
      BY <1>1, <2>2, StartKeeps, RecvEventKeeps, WriteKeeps, RecvLineKeeps, EofKeeps DEF Task
    <2>3. CASE \E e \in Events : Forget(e)
      BY <1>1, <2>3, ForgetKeeps
    <2>4. CASE Command
      BY <1>1, <2>4, TakeKeeps, AnswerKeeps DEF Command
    <2>5. CASE \E closed \in (SUBSET Pipes) \ {{}} : CloseEnds(closed)
      BY <1>1, <2>5, CloseEndsKeeps
    <2>6. CASE UNCHANGED vars
      BY <1>1, <2>6, Stutters
    <2> QED
      BY <1>1, <2>1, <2>2, <2>3, <2>4, <2>5, <2>6 DEF Next
  <1> QED
    BY <1>1, Initially, PTL DEF Spec

\* The variables of the task, the callers, the cache and the pipes keep their
\* types, and no channel or pipe outgrows its capacity (check_event, recv_event,
\* recv_plugin_response).
THEOREM TypeCorrect == Spec => []TypeOK
  <1>1. Inv => TypeOK
    BY DEF Inv
  <1> QED
    BY <1>1, Inductive, PTL

\* A verdict that check_event returns is one the command gave on its event, for
\* any number of calls, several about one event, and any number of restarts.
THEOREM VerdictsBelong == Spec => []AnswersBelong
  <1>1. Inv => AnswersBelong
    BY DEF Inv
  <1> QED
    BY <1>1, Inductive, PTL
================================================================================
