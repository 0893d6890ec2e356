---------------------------- MODULE GetEventsProofs ----------------------------
(*****************************************************************************)
(* Proofs about a stored query, for any store, filters, batch size and       *)
(* writers: the merge keeps what StoredQuery promises.                       *)
(*                                                                           *)
(* The position, until, divides the Times: whatever is later and has to be   *)
(* sent has been sent (NoneMissed), and whatever is not is still before      *)
(* every iterator that has it (StillAhead), which is why a group may pull    *)
(* the position down to its latest Time.                                     *)
(*****************************************************************************)
EXTENDS GetEvents, WellFoundedInduction, TLAPS

\* The parts of TypeOK.
StoreOK ==
    /\ conditions \subseteq UNION {KeysOf[t] \X {t} : t \in Times}
    /\ time \subseteq events /\ events \subseteq Times
    /\ writes \in [Times -> {"no", "add", "remove"}]
    /\ always \subseteq events /\ events \subseteq ever /\ ever \subseteq Times
PositionOK ==
    /\ pc \in {"new", "open", "loop", "visit", "get", "done"}
    /\ filter \in Filters /\ limit \in Nat
    /\ until \in Nat \X (0..MaxU64)
    /\ batch \in 0..(Batch - 1)
    /\ out \in Seq(Times)
CursorsOK ==
    /\ cursors = [g \in Groups |-> cursors[g]]
    /\ \A g \in Groups :
          /\ DOMAIN cursors[g] \subseteq filter.conditions[g]
          /\ cursors[g] \in [DOMAIN cursors[g] -> Cursor]
    /\ closed \subseteq Iterators
    /\ todo \subseteq Groups /\ heads \subseteq Groups

LEMMA TypeParts == TypeOK <=> StoreOK /\ PositionOK /\ CursorsOK
  BY DEF TypeOK, StoreOK, PositionOK, CursorsOK

\* An event that is being written is there, and one that has been there all
\* along is not being written and has all its keys.
Underway == \A t \in Times : writes[t] # "no" => t \in events
Kept ==
    \A t \in always :
        writes[t] = "no" /\ t \in time /\ KeysOf[t] \X {t} \subseteq conditions

\* The merge works on open iterators.
AllOpen == pc \in {"loop", "visit", "get"} => closed = {}

\* An iterator only has Times of its condition.
ByKey ==
    \A g \in Groups : \A c \in DOMAIN cursors[g] :
        /\ cursors[g][c].head # None => c \in KeysOf[cursors[g][c].head]
        /\ \A t \in cursors[g][c].snap : c \in KeysOf[t]

\* What has been there all along, and is not later than the position, is still
\* before each of its iterators, and not later than the cached head.
StillAhead ==
    \A g \in Groups : \A c \in filter.conditions[g] : \A s \in always :
        c \in KeysOf[s] /\ ~Later(s, until) =>
            /\ c \in DOMAIN cursors[g]
            /\ <<g, c>> \notin closed => s \in cursors[g][c].snap
            /\ cursors[g][c].head # None => ~Later(s, cursors[g][c].head)

\* The groups that agree have an iterator at the position.
Agreed ==
    pc = "visit" => \A g \in heads :
        until \in Times /\ \E c \in DOMAIN cursors[g] : cursors[g][c].head = until

\* What all groups have agreed on matches the filter.
Found ==
    pc = "get" => /\ until \in Times
                  /\ \A g \in Groups : filter.conditions[g] \cap KeysOf[until] # {}

\* The limit and the position only go down, and nothing is searched for.
Counted ==
    /\ limit + Len(out) = filter.limit /\ (pc \in {"visit", "get"} => limit # 0)
    /\ until[1] <= filter.until
    /\ pc \notin {"new", "done"} => ~filter.search

\* What has been sent is later than the position, and nothing that has to be sent
\* and is later has been passed over.
Sent == \A i \in DOMAIN out : Later(out[i], until)
NoneMissed ==
    pc # "done" => \A s \in Matching(always) : Later(s, until) => s \in Range(out)

Inv ==
    /\ StoreOK /\ PositionOK /\ CursorsOK /\ Underway /\ Kept
    /\ AllOpen /\ ByKey /\ StillAhead /\ Agreed /\ Found /\ Counted /\ Sent /\ NoneMissed
-------------------------------------------------------------------------------
(* The order of Times.                                                       *)

Position == Nat \X (0..MaxU64)

LEMMA Parameters ==
    /\ Times \subseteq Position /\ \A t \in Times : t[2] # 0
    /\ MaxU64 \in Nat /\ Batch \in Nat \ {0} /\ Written \subseteq Times /\ None \notin Times
    /\ \A f \in Filters : f.since \in Nat /\ f.until \in Nat /\ f.limit \in Nat
  BY GetEventsAssumption DEF GetEventsAssumption, Position

LEMMA Order ==
    ASSUME NEW s \in Position, NEW t \in Position, NEW u \in Position
    PROVE  /\ ~Later(s, s)
           /\ Later(s, t) /\ ~Later(u, t) => Later(s, u)
           /\ ~Later(s, t) /\ ~Later(t, u) => ~Later(s, u)
           /\ ~Later(s, t) /\ ~Later(t, s) => s = t
  BY GetEventsAssumption DEF GetEventsAssumption, Position, Later

\* The position before one that is not at number zero.
LEMMA Before ==
    ASSUME NEW p \in Position, p[2] # 0
    PROVE  /\ Pred(p) \in Position /\ Pred(p)[1] = p[1] /\ Later(p, Pred(p))
           /\ \A s \in Position : Later(s, Pred(p)) <=> Later(s, p) \/ s = p
  BY GetEventsAssumption DEF GetEventsAssumption, Position, Later, Pred

\* Every set of natural numbers has a least element.
LEMMA Least ==
    ASSUME NEW S \in SUBSET Nat, S # {}
    PROVE  \E n \in S : \A m \in S : n <= m
  <1> DEFINE R == OpToRel(<, Nat)
  <1>1. IsWellFoundedOn(R, Nat)
    BY NatLessThanWellFounded
  <1>2. R = {ss \in Nat \X Nat : ss[1] < ss[2]}
    BY DEF OpToRel
  <1> HIDE DEF R
  <1>3. PICK n \in S : \A m \in S : ~(<<m, n>> \in R)
    BY <1>1, WFMin
  <1>4. \A m \in S : ~(m < n)
    BY <1>2, <1>3
  <1> QED
    BY <1>3, <1>4

\* A bounded set of Times has a latest one, although there is no bound on them.
LEMMA LatestOf ==
    ASSUME NEW S \in SUBSET Position, NEW p \in Position, S # {},
           \A s \in S : ~Later(s, p)
    PROVE  Latest(S) \in S /\ \A s \in S : ~Later(s, Latest(S))
  <1> DEFINE Behind == {p[1] - s[1] : s \in S}
  <1>1. MaxU64 \in Nat
    BY Parameters
  <1>2. \A s \in S : s[1] \in Nat /\ s[2] \in 0..MaxU64 /\ p[1] - s[1] \in Nat
    BY <1>1 DEF Position, Later
  <1>3. PICK n \in Behind : \A m \in Behind : n <= m
    <2>1. Behind \in SUBSET Nat /\ Behind # {}
      BY <1>2
    <2> QED
      BY <2>1, Least
  <1>4. PICK a \in S : n = p[1] - a[1]
    OBVIOUS
  <1>5. \A s \in S : s[1] <= a[1]
    BY <1>2, <1>3, <1>4 DEF Position
  <1> DEFINE Below == {MaxU64 - s[2] : s \in {s \in S : s[1] = a[1]}}
  <1>6. Below \subseteq Nat /\ Below # {}
    BY <1>1, <1>2, <1>4
  <1>7. PICK k \in Below : \A m \in Below : k <= m
    BY <1>6, Least
  <1>8. PICK b \in S : b[1] = a[1] /\ k = MaxU64 - b[2]
    OBVIOUS
  <1>9. \A s \in S : s[1] = a[1] => s[2] <= b[2]
    BY <1>1, <1>2, <1>7, <1>8
  <1>10. \A s \in S : ~Later(s, b)
    BY <1>2, <1>5, <1>8, <1>9 DEF Later
  <1> QED
    BY <1>8, <1>10 DEF Latest

\* The latest Time up to a position of a set of Times.
LEMMA LatestUpTo ==
    ASSUME NEW S \in SUBSET Times, NEW p \in Position, UpTo(S, p) # {}
    PROVE  /\ Latest(UpTo(S, p)) \in S /\ ~Later(Latest(UpTo(S, p)), p)
           /\ \A s \in S : ~Later(s, p) => ~Later(s, Latest(UpTo(S, p)))
  <1>1. UpTo(S, p) \in SUBSET Position /\ \A s \in UpTo(S, p) : ~Later(s, p)
    BY Parameters DEF UpTo
  <1>2. Latest(UpTo(S, p)) \in UpTo(S, p)
    BY <1>1, LatestOf
  <1>3. \A s \in UpTo(S, p) : ~Later(s, Latest(UpTo(S, p)))
    BY <1>1, LatestOf
  <1> QED
    BY <1>2, <1>3 DEF UpTo

\* What a group is after its heads have been pulled up to a position: what is
\* left of the iterators is behind their heads, and none that has something
\* left is dropped.
LEMMA Advanced ==
    ASSUME NEW D, NEW group \in [D -> Cursor], NEW p \in Position,
           NEW new, new = Advance(group, p)
    PROVE  /\ DOMAIN new \subseteq D /\ new \in [DOMAIN new -> Cursor]
           /\ \A c \in DOMAIN new :
                 /\ new[c].snap = group[c].snap
                 /\ new[c].head \in Times /\ ~Later(new[c].head, p)
                 /\ new[c].head = group[c].head \/ new[c].head \in group[c].snap
           /\ \A c \in D : \A s \in group[c].snap :
                 ~Later(s, p) /\ (group[c].head # None => ~Later(s, group[c].head)) =>
                     c \in DOMAIN new /\ ~Later(s, new[c].head)
  <1> DEFINE isHead(c) == group[c].head # None /\ ~Later(group[c].head, p)
             head(c) == IF isHead(c) THEN group[c].head ELSE Latest(UpTo(group[c].snap, p))
  <1>1. DOMAIN new = {c \in D : isHead(c) \/ UpTo(group[c].snap, p) # {}}
    BY DEF Advance
  <1>2. \A c \in DOMAIN new : new[c] = [group[c] EXCEPT !.head = head(c)]
    BY <1>1 DEF Advance
  <1>3. \A c \in D : group[c].head \in Times \cup {None} /\ group[c].snap \in SUBSET Times
    BY DEF Cursor
  <1>4. \A c \in DOMAIN new :
           /\ head(c) \in Times /\ ~Later(head(c), p)
           /\ head(c) = group[c].head \/ head(c) \in group[c].snap
    BY <1>1, <1>3, LatestUpTo
  <1>5. \A c \in D : \A s \in group[c].snap :
           ~Later(s, p) /\ (group[c].head # None => ~Later(s, group[c].head)) =>
               c \in DOMAIN new /\ ~Later(s, head(c))
    BY <1>1, <1>3, LatestUpTo DEF UpTo
  <1> HIDE DEF head
  <1>6. \A c \in DOMAIN new :
           new[c] \in Cursor /\ new[c].head = head(c) /\ new[c].snap = group[c].snap
    <2> TAKE c \in DOMAIN new
    <2>1. group[c] \in Cursor /\ head(c) \in Times /\ new[c] = [group[c] EXCEPT !.head = head(c)]
      BY <1>1, <1>2, <1>4
    <2> QED
      BY <2>1 DEF Cursor
  <1>7. DOMAIN new \subseteq D /\ new \in [DOMAIN new -> Cursor]
    <2>1. new = [c \in DOMAIN new |-> new[c]]
      BY <1>1 DEF Advance
    <2> QED
      BY <1>1, <1>6, <2>1
  <1> QED
    BY <1>4, <1>5, <1>6, <1>7

\* Where a group of which something is left pulls the position.
LEMMA Pulled ==
    ASSUME NEW D, D # {}, NEW group \in [D -> Cursor], NEW p \in Position,
           \A c \in D : group[c].head \in Times /\ ~Later(group[c].head, p),
           NEW latest, latest = Latest({group[c].head : c \in D})
    PROVE  /\ latest \in Times /\ ~Later(latest, p)
           /\ \E c \in D : group[c].head = latest
           /\ \A c \in D : ~Later(group[c].head, latest)
  <1> DEFINE S == {group[c].head : c \in D}
  <1>1. S \in SUBSET Position /\ S # {} /\ \A s \in S : ~Later(s, p)
    BY Parameters
  <1> HIDE DEF S
  <1>2. Latest(S) \in S /\ \A s \in S : ~Later(s, Latest(S))
    BY <1>1, LatestOf
  <1> QED
    BY <1>2 DEF S
-------------------------------------------------------------------------------
(* The writers.                                                              *)

LEMMA WritersKeepStore ==
    ASSUME StoreOK, Underway, Kept, NEW t \in Times, Write(t)
    PROVE  StoreOK' /\ Underway' /\ Kept' /\ always' \subseteq always
  <1>1. CASE PutEvent(t)
    BY <1>1 DEF PutEvent, StoreOK, Underway, Kept
  <1>2. CASE PutKey(t)
    <2>1. /\ UNCHANGED <<time, events, writes, ever, always>>
          /\ \E c \in KeysOf[t] : conditions' = conditions \cup {<<c, t>>}
      BY <1>2 DEF PutKey
    <2>2. conditions \subseteq conditions'
          /\ conditions' \subseteq UNION {KeysOf[s] \X {s} : s \in Times}
      BY <2>1 DEF StoreOK
    <2> QED
      BY <2>1, <2>2 DEF StoreOK, Underway, Kept
  <1>3. CASE PutTime(t)
    BY <1>3 DEF PutTime, StoreOK, Underway, Kept
  <1>4. CASE StartRemove(t)
    BY <1>4 DEF StartRemove, StoreOK, Underway, Kept
  <1>5. CASE DeleteKey(t)
    <2>1. /\ UNCHANGED <<time, events, writes, ever, always>>
          /\ writes[t] = "remove" /\ \E c \in KeysOf[t] : conditions' = conditions \ {<<c, t>>}
      BY <1>5 DEF DeleteKey
    <2>2. t \notin always
      BY <2>1 DEF Kept
    <2>3. /\ conditions' \subseteq conditions
          /\ \A s \in Times : s # t => (KeysOf[s] \X {s} \subseteq conditions =>
                                            KeysOf[s] \X {s} \subseteq conditions')
      BY <2>1
    <2> QED
      BY <2>1, <2>2, <2>3 DEF StoreOK, Underway, Kept
  <1>6. CASE DeleteTime(t)
    BY <1>6 DEF DeleteTime, StoreOK, Underway, Kept
  <1>7. CASE DeleteEvent(t)
    BY <1>7 DEF DeleteEvent, StoreOK, Underway, Kept
  <1> QED
    BY <1>1, <1>2, <1>3, <1>4, <1>5, <1>6, <1>7 DEF Write

\* The rest of the invariant only asks less when less has been there all along.
LEMMA WriteKeeps == ASSUME Inv, NEW t \in Written, Write(t) PROVE Inv'
  <1>1. StoreOK' /\ Underway' /\ Kept' /\ always' \subseteq always
    BY WritersKeepStore, Parameters DEF Inv
  <1>2. UNCHANGED <<filter, pc, limit, until, cursors, closed, todo, heads, batch, out>>
    BY DEF Write, query
  <1>3. PositionOK' /\ CursorsOK' /\ AllOpen' /\ ByKey' /\ Agreed' /\ Found' /\ Counted' /\ Sent'
    <2>1. PositionOK' /\ AllOpen' /\ Counted' /\ Sent'
      BY <1>2 DEF Inv, PositionOK, AllOpen, Counted, Sent
    <2>2. CursorsOK'
      BY <1>2 DEF Inv, CursorsOK, Groups, Iterators
    <2>3. ByKey' /\ Agreed' /\ Found'
      BY <1>2 DEF Inv, ByKey, Agreed, Found, Groups
    <2> QED
      BY <2>1, <2>2, <2>3
  <1>4. StillAhead'
    BY <1>1, <1>2 DEF Inv, StillAhead, Groups
  <1>5. NoneMissed'
    BY <1>1, <1>2 DEF Inv, NoneMissed, Matching, Groups
  <1> QED
    BY <1>1, <1>3, <1>4, <1>5 DEF Inv
-------------------------------------------------------------------------------
(* The query.                                                                *)

\* While the query has not moved, what it has found and sent stands.
LEMMA Standing ==
    ASSUME Inv, UNCHANGED <<store, filter>>
    PROVE  /\ UNCHANGED <<conditions, time, events, writes, ever, always>>
           /\ StoreOK' /\ Underway' /\ Kept'
           /\ UNCHANGED cursors => ByKey'
           /\ UNCHANGED <<until, cursors, closed>> => StillAhead'
           /\ UNCHANGED <<until, out>> /\ pc # "done" => Sent' /\ NoneMissed'
           /\ UNCHANGED <<cursors, closed>> =>
                  (todo' \subseteq Groups /\ heads' \subseteq Groups => CursorsOK')
  <1>1. UNCHANGED <<conditions, time, events, writes, ever, always>>
    BY DEF store
  <1>2. StoreOK' /\ Underway' /\ Kept'
    BY <1>1 DEF Inv, StoreOK, Underway, Kept
  <1>3. UNCHANGED cursors => ByKey'
    BY DEF Inv, ByKey, Groups
  <1>4. UNCHANGED <<until, cursors, closed>> => StillAhead'
    BY <1>1 DEF Inv, StillAhead, Groups
  <1>5. UNCHANGED <<until, out>> /\ pc # "done" => Sent' /\ NoneMissed'
    BY <1>1 DEF Inv, Sent, NoneMissed, Matching, Groups
  <1>6. UNCHANGED <<cursors, closed>> =>
            (todo' \subseteq Groups /\ heads' \subseteq Groups => CursorsOK')
    BY DEF Inv, CursorsOK, Groups, Iterators
  <1> QED
    BY <1>1, <1>2, <1>3, <1>4, <1>5, <1>6

\* The steps that only move on: New, Opened, and Loop.
LEMMA MovingOnKeeps == 
    ASSUME Inv, UNCHANGED <<store, filter>>, New \/ Opened \/ Loop
    PROVE  Inv'
  <1>1. /\ UNCHANGED <<limit, until, cursors, closed, batch, out>>
        /\ pc # "done" /\ pc' \in {"done", "open", "loop", "visit"}
        /\ pc' \in {"loop", "visit"} => closed = {}
        /\ pc' = "visit" => limit # 0 /\ heads' = {}
        /\ todo' \subseteq Groups /\ heads' \subseteq Groups
        /\ pc' # "done" => ~filter.search
    BY DEF New, Opened, Loop, Inv, AllOpen, CursorsOK, Counted
  <1>2. PositionOK'
    BY <1>1 DEF Inv, PositionOK
  <1>3. AllOpen' /\ Agreed' /\ Found' /\ Counted'
    BY <1>1 DEF Inv, AllOpen, Agreed, Found, Counted
  <1> QED
    BY <1>1, <1>2, <1>3, Standing DEF Inv

\* The end of a round: what all groups agree on is what their iterators are at.
LEMMA RoundKeeps == ASSUME Inv, UNCHANGED <<store, filter>>, Round PROVE Inv'
  <1>1. /\ UNCHANGED <<limit, until, cursors, closed, heads, batch, out>>
        /\ pc = "visit" /\ Groups # {} /\ todo = {}
        /\ \/ pc' = "get" /\ heads = Groups /\ todo' = todo
           \/ pc' = "visit" /\ todo' = Groups
    BY DEF Round
  <1>2. PositionOK'
    BY <1>1 DEF Inv, PositionOK
  <1>3. AllOpen' /\ Agreed' /\ Counted'
    BY <1>1 DEF Inv, AllOpen, Agreed, Counted
  <1>4. Found'
    <2>1. SUFFICES ASSUME pc' = "get"
                   PROVE  /\ until \in Times
                          /\ \A g \in Groups : filter.conditions[g] \cap KeysOf[until] # {}
      BY <1>1 DEF Found, Groups
    <2>2. \A g \in Groups : until \in Times /\ filter.conditions[g] \cap KeysOf[until] # {}
      <3> TAKE g \in Groups
      <3>1. PICK c \in DOMAIN cursors[g] : until \in Times /\ cursors[g][c].head = until
        BY <1>1, <2>1 DEF Inv, Agreed
      <3>2. c \in filter.conditions[g]
        BY DEF Inv, CursorsOK
      <3>3. c \in KeysOf[until]
        BY <3>1, Parameters DEF Inv, ByKey
      <3> QED
        BY <3>1, <3>2, <3>3
    <2> QED
      BY <1>1, <2>2
  <1>5. CursorsOK'
    <2>1. todo' \subseteq Groups /\ heads' \subseteq Groups
      BY <1>1 DEF Inv, CursorsOK
    <2> QED
      BY <1>1, <2>1, Standing
  <1> QED
    BY <1>1, <1>2, <1>3, <1>4, <1>5, Standing DEF Inv

\* When the position goes down, less is left to find, and what has been sent is
\* still later.
LEMMA MovedDown ==
    ASSUME Inv, UNCHANGED <<store, filter>>, until' \in Position, ~Later(until', until)
    PROVE  /\ until'[1] <= filter.until
           /\ \A s \in Times : ~Later(s, until') => ~Later(s, until)
           /\ cursors' = cursors /\ closed \subseteq closed' => StillAhead'
           /\ out' = out => Sent'
  <1>1. until \in Position /\ out \in Seq(Times)
    BY DEF Inv, PositionOK, Position
  <1>2. \A s \in Times : ~Later(s, until') => ~Later(s, until)
    BY <1>1, Order, Parameters
  <1>3. until'[1] <= filter.until
    <2>1. until'[1] <= until[1] /\ until[1] <= filter.until
      BY <1>1 DEF Inv, Counted, Later, Position
    <2>2. filter.until \in Nat
      BY Parameters DEF Inv, PositionOK
    <2> QED
      BY <1>1, <2>1, <2>2 DEF Position
  <1>4. cursors' = cursors /\ closed \subseteq closed' => StillAhead'
    <2>1. always' = always /\ filter' = filter /\ always \subseteq Times
      BY DEF store, Inv, StoreOK
    <2> QED
      BY <1>2, <2>1 DEF Inv, StillAhead, Groups
  <1>5. out' = out => Sent'
    <2>1. \A i \in DOMAIN out : out[i] \in Position /\ Later(out[i], until)
      BY <1>1, Parameters DEF Inv, Sent
    <2>2. \A i \in DOMAIN out : Later(out[i], until')
      BY <1>1, <2>1, Order
    <2> QED
      BY <2>2 DEF Sent
  <1> QED
    BY <1>2, <1>3, <1>4, <1>5

\* Without conditions, the newest Time is the next one there is.
LEMMA NextTimeKeeps == ASSUME Inv, UNCHANGED <<store, filter>>, NextTime PROVE Inv'
  <1>1. /\ UNCHANGED <<limit, cursors, closed, todo, heads, batch, out>>
        /\ pc = "visit" /\ Groups = {}
        /\ \/ pc' = "done" /\ until' = until
           \/ /\ pc' = "get" /\ UpTo(time, until) # {}
              /\ until' = Latest(UpTo(time, until))
    BY DEF NextTime
  <1>2. time \in SUBSET Times /\ until \in Position /\ always \subseteq time
    BY DEF Inv, StoreOK, PositionOK, Position, Kept
  <1>3. CASE pc' = "done" /\ until' = until
    <2>1. PositionOK'
      BY <1>1, <1>3 DEF Inv, PositionOK
    <2>2. AllOpen' /\ Agreed' /\ Found' /\ Counted'
      BY <1>1, <1>3 DEF Inv, AllOpen, Agreed, Found, Counted
    <2>3. todo' \subseteq Groups /\ heads' \subseteq Groups
      BY <1>1 DEF Inv, CursorsOK
    <2> QED
      BY <1>1, <1>3, <2>1, <2>2, <2>3, Standing DEF Inv
  <1>4. CASE pc' = "get" /\ UpTo(time, until) # {} /\ until' = Latest(UpTo(time, until))
    <2>1. /\ until' \in Times /\ until' \in Position /\ ~Later(until', until)
          /\ \A s \in time : ~Later(s, until) => ~Later(s, until')
      BY <1>2, <1>4, LatestUpTo, Parameters
    <2>2. PositionOK'
      BY <1>1, <1>4, <2>1 DEF Inv, PositionOK, Position
    <2>3. AllOpen' /\ Agreed'
      BY <1>1, <1>4 DEF Inv, AllOpen, Agreed
    <2>4. Found'
      BY <1>1, <2>1 DEF Found, Groups
    <2>5. Counted' /\ StillAhead' /\ Sent'
      <3>1. until'[1] <= filter.until /\ StillAhead' /\ Sent'
        BY <1>1, <2>1, MovedDown
      <3> QED
        BY <1>1, <1>4, <3>1 DEF Inv, Counted
    <2>6. NoneMissed'
      BY <1>1, <1>2, <2>1 DEF Inv, NoneMissed, Matching, Groups, store
    <2>7. todo' \subseteq Groups /\ heads' \subseteq Groups
      BY <1>1 DEF Inv, CursorsOK
    <2> QED
      BY <1>1, <2>2, <2>3, <2>4, <2>5, <2>6, <2>7, Standing DEF Inv
  <1> QED
    BY <1>1, <1>3, <1>4

\* Sending an event: the position goes below it.
LEMMA Appended ==
    ASSUME NEW S, NEW s \in Seq(S), NEW x \in S
    PROVE  /\ Append(s, x) \in Seq(S) /\ Len(Append(s, x)) = Len(s) + 1
           /\ DOMAIN Append(s, x) = DOMAIN s \cup {Len(s) + 1} /\ Append(s, x)[Len(s) + 1] = x
           /\ \A i \in DOMAIN s : i # Len(s) + 1 /\ Append(s, x)[i] = s[i]
           /\ Range(Append(s, x)) = Range(s) \cup {x}
  <1>1. /\ Append(s, x) \in Seq(S) /\ Len(Append(s, x)) = Len(s) + 1
        /\ DOMAIN Append(s, x) = DOMAIN s \cup {Len(s) + 1} /\ Len(s) + 1 \notin DOMAIN s
        /\ Append(s, x)[Len(s) + 1] = x /\ \A i \in DOMAIN s : Append(s, x)[i] = s[i]
    OBVIOUS
  <1> QED
    BY <1>1 DEF Range

LEMMA GetKeeps == ASSUME Inv, UNCHANGED <<store, filter>>, Get PROVE Inv'
  <1>1. /\ UNCHANGED <<cursors, todo, heads>>
        /\ pc = "get" /\ closed = {} /\ until' = Pred(until)
        /\ \/ pc' = "done" /\ UNCHANGED <<limit, closed, batch, out>>
           \/ /\ until \notin events
              /\ pc' = "loop" /\ UNCHANGED <<limit, closed, batch, out>>
           \/ /\ limit' = limit - 1 /\ out' = Append(out, until)
              /\ \/ pc' = "open" /\ batch' = 0 /\ closed' = Iterators
                 \/ batch + 1 < Batch /\ pc' = "loop" /\ batch' = batch + 1 /\ closed' = closed
    <2>1. batch + 1 < Batch <=> ~Full(batch + 1)
      BY Parameters DEF Inv, PositionOK, Full
    <2> QED
      BY <2>1 DEF Get, Inv, AllOpen
  <1>2. /\ until \in Times /\ until \in Position /\ until[2] # 0
        /\ until' \in Position /\ Later(until, until') /\ ~Later(until', until)
        /\ \A s \in Position : Later(s, until') <=> Later(s, until) \/ s = until
    <2>1. until \in Times /\ until \in Position /\ until[2] # 0
      BY <1>1, Parameters DEF Inv, Found
    <2>2. /\ until' \in Position /\ Later(until, until')
          /\ \A s \in Position : Later(s, until') <=> Later(s, until) \/ s = until
      BY <1>1, <2>1, Before
    <2>3. ~Later(until', until)
      BY <2>1, <2>2, Order
    <2> QED
      BY <2>1, <2>2, <2>3
  <1>3. /\ limit \in Nat /\ limit # 0 /\ limit - 1 \in Nat /\ filter.limit \in Nat
        /\ batch \in 0..(Batch - 1) /\ out \in Seq(Times) /\ Len(out) \in Nat
        /\ limit + Len(out) = filter.limit /\ Batch \in Nat /\ Batch # 0
    BY <1>1, Parameters DEF Inv, PositionOK, Counted
  <1>4. /\ out' \in Seq(Times) /\ limit' \in Nat /\ limit' + Len(out') = filter.limit
        /\ Range(out) \subseteq Range(out')
    <2>1. CASE limit' = limit /\ out' = out
      BY <1>3, <2>1
    <2>2. CASE limit' = limit - 1 /\ out' = Append(out, until)
      <3>1. /\ Append(out, until) \in Seq(Times) /\ Len(Append(out, until)) = Len(out) + 1
            /\ Range(Append(out, until)) = Range(out) \cup {until}
        BY <1>2, <1>3, Appended
      <3> QED
        BY <1>3, <2>2, <3>1
    <2> QED
      BY <1>1, <2>1, <2>2
  <1>5. until'[1] <= filter.until /\ StillAhead' /\ (out' = out => Sent')
    BY <1>1, <1>2, MovedDown
  <1>6. PositionOK'
    BY <1>1, <1>2, <1>3, <1>4 DEF Inv, PositionOK, Position
  <1>7. CursorsOK'
    <2>1. closed' = closed \/ closed' = Iterators
      BY <1>1
    <2> QED
      BY <1>1, <2>1 DEF Inv, CursorsOK, Groups, Iterators
  <1>8. AllOpen' /\ Agreed' /\ Found' /\ Counted'
    <2>1. ~filter.search
      BY <1>1 DEF Inv, Counted
    <2> QED
      BY <1>1, <1>4, <1>5, <2>1 DEF AllOpen, Agreed, Found, Counted
  <1>9. Sent'
    <2>1. CASE out' = Append(out, until)
      <3>1. \A i \in DOMAIN out : out[i] \in Position /\ Later(out[i], until)
        BY <1>3, Parameters DEF Inv, Sent
      <3>2. \A i \in DOMAIN out : Later(out[i], until')
        BY <1>2, <3>1
      <3>3. \A i \in DOMAIN out' : Later(out'[i], until')
        BY <1>2, <1>3, <2>1, <3>2, Appended
      <3> QED
        BY <3>3 DEF Sent
    <2> QED
      BY <1>1, <1>5, <2>1
  <1>10. NoneMissed'
    <2>1. SUFFICES ASSUME pc' # "done", NEW s \in Matching(always), Later(s, until')
                   PROVE  s \in Range(out')
      BY DEF NoneMissed, Matching, Groups, store
    <2>2. s \in always /\ s \in Position /\ s \in events
      BY Parameters DEF Matching, Inv, StoreOK
    <2>3. CASE Later(s, until)
      BY <1>1, <1>4, <2>3 DEF Inv, NoneMissed
    <2>4. CASE s = until
      <3>1. out' = Append(out, until)
        BY <1>1, <2>1, <2>2, <2>4
      <3> QED
        BY <1>2, <1>3, <2>4, <3>1, Appended
    <2> QED
      BY <1>2, <2>1, <2>2, <2>3, <2>4
  <1> QED
    BY <1>1, <1>5, <1>6, <1>7, <1>8, <1>9, <1>10, Standing DEF Inv

\* Opening an iterator takes its snapshot and keeps its head.
LEMMA Reopened ==
    ASSUME CursorsOK, NEW g \in Groups, NEW c \in DOMAIN cursors[g], Open(g, c),
           Hits(c) \in SUBSET Times
    PROVE  /\ cursors' = [h \in Groups |-> cursors'[h]]
           /\ \A h \in Groups : /\ DOMAIN cursors'[h] = DOMAIN cursors[h]
                                /\ cursors'[h] \in [DOMAIN cursors[h] -> Cursor]
                                /\ \A d \in DOMAIN cursors[h] :
                                      /\ cursors'[h][d].head = cursors[h][d].head
                                      /\ cursors'[h][d].snap = IF h = g /\ d = c THEN Hits(c)
                                                              ELSE cursors[h][d].snap
  <1> DEFINE S == Hits(c)
             new == cursors'
  <1>0. new = [cursors EXCEPT ![g][c].snap = S] /\ S \in SUBSET Times
    BY DEF Open
  <1> HIDE DEF S, new
  <1> DEFINE iterator == [cursors[g][c] EXCEPT !.snap = S]
             group == [cursors[g] EXCEPT ![c] = iterator]
  <1>1. \A h \in Groups : cursors[h] \in [DOMAIN cursors[h] -> Cursor]
    BY DEF CursorsOK
  <1>2. cursors[g][c] \in Cursor
    BY <1>1
  <1>3. iterator \in Cursor /\ iterator.head = cursors[g][c].head /\ iterator.snap = S
    BY <1>0, <1>2 DEF Cursor
  <1>4. new = [cursors EXCEPT ![g] = group]
    BY <1>0
  <1> HIDE DEF iterator
  <1>5. /\ DOMAIN group = DOMAIN cursors[g] /\ group \in [DOMAIN cursors[g] -> Cursor]
        /\ \A d \in DOMAIN cursors[g] :
              group[d] = IF d = c THEN iterator ELSE cursors[g][d]
    BY <1>1, <1>3
  <1> HIDE DEF group
  <1>6. /\ DOMAIN cursors = Groups /\ new = [h \in Groups |-> new[h]]
        /\ \A h \in Groups : new[h] = IF h = g THEN group ELSE cursors[h]
    BY <1>4 DEF CursorsOK
  <1>7. /\ DOMAIN new[g] = DOMAIN cursors[g] /\ new[g] \in [DOMAIN cursors[g] -> Cursor]
        /\ \A d \in DOMAIN cursors[g] :
              /\ new[g][d].head = cursors[g][d].head
              /\ new[g][d].snap = IF d = c THEN S ELSE cursors[g][d].snap
    <2>1. new[g] = group
      BY <1>6
    <2>2. \A d \in DOMAIN cursors[g] : d # c => group[d] = cursors[g][d]
      BY <1>5
    <2>3. group[c] = iterator
      BY <1>5
    <2>4. \A d \in DOMAIN cursors[g] :
             /\ group[d].head = cursors[g][d].head
             /\ group[d].snap = IF d = c THEN S ELSE cursors[g][d].snap
      BY <1>3, <2>2, <2>3
    <2> QED
      BY <1>5, <2>1, <2>4
  <1>8. \A h \in Groups : h # g => new[h] = cursors[h]
    BY <1>6
  <1>9. ASSUME NEW h \in Groups
        PROVE  /\ DOMAIN new[h] = DOMAIN cursors[h]
               /\ new[h] \in [DOMAIN cursors[h] -> Cursor]
               /\ \A d \in DOMAIN cursors[h] :
                     /\ new[h][d].head = cursors[h][d].head
                     /\ new[h][d].snap = IF h = g /\ d = c THEN S ELSE cursors[h][d].snap
    <2>1. CASE h = g
      BY <1>7, <2>1
    <2>2. CASE h # g
      <3>1. new[h] = cursors[h] /\ cursors[h] \in [DOMAIN cursors[h] -> Cursor]
        BY <1>1, <1>8, <2>2
      <3> QED
        BY <2>2, <3>1
    <2> QED
      BY <2>1, <2>2
  <1> QED
    BY <1>6, <1>9 DEF S, new

LEMMA OpenKeeps ==
    ASSUME Inv, UNCHANGED <<store, filter>>,
           NEW g \in Groups, NEW c \in DOMAIN cursors[g], Open(g, c)
    PROVE  Inv'
  <1>1. /\ UNCHANGED <<pc, limit, until, todo, heads, batch, out>>
        /\ pc = "open" /\ <<g, c>> \in closed /\ closed' = closed \ {<<g, c>>}
    BY DEF Open
  <1>2. Hits(c) \in SUBSET Times /\ \A t \in Hits(c) : c \in KeysOf[t]
    BY DEF Hits, Inv, StoreOK
  <1>3. /\ cursors' = [h \in Groups |-> cursors'[h]]
        /\ \A h \in Groups : /\ DOMAIN cursors'[h] = DOMAIN cursors[h]
                             /\ cursors'[h] \in [DOMAIN cursors[h] -> Cursor]
                             /\ \A d \in DOMAIN cursors[h] :
                                   /\ cursors'[h][d].head = cursors[h][d].head
                                   /\ cursors'[h][d].snap = IF h = g /\ d = c THEN Hits(c)
                                                            ELSE cursors[h][d].snap
    <2>1. CursorsOK
      BY DEF Inv
    <2> QED
      BY <1>2, <2>1, Reopened
  <1>4. PositionOK' /\ AllOpen' /\ Agreed' /\ Found' /\ Counted'
    BY <1>1 DEF Inv, PositionOK, AllOpen, Agreed, Found, Counted
  <1>5. CursorsOK'
    <2>1. Iterators' = Iterators
      BY <1>3 DEF Iterators, Groups
    <2> QED
      BY <1>1, <1>3, <2>1 DEF Inv, CursorsOK, Groups
  <1>6. ByKey'
    BY <1>2, <1>3 DEF Inv, ByKey, Groups
  <1>7. StillAhead'
    <2>1. SUFFICES ASSUME NEW h \in Groups, NEW d \in filter.conditions[h], NEW s \in always,
                          d \in KeysOf[s], ~Later(s, until)
                   PROVE  /\ d \in DOMAIN cursors'[h]
                          /\ <<h, d>> \notin closed' => s \in cursors'[h][d].snap
                          /\ cursors'[h][d].head # None => ~Later(s, cursors'[h][d].head)
      BY <1>1 DEF StillAhead, Groups, store
    <2>2. /\ d \in DOMAIN cursors[h]
          /\ <<h, d>> \notin closed => s \in cursors[h][d].snap
          /\ cursors[h][d].head # None => ~Later(s, cursors[h][d].head)
      BY <2>1 DEF Inv, StillAhead
    <2>3. s \in Hits(d)
      BY <2>1 DEF Inv, Kept, StoreOK, Hits
    <2> QED
      BY <1>1, <1>3, <2>2, <2>3
  <1> QED
    BY <1>1, <1>4, <1>5, <1>6, <1>7, Standing DEF Inv

\* A group that is visited pulls the position down to its latest Time, and
\* passes over nothing that has to be sent: that is in one of its iterators.
LEMMA VisitKeeps ==
    ASSUME Inv, UNCHANGED <<store, filter>>, NEW g \in Groups, Visit(g)
    PROVE  Inv'
  <1> DEFINE group == Advance(cursors[g], until)
             latest == Latest({group[c].head : c \in DOMAIN group})
  <1>1. /\ UNCHANGED <<limit, closed, batch, out>>
        /\ pc = "visit" /\ closed = {} /\ todo' \subseteq Groups
        /\ \/ UNCHANGED <<pc, until, cursors, heads>>
           \/ /\ DOMAIN group = {} /\ pc' = "done"
              /\ cursors' = [cursors EXCEPT ![g] = group] /\ UNCHANGED <<until, heads>>
           \/ /\ DOMAIN group # {} /\ g \notin heads
              /\ until' = latest /\ heads' = Agreeing(g, latest)
              /\ cursors' = [cursors EXCEPT ![g] = group] /\ UNCHANGED pc
    BY DEF Visit, Inv, AllOpen, CursorsOK
  <1>2. /\ until \in Position /\ cursors[g] \in [DOMAIN cursors[g] -> Cursor]
        /\ \A s \in always : s \in Position
    BY Parameters DEF Inv, PositionOK, Position, CursorsOK, StoreOK
  <1>3. /\ DOMAIN group \subseteq DOMAIN cursors[g] /\ group \in [DOMAIN group -> Cursor]
        /\ \A c \in DOMAIN group :
              /\ group[c].snap = cursors[g][c].snap
              /\ group[c].head \in Times /\ ~Later(group[c].head, until)
              /\ group[c].head = cursors[g][c].head \/ group[c].head \in cursors[g][c].snap
        /\ \A c \in DOMAIN cursors[g] : \A s \in cursors[g][c].snap :
              ~Later(s, until) /\ (cursors[g][c].head # None => ~Later(s, cursors[g][c].head)) =>
                  c \in DOMAIN group /\ ~Later(s, group[c].head)
    BY <1>2, Advanced
  <1>4. ASSUME NEW c \in filter.conditions[g], NEW s \in always, c \in KeysOf[s], ~Later(s, until)
        PROVE  c \in DOMAIN group /\ s \in group[c].snap /\ ~Later(s, group[c].head)
    <2>1. /\ c \in DOMAIN cursors[g] /\ s \in cursors[g][c].snap
          /\ cursors[g][c].head # None => ~Later(s, cursors[g][c].head)
      BY <1>1, <1>4 DEF Inv, StillAhead
    <2> QED
      BY <1>3, <1>4, <2>1
  <1> HIDE DEF group
  <1>5. CASE UNCHANGED <<pc, until, cursors, heads>>
    <2>1. PositionOK'
      BY <1>1, <1>5 DEF Inv, PositionOK
    <2>2. AllOpen' /\ Agreed' /\ Found' /\ Counted'
      BY <1>1, <1>5 DEF Inv, AllOpen, Agreed, Found, Counted
    <2>3. todo' \subseteq Groups /\ heads' \subseteq Groups
      BY <1>1, <1>5 DEF Inv, CursorsOK
    <2> QED
      BY <1>1, <1>5, <2>1, <2>2, <2>3, Standing DEF Inv
  <1>6. ASSUME cursors' = [cursors EXCEPT ![g] = group],
               until' \in Position, ~Later(until', until), heads' \subseteq Groups
        PROVE  CursorsOK' /\ ByKey' /\ StillAhead' /\ Sent' /\ until'[1] <= filter.until
    <2>1. /\ cursors' = [h \in Groups |-> cursors'[h]]
          /\ cursors'[g] = group /\ \A h \in Groups : h # g => cursors'[h] = cursors[h]
      BY <1>6 DEF Inv, CursorsOK
    <2>2. CursorsOK'
      <3>1. \A h \in Groups : /\ DOMAIN cursors'[h] \subseteq filter.conditions[h]
                              /\ cursors'[h] \in [DOMAIN cursors'[h] -> Cursor]
        BY <1>3, <2>1 DEF Inv, CursorsOK
      <3> QED
        BY <1>1, <1>6, <2>1, <3>1 DEF CursorsOK, Groups, Iterators
    <2>3. ByKey'
      <3>1. \A c \in DOMAIN group : c \in KeysOf[group[c].head]
        BY <1>3, Parameters DEF Inv, ByKey
      <3>2. \A c \in DOMAIN group : \A t \in group[c].snap : c \in KeysOf[t]
        BY <1>3 DEF Inv, ByKey
      <3> QED
        BY <2>1, <3>1, <3>2 DEF Inv, ByKey, Groups
    <2>4. /\ \A s \in Times : ~Later(s, until') => ~Later(s, until)
          /\ Sent' /\ until'[1] <= filter.until
      BY <1>1, <1>6, MovedDown
    <2>5. StillAhead'
      <3>1. SUFFICES ASSUME NEW h \in Groups, NEW c \in filter.conditions[h], NEW s \in always,
                            c \in KeysOf[s], ~Later(s, until')
                     PROVE  /\ c \in DOMAIN cursors'[h]
                            /\ <<h, c>> \notin closed' => s \in cursors'[h][c].snap
                            /\ cursors'[h][c].head # None => ~Later(s, cursors'[h][c].head)
        BY DEF StillAhead, Groups, store
      <3>2. ~Later(s, until)
        BY <2>4, <3>1 DEF Inv, StoreOK
      <3>3. CASE h = g
        BY <1>4, <2>1, <3>1, <3>2, <3>3
      <3>4. CASE h # g
        BY <1>1, <2>1, <3>1, <3>2, <3>4 DEF Inv, StillAhead
      <3> QED
        BY <3>3, <3>4
    <2> QED
      BY <2>2, <2>3, <2>4, <2>5
  <1>7. CASE /\ DOMAIN group = {} /\ pc' = "done"
             /\ cursors' = [cursors EXCEPT ![g] = group] /\ UNCHANGED <<until, heads>>
    <2>1. until' \in Position /\ ~Later(until', until) /\ heads' \subseteq Groups
      BY <1>2, <1>7, Order DEF Inv, CursorsOK
    <2>2. PositionOK'
      BY <1>1, <1>7 DEF Inv, PositionOK
    <2>3. AllOpen' /\ Agreed' /\ Found' /\ Counted' /\ NoneMissed'
      BY <1>1, <1>7 DEF Inv, AllOpen, Agreed, Found, Counted, NoneMissed
    <2> QED
      BY <1>6, <1>7, <2>1, <2>2, <2>3, Standing DEF Inv
  <1>8. CASE /\ DOMAIN group # {} /\ g \notin heads
             /\ until' = latest /\ heads' = Agreeing(g, latest)
             /\ cursors' = [cursors EXCEPT ![g] = group] /\ UNCHANGED pc
    <2>1. /\ latest \in Times /\ ~Later(latest, until)
          /\ \E c \in DOMAIN group : group[c].head = latest
          /\ \A c \in DOMAIN group : ~Later(group[c].head, latest)
      BY <1>2, <1>3, <1>8, Pulled
    <2> HIDE DEF latest
    <2>2. /\ until' \in Position /\ ~Later(until', until)
          /\ heads' \subseteq Groups /\ g \in Groups /\ heads' \subseteq heads \cup {g}
          /\ until' # until => heads' = {g}
      BY <1>8, <2>1, Parameters DEF Inv, CursorsOK, Agreeing
    <2>3. PositionOK'
      BY <1>1, <1>8, <2>2 DEF Inv, PositionOK, Position
    <2>4. CursorsOK' /\ ByKey' /\ StillAhead' /\ Sent' /\ until'[1] <= filter.until
      BY <1>6, <1>8, <2>2
    <2>5. AllOpen' /\ Found' /\ Counted'
      BY <1>1, <1>8, <2>4 DEF Inv, AllOpen, Found, Counted
    <2>6. Agreed'
      <3>1. cursors'[g] = group /\ \A h \in Groups : h # g => cursors'[h] = cursors[h]
        BY <1>8 DEF Inv, CursorsOK
      <3>2. \A h \in heads' : \E c \in DOMAIN cursors'[h] : cursors'[h][c].head = until'
        <4> TAKE h \in heads'
        <4>1. CASE h = g
          BY <1>8, <2>1, <3>1, <4>1
        <4>2. CASE h # g
          <5>1. until' = until /\ h \in heads /\ h \in Groups
            BY <2>2, <4>2
          <5> QED
            BY <1>1, <3>1, <4>2, <5>1 DEF Inv, Agreed
        <4> QED
          BY <4>1, <4>2
      <3> QED
        BY <1>8, <2>1, <3>2 DEF Agreed
    <2>7. NoneMissed'
      <3>1. SUFFICES ASSUME NEW s \in Matching(always), Later(s, until')
                     PROVE  s \in Range(out)
        BY <1>1 DEF NoneMissed, Matching, Groups, store
      <3>2. s \in always /\ filter.conditions[g] \cap KeysOf[s] # {} /\ s \in Position
        BY <1>2 DEF Matching
      <3>3. CASE ~Later(s, until)
        <4>1. PICK c \in filter.conditions[g] : c \in KeysOf[s]
          BY <3>2
        <4>2. c \in DOMAIN group /\ ~Later(s, group[c].head) /\ group[c].head \in Position
          BY <1>3, <1>4, <3>2, <3>3, <4>1, Parameters
        <4>3. ~Later(s, until')
          BY <1>8, <2>1, <2>2, <3>2, <4>2, Order
        <4> QED
          BY <3>1, <4>3
      <3> QED
        BY <1>1, <3>1, <3>3 DEF Inv, NoneMissed
    <2> QED
      BY <2>3, <2>4, <2>5, <2>6, <2>7, Standing DEF Inv
  <1> QED
    BY <1>1, <1>5, <1>7, <1>8
-------------------------------------------------------------------------------
(* The invariant.                                                            *)

LEMMA InitInv == Init => Inv
  <1> SUFFICES ASSUME Init PROVE Inv
    OBVIOUS
  <1>1. /\ events = Times \ Written /\ conditions = UNION {KeysOf[t] \X {t} : t \in events}
        /\ time = events /\ writes = [t \in Times |-> "no"] /\ ever = events /\ always = events
    BY DEF Init
  <1>2. StoreOK /\ Underway /\ Kept
    <2>1. \A t \in always : KeysOf[t] \X {t} \subseteq conditions
      BY <1>1
    <2> QED
      BY <1>1, <2>1 DEF StoreOK, Underway, Kept
  <1>3. /\ filter \in Filters /\ limit = filter.limit /\ until = <<filter.until, MaxU64>>
        /\ pc = "new" /\ todo = {} /\ heads = {} /\ batch = 0 /\ out = <<>> /\ closed = Iterators
    BY DEF Init
  <1>4. PositionOK /\ AllOpen /\ Agreed /\ Found /\ Counted /\ Sent
    BY <1>3, Parameters DEF PositionOK, AllOpen, Agreed, Found, Counted, Sent
  <1>5. /\ cursors = [g \in Groups |-> cursors[g]]
        /\ \A g \in Groups :
              /\ DOMAIN cursors[g] = filter.conditions[g]
              /\ cursors[g] \in [DOMAIN cursors[g] -> Cursor]
              /\ \A c \in DOMAIN cursors[g] : cursors[g][c] = [head |-> None, snap |-> {}]
    <2>1. cursors = [g \in Groups |->
                        [c \in filter.conditions[g] |-> [head |-> None, snap |-> {}]]]
      BY DEF Init
    <2>2. [head |-> None, snap |-> {}] \in Cursor
      BY DEF Cursor
    <2> QED
      BY <2>1, <2>2
  <1>6. CursorsOK
    BY <1>3, <1>5 DEF CursorsOK
  <1>7. ByKey
    BY <1>5 DEF ByKey
  <1>8. StillAhead
    BY <1>3, <1>5 DEF StillAhead, Iterators
  <1>9. NoneMissed
    <2>1. SUFFICES ASSUME NEW s \in Matching(always) PROVE ~Later(s, until)
      BY DEF NoneMissed
    <2>2. s \in Position /\ s[1] <= filter.until /\ filter.until \in Nat
      BY <1>1, <1>3, Parameters DEF Matching
    <2> QED
      BY <1>3, <2>2, Parameters DEF Later, Position
  <1> QED
    BY <1>2, <1>4, <1>6, <1>7, <1>8, <1>9 DEF Inv

LEMMA NextInv == Inv /\ [Next]_vars => Inv'
  <1> SUFFICES ASSUME Inv, [Next]_vars PROVE Inv'
    OBVIOUS
  <1>1. CASE \E t \in Written : Write(t)
    BY <1>1, WriteKeeps
  <1>2. CASE QueryStep
    <2>1. UNCHANGED <<store, filter>>
      BY <1>2 DEF QueryStep
    <2>2. \/ New \/ Opened \/ Loop \/ NextTime \/ Round \/ Get
          \/ \E g \in Groups : Visit(g) \/ \E c \in DOMAIN cursors[g] : Open(g, c)
      BY <1>2 DEF QueryStep
    <2> QED
      BY <2>1, <2>2, MovingOnKeeps, NextTimeKeeps, RoundKeeps, GetKeeps, VisitKeeps, OpenKeeps
  <1>3. CASE UNCHANGED vars
    <2>1. UNCHANGED <<store, filter, pc, limit, until, cursors, closed, todo, heads, batch, out>>
      BY <1>3 DEF vars, query
    <2>2. PositionOK' /\ AllOpen' /\ Agreed' /\ Found' /\ Counted' /\ Sent'
      <3>1. PositionOK' /\ AllOpen' /\ Counted' /\ Sent'
        BY <2>1 DEF Inv, PositionOK, AllOpen, Counted, Sent
      <3> QED
        BY <2>1, <3>1 DEF Inv, Agreed, Found, Groups
    <2>3. CursorsOK'
      BY <2>1 DEF Inv, CursorsOK, Groups, Iterators
    <2>4. NoneMissed'
      BY <2>1 DEF Inv, NoneMissed, Matching, Groups, store
    <2> QED
      BY <2>1, <2>2, <2>3, <2>4, Standing DEF Inv
  <1> QED
    BY <1>1, <1>2, <1>3 DEF Next

LEMMA Invariant == Spec => []Inv
  BY InitInv, NextInv, PTL DEF Spec

\* The types hold, whatever is queried and written: cursors keep to the
\* conditions of their groups, the position and the batch to their bounds, and
\* the index by Time to the events there are (GetEvents, handle_req, Db).
THEOREM TypeCorrect == Spec => []TypeOK
  <1>1. Inv => TypeOK
    BY TypeParts DEF Inv
  <1> QED
    BY Invariant, <1>1, PTL
-------------------------------------------------------------------------------
(* The refinement.                                                           *)

\* The operators of StoredQuery are those of this module.
LEMMA SameOrder ==
    /\ \A s, t : Promise!Later(s, t) <=> Later(s, t)
    /\ \A f : Promise!Range(f) = Range(f)
  BY DEF Promise!Later, Later, Promise!Range, Range

LEMMA InitImplements == Init => Promise!Init
  <1> SUFFICES ASSUME Init, Inv PROVE Promise!Init
    BY InitInv
  <1>1. filter.limit \in Nat /\ out = <<>> /\ pc # "done"
    BY Parameters DEF Init
  <1>2. Matching(ever) \subseteq Times /\ Matching(always) \subseteq Matching(ever)
    BY DEF Matching, Inv, StoreOK
  <1> QED
    BY <1>1, <1>2 DEF Promise!Init

\* A query only ends at its limit or when nothing is left: no position is before
\* the end, none of a group's iterators has a Time left, or the position is
\* before the filter's since.
Exhausted == limit = 0 \/ Matching(always) \subseteq Range(out)

\* All that has to be sent has been when none of it is left at the position.
LEMMA NoneLeft ==
    ASSUME Inv, pc # "done", \A s \in Matching(always) : Later(s, until)
    PROVE  Exhausted
  BY DEF Inv, NoneMissed, Exhausted

LEMMA EndsExhausted ==
    ASSUME Inv, QueryStep, pc' = "done"
    PROVE  pc # "done" /\ out' = out /\ Exhausted
  <1>1. CASE New
    <2>1. filter.search \/ \E g \in Groups : filter.conditions[g] = {}
      BY <1>1 DEF New
    <2>2. Matching(always) = {}
      BY <2>1 DEF Matching
    <2> QED
      BY <1>1, <2>2 DEF New, Exhausted
  <1>2. CASE Loop
    <2>1. pc = "loop" /\ out' = out /\ (limit = 0 \/ until = Zero)
      BY <1>2 DEF Loop
    <2>2. CASE until = Zero
      <3>1. \A s \in Times : Later(s, until)
        BY <2>2, Parameters DEF Zero, Later, Position
      <3> QED
        BY <2>1, <3>1, NoneLeft DEF Matching, Inv, StoreOK
    <2> QED
      BY <2>1, <2>2 DEF Exhausted
  <1>3. CASE NextTime
    <2>1. pc = "visit" /\ out' = out /\ UpTo(time, until) = {}
      BY <1>3 DEF NextTime
    <2>2. \A s \in Matching(always) : Later(s, until)
      BY <2>1 DEF UpTo, Matching, Inv, Kept
    <2> QED
      BY <2>1, <2>2, NoneLeft
  <1>4. CASE \E g \in Groups : Visit(g)
    <2>1. PICK g \in Groups : Visit(g)
      BY <1>4
    <2> DEFINE group == Advance(cursors[g], until)
    <2>2. pc = "visit" /\ out' = out /\ DOMAIN group = {} /\ closed = {}
      BY <2>1 DEF Visit, Inv, AllOpen
    <2>3. until \in Position /\ cursors[g] \in [DOMAIN cursors[g] -> Cursor]
      BY DEF Inv, PositionOK, Position, CursorsOK
    <2>4. \A c \in DOMAIN cursors[g] : \A s \in cursors[g][c].snap :
              ~Later(s, until) /\ (cursors[g][c].head # None => ~Later(s, cursors[g][c].head)) =>
                  c \in DOMAIN group
      BY <2>3, Advanced
    <2> HIDE DEF group
    <2>5. \A s \in Matching(always) : Later(s, until)
      <3>1. SUFFICES ASSUME NEW s \in Matching(always), ~Later(s, until) PROVE FALSE
        OBVIOUS
      <3>2. s \in always /\ \E c \in filter.conditions[g] : c \in KeysOf[s]
        BY DEF Matching
      <3>3. PICK c \in filter.conditions[g] : c \in KeysOf[s]
        BY <3>2
      <3>4. /\ c \in DOMAIN cursors[g] /\ s \in cursors[g][c].snap
            /\ cursors[g][c].head # None => ~Later(s, cursors[g][c].head)
        BY <2>2, <3>1, <3>2, <3>3 DEF Inv, StillAhead
      <3> QED
        BY <2>2, <2>4, <3>1, <3>4
    <2> QED
      BY <2>2, <2>5, NoneLeft
  <1>5. CASE Get
    <2>1. pc = "get" /\ out' = out /\ until[1] < filter.since
      BY <1>5 DEF Get
    <2>2. \A s \in Matching(always) : Later(s, until)
      <3>1. \A s \in Matching(always) : s \in Position /\ filter.since <= s[1]
        BY Parameters DEF Matching, Inv, StoreOK
      <3>2. until \in Position /\ filter.since \in Nat
        BY Parameters DEF Inv, PositionOK, Position
      <3> QED
        BY <2>1, <3>1, <3>2 DEF Later, Position
    <2> QED
      BY <2>1, <2>2, NoneLeft
  <1>6. ~Opened /\ ~Round /\ ~(\E g \in Groups : \E c \in DOMAIN cursors[g] : Open(g, c))
    BY DEF Opened, Round, Open
  <1> QED
    BY <1>1, <1>2, <1>3, <1>4, <1>5, <1>6 DEF QueryStep

\* What is sent matches, and is within the limit.
LEMMA SentMatches ==
    ASSUME Inv, QueryStep, out' # out
    PROVE  /\ pc # "done" /\ pc' # "done" /\ out' = Append(out, until)
           /\ until \in Matching(ever) /\ Len(out) < filter.limit
  <1>1. Get
    BY DEF QueryStep, New, Open, Opened, Loop, NextTime, Visit, Round
  <1>2. /\ pc = "get" /\ pc' \in {"open", "loop"} /\ out' = Append(out, until)
        /\ until[1] >= filter.since /\ until \in events
    BY <1>1 DEF Get
  <1>3. until \in Matching(ever)
    <2>1. until \in ever /\ until[1] <= filter.until
      BY <1>2 DEF Inv, StoreOK, Counted
    <2>2. \A g \in Groups : filter.conditions[g] \cap KeysOf[until] # {}
      BY <1>2 DEF Inv, Found
    <2>3. filter.since <= until[1] /\ ~filter.search
      BY <1>2, Parameters DEF Inv, StoreOK, PositionOK, Counted
    <2> QED
      BY <2>1, <2>2, <2>3 DEF Matching
  <1>4. Len(out) < filter.limit
    <2>1. limit + Len(out) = filter.limit /\ limit # 0 /\ limit \in Nat
      BY <1>2 DEF Inv, Counted, PositionOK
    <2>2. Len(out) \in Nat
      BY DEF Inv, PositionOK
    <2> QED
      BY <2>1, <2>2
  <1> QED
    BY <1>2, <1>3, <1>4

\* Every step is one of StoredQuery, or none of its concern.
LEMMA NextImplements ==
    ASSUME Inv, Inv', [Next]_vars
    PROVE  [Promise!Next]_(Promise!vars)
  <1>1. CASE \E t \in Written : Write(t)
    <2>1. /\ filter' = filter /\ out' = out /\ pc' = pc
          /\ always' \subseteq always /\ ever \subseteq ever' /\ ever' \subseteq Times
      <3>1. PICK t \in Written : Write(t)
        BY <1>1
      <3>2. ever' \subseteq Times /\ always' \subseteq always
        BY <3>1, WritersKeepStore, Parameters DEF Inv, StoreOK
      <3>3. ever \subseteq ever'
        BY <3>1 DEF Write, PutEvent, PutKey, PutTime, StartRemove, DeleteKey, DeleteTime,
                    DeleteEvent
      <3> QED
        BY <3>1, <3>2, <3>3 DEF Write, query
    <2>2. /\ Matching(ever)' \subseteq Times /\ Matching(ever) \subseteq Matching(ever)'
          /\ Matching(always)' \subseteq Matching(always)
      BY <2>1 DEF Matching, Groups
    <2> QED
      BY <2>1, <2>2 DEF Promise!Next, Promise!Write
  <1>2. CASE QueryStep
    <2>1. filter' = filter /\ ever' = ever /\ always' = always
      BY <1>2 DEF QueryStep, store
    <2>2. Matching(ever)' = Matching(ever) /\ Matching(always)' = Matching(always)
      BY <2>1 DEF Matching, Groups
    <2>3. limit + Len(out) = filter.limit /\ limit \in Nat /\ Len(out) \in Nat
      BY DEF Inv, Counted, PositionOK
    <2>4. CASE pc' = "done"
      <3>1. pc # "done" /\ out' = out /\ Exhausted
        BY <1>2, <2>4, EndsExhausted
      <3>2. Len(out) = filter.limit \/ Matching(always) \subseteq Promise!Range(out)
        BY <2>3, <3>1, SameOrder DEF Exhausted
      <3> QED
        BY <2>1, <2>2, <2>4, <3>1, <3>2 DEF Promise!Next, Promise!Finish
    <2>5. CASE out' # out
      <3>1. /\ pc # "done" /\ pc' # "done" /\ out' = Append(out, until)
            /\ until \in Matching(ever) /\ Len(out) < filter.limit
        BY <1>2, <2>5, SentMatches
      <3>2. \A i \in DOMAIN out : Promise!Later(out[i], until)
        BY SameOrder DEF Inv, Sent
      <3>3. \A s \in Matching(always) : Promise!Later(s, until) => s \in Promise!Range(out)
        BY <3>1, SameOrder DEF Inv, NoneMissed
      <3> QED
        BY <2>1, <2>2, <3>1, <3>2, <3>3 DEF Promise!Next, Promise!Deliver
    <2>6. CASE pc' # "done" /\ out' = out
      <3>1. pc # "done"
        BY <1>2 DEF QueryStep, New, Open, Opened, Loop, NextTime, Visit, Round, Get
      <3> QED
        BY <2>1, <2>2, <2>6, <3>1 DEF Promise!vars
    <2> QED
      BY <2>4, <2>5, <2>6
  <1>3. CASE UNCHANGED vars
    <2>1. filter' = filter /\ ever' = ever /\ always' = always /\ out' = out /\ pc' = pc
      BY <1>3 DEF vars, store, query
    <2> QED
      BY <2>1 DEF Promise!vars, Matching, Groups
  <1> QED
    BY <1>1, <1>2, <1>3 DEF Next

\* A query sends only what matches, latest first and nothing twice, and ends at
\* its limit or when it has sent all that matches and has been there throughout:
\* in whatever order the groups are visited, whatever heads are kept across a
\* restart, and whatever is written between two reads (GetEvents::next,
\* GetEventsStopped::restart, handle_req).
THEOREM ServesThePromise == Spec => KeepsPromise
  <1>1. Inv /\ Inv' /\ [Next]_vars => [Promise!Next]_(Promise!vars)
    BY NextImplements
  <1> QED
    BY Invariant, InitImplements, <1>1, PTL DEF Spec, KeepsPromise, Promise!Spec
================================================================================
