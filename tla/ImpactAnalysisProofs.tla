------------------------- MODULE ImpactAnalysisProofs -------------------------
(***************************************************************************)
(* The search finds exactly what is reachable, on every graph: what it has *)
(* seen is a closed set of columns once the queue is empty, and it never   *)
(* sees a column that is not in every closed set around the input.         *)
(***************************************************************************)
EXTENDS ImpactAnalysis, TLAPS

-----------------------------------------------------------------------------
(* Types. *)

\* What can be assumed of an edge of the graph.
LEMMA EdgeType ==
  ASSUME TypeOK, NEW e \in edges
  PROVE  /\ e \in Edge /\ e.upstream \in Columns /\ e.downstream \in Columns
         /\ Key(e) \in Targets /\ Key(e)[2] = e.downstream
BY SearchAssumption DEF TypeOK, Edge, Key, Targets

\* The first state is typed: the queue holds the input with empty paths.
LEMMA TypeInit == Init => TypeOK
<1> SUFFICES ASSUME Init PROVE TypeOK
  OBVIOUS
<1>1. input \in Seq(Columns) /\ Len(input) \in Nat
  BY SearchAssumption DEF Init
<1>2. <<>> \in Seq(edges)
  OBVIOUS
<1>3. \A i \in 1 .. Len(input) : [column |-> input[i], path |-> <<>>] \in Item
  BY <1>1, <1>2 DEF Item
<1>4. queue \in Seq(Item)
  BY <1>1, <1>3 DEF Init
<1>5. DOMAIN found = {}
  BY DEF Init
<1> QED
  BY <1>2, <1>4, <1>5 DEF Init, TypeOK

\* Each loop step keeps the types.
LEMMA TypeNext == TypeOK /\ [Next]_vars => TypeOK'
<1> SUFFICES ASSUME TypeOK, [Next]_vars PROVE TypeOK'
  OBVIOUS
<1>1. CASE TakeColumn
  <2>1. Head(queue) \in Item /\ Tail(queue) \in Seq(Item)
    BY <1>1 DEF TakeColumn, TypeOK
  <2>2. path' \in Seq(edges)
    BY <1>1, <2>1 DEF TakeColumn, Item
  <2>3. todo' \subseteq edges
    BY <1>1 DEF TakeColumn, EdgesOf
  <2> QED
    BY <1>1, <2>1, <2>2, <2>3 DEF TakeColumn, Dequeued, TypeOK, Item
<1>2. ASSUME NEW e \in todo, SkipEdge(e) PROVE TypeOK'
  BY <1>2 DEF SkipEdge, TypeOK, Item
<1>3. ASSUME NEW e \in todo, FollowEdge(e) PROVE TypeOK'
  <2>1. e \in edges /\ NextPath(e) \in Seq(edges) \ {<<>>}
    BY DEF TypeOK, NextPath
  <2>2. [column |-> e.downstream, path |-> NextPath(e)] \in Item
    BY <2>1, EdgeType DEF Item
  <2>3. queue' \in Seq(Item)
    BY <1>3, <2>2 DEF FollowEdge, Enqueued, TypeOK
  <2>4. DOMAIN found' = DOMAIN found \union {Key(e)}
    BY <1>3 DEF FollowEdge
  <2>5. DOMAIN found' \subseteq Targets
    BY <2>1, <2>4, EdgeType DEF TypeOK
  <2>6. \A target \in DOMAIN found' : found'[target] \in Seq(edges) \ {<<>>}
    BY <1>3, <2>1, <2>4 DEF FollowEdge, TypeOK
  <2> QED
    BY <1>3, <2>3, <2>5, <2>6 DEF FollowEdge, TypeOK, Item
<1>4. CASE Return \/ UNCHANGED vars
  BY <1>4 DEF Return, vars, TypeOK, Item
<1> QED
  BY <1>1, <1>2, <1>3, <1>4 DEF Next, Search, Returned

\* Every variable of the search keeps its type, whatever the graph.
THEOREM SearchTyped == Spec => []TypeOK
BY TypeInit, TypeNext, PTL DEF Spec

-----------------------------------------------------------------------------
(* Queues and columns. *)

\* The columns of a queue without its head, and with one more item.
LEMMA QueueColumns ==
  ASSUME NEW q \in Seq(Item)
  PROVE  /\ q # <<>> =>
              {q[i].column : i \in 1 .. Len(q)} =
                {Head(q).column}
                  \union {Tail(q)[i].column : i \in 1 .. Len(Tail(q))}
         /\ \A item \in Item :
              {Append(q, item)[i].column : i \in 1 .. Len(Append(q, item))} =
                {q[i].column : i \in 1 .. Len(q)} \union {item.column}
<1>1. ASSUME q # <<>>
      PROVE  {q[i].column : i \in 1 .. Len(q)} =
               {Head(q).column} \union {Tail(q)[i].column : i \in 1 .. Len(Tail(q))}
  <2>1. /\ Len(q) \in Nat \ {0} /\ Head(q) = q[1]
        /\ Len(Tail(q)) = Len(q) - 1
        /\ \A i \in 1 .. Len(q) - 1 : Tail(q)[i] = q[i + 1]
    BY <1>1
  <2>2. ASSUME NEW i \in 1 .. Len(q)
        PROVE  q[i].column \in {Head(q).column}
                 \union {Tail(q)[j].column : j \in 1 .. Len(Tail(q))}
    <3>1. CASE i = 1
      BY <2>1, <3>1
    <3>2. CASE i # 1
      <4>1. i - 1 \in 1 .. Len(q) - 1 /\ Tail(q)[i - 1] = q[i]
        BY <2>1, <3>2
      <4> QED
        BY <2>1, <4>1
    <3> QED
      BY <3>1, <3>2
  <2>3. ASSUME NEW j \in 1 .. Len(Tail(q))
        PROVE  Tail(q)[j].column \in {q[i].column : i \in 1 .. Len(q)}
    <3>1. j + 1 \in 1 .. Len(q) /\ Tail(q)[j] = q[j + 1]
      BY <2>1
    <3> QED
      BY <3>1
  <2>4. Head(q).column \in {q[i].column : i \in 1 .. Len(q)}
    BY <2>1
  <2> QED
    BY <2>2, <2>3, <2>4
<1>2. ASSUME NEW item \in Item
      PROVE  {Append(q, item)[i].column : i \in 1 .. Len(Append(q, item))} =
               {q[i].column : i \in 1 .. Len(q)} \union {item.column}
  <2>1. /\ Len(q) \in Nat
        /\ Len(Append(q, item)) = Len(q) + 1
        /\ Append(q, item)[Len(q) + 1] = item
        /\ \A i \in 1 .. Len(q) : Append(q, item)[i] = q[i]
    OBVIOUS
  <2>2. 1 .. Len(q) + 1 = (1 .. Len(q)) \union {Len(q) + 1}
    BY <2>1
  <2> QED
    BY <2>1, <2>2
<1> QED
  BY <1>1, <1>2

\* A reachable column's edges lead to reachable columns.
LEMMA ReachableIsClosed ==
  ASSUME TypeOK PROVE Closed(edges, Reachable)
BY EdgeType DEF Closed, Reachable, ReachableFrom

\* Reachability depends on the graph and the input only.
LEMMA ReachableKept ==
  ASSUME UNCHANGED <<edges, input>> PROVE Reachable' = Reachable
BY DEF Reachable, ReachableFrom, Closed, Changed

-----------------------------------------------------------------------------
(* The invariant of the loop, and the result. *)

ReachInvariant == SeenIsExpanded /\ OnlyReachable

\* At first every seen column is queued and nothing was found.
LEMMA ReachInit == Init => ReachInvariant
<1> SUFFICES ASSUME Init PROVE ReachInvariant
  OBVIOUS
<1>1. input \in Seq(Columns) /\ Len(input) \in Nat
  BY SearchAssumption DEF Init
<1>2. DOMAIN found = {} /\ todo = {} /\ pc = "searching"
  BY DEF Init
<1>3. Queued = Changed
  BY <1>1 DEF Init, Queued, Changed
<1>4. Changed \subseteq Columns
  BY <1>1 DEF Changed
<1>5. Changed \subseteq Reachable
  BY <1>4 DEF Reachable, ReachableFrom
<1>6. Seen = Changed
  BY <1>2 DEF Seen
<1> QED
  BY <1>2, <1>3, <1>5, <1>6 DEF ReachInvariant, SeenIsExpanded, OnlyReachable

\* The edges of the column taken are all about to be looked at.
LEMMA TakeKeeps ==
  ASSUME TypeOK, ReachInvariant, TakeColumn PROVE ReachInvariant'
<1> DEFINE c == Head(queue).column
<1>1. /\ Reachable' = Reachable /\ Seen' = Seen
      /\ edges' = edges /\ found' = found /\ pc' = pc
  BY ReachableKept DEF TakeColumn, Seen, Changed
<1>2. Queued = {c} \union Queued' /\ todo = {} /\ todo' = EdgesOf(c)
  BY QueueColumns DEF TakeColumn, Dequeued, Queued, TypeOK
<1>3. \A e : Visited(e)' = Visited(e)
  BY <1>1 DEF Visited, Key
<1>4. \A column : EdgesOf(column)' = EdgesOf(column)
  BY <1>1 DEF EdgesOf
<1>5. SeenIsExpanded'
  BY <1>1, <1>2, <1>3, <1>4 DEF SeenIsExpanded, ReachInvariant, Visited, Key
<1>6. c \in Reachable /\ Queued' \subseteq Reachable
  BY <1>2 DEF ReachInvariant, OnlyReachable
<1>7. pc' # "done"
  BY <1>1 DEF TakeColumn
<1>8. OnlyReachable'
  BY <1>1, <1>2, <1>6, <1>7 DEF OnlyReachable, ReachInvariant, EdgesOf, Key
<1> QED
  BY <1>5, <1>8 DEF ReachInvariant

\* An edge is skipped because its target was visited.
LEMMA SkipKeeps ==
  ASSUME TypeOK, ReachInvariant, NEW e \in todo, SkipEdge(e)
  PROVE  ReachInvariant'
<1>1. /\ Reachable' = Reachable /\ Seen' = Seen /\ Queued' = Queued
      /\ edges' = edges /\ found' = found /\ pc' = pc /\ queue' = queue
  BY ReachableKept DEF SkipEdge, Seen, Changed, Queued
<1>2. todo' = todo \ {e} /\ Visited(e)
  BY DEF SkipEdge
<1>3. \A edge : Visited(edge)' = Visited(edge)
  BY <1>1 DEF Visited, Key
<1>4. \A column : EdgesOf(column)' = EdgesOf(column)
  BY <1>1 DEF EdgesOf
<1>5. SeenIsExpanded'
  BY <1>1, <1>2, <1>3, <1>4 DEF SeenIsExpanded, ReachInvariant, Visited, Key
<1>6. OnlyReachable'
  BY <1>1, <1>2 DEF OnlyReachable, ReachInvariant, Key
<1> QED
  BY <1>5, <1>6 DEF ReachInvariant

\* The column an edge leads to is seen and queued in one step.
LEMMA FollowKeeps ==
  ASSUME TypeOK, ReachInvariant, NEW e \in todo, FollowEdge(e)
  PROVE  ReachInvariant'
<1> DEFINE item == [column |-> e.downstream, path |-> NextPath(e)]
<1>1. /\ Reachable' = Reachable /\ Changed' = Changed
      /\ edges' = edges /\ pc' = pc /\ todo' = todo \ {e}
      /\ DOMAIN found' = DOMAIN found \union {Key(e)}
  BY ReachableKept DEF FollowEdge, Changed
<1>2. e \in edges /\ Key(e)[2] = e.downstream
  BY EdgeType DEF TypeOK
<1>3. item \in Item /\ item.column = e.downstream
  BY <1>2, EdgeType DEF Item, NextPath, TypeOK
<1>4. Queued' = Queued \union {e.downstream}
  BY <1>3, QueueColumns DEF FollowEdge, Enqueued, Queued, TypeOK
<1>5. Seen' = Seen \union {e.downstream}
  BY <1>1, <1>2 DEF Seen
<1>6. \A edge : Visited(edge)' <=> Visited(edge) \/ Key(edge) = Key(e)
  BY <1>1 DEF Visited, Key
<1>7. \A column : EdgesOf(column)' = EdgesOf(column)
  BY <1>1 DEF EdgesOf
<1>8. SeenIsExpanded'
  BY <1>1, <1>4, <1>5, <1>6, <1>7 DEF SeenIsExpanded, ReachInvariant, Visited, Key
<1>9. e.upstream \in Reachable /\ e.downstream \in Reachable
  BY <1>2, ReachableIsClosed DEF Closed, OnlyReachable, ReachInvariant
<1>10. pc' # "done"
  BY <1>1 DEF OnlyReachable, ReachInvariant
<1>11. OnlyReachable'
  BY <1>1, <1>2, <1>4, <1>9, <1>10 DEF OnlyReachable, ReachInvariant, Key
<1> QED
  BY <1>8, <1>11 DEF ReachInvariant

\* Each loop step keeps the invariant.
LEMMA ReachNext == TypeOK /\ ReachInvariant /\ [Next]_vars => ReachInvariant'
<1> SUFFICES ASSUME TypeOK, ReachInvariant, [Next]_vars PROVE ReachInvariant'
  OBVIOUS
<1>1. CASE Return \/ UNCHANGED vars
  <2>1. /\ Reachable' = Reachable
        /\ UNCHANGED <<edges, input, queue, todo, found>>
        /\ pc' = pc \/ (queue = <<>> /\ todo = {})
    BY <1>1, ReachableKept DEF Return, vars
  <2>2. Seen' = Seen /\ Queued' = Queued
    BY <2>1 DEF Seen, Changed, Queued
  <2>3. /\ \A edge : Visited(edge)' = Visited(edge)
        /\ \A column : EdgesOf(column)' = EdgesOf(column)
    BY <2>1 DEF Visited, Key, EdgesOf
  <2>4. SeenIsExpanded'
    BY <2>1, <2>2, <2>3 DEF ReachInvariant, SeenIsExpanded, Visited, Key
  <2>5. OnlyReachable'
    BY <2>1, <2>2 DEF ReachInvariant, OnlyReachable, Key
  <2> QED
    BY <2>4, <2>5 DEF ReachInvariant
<1> QED
  BY <1>1, TakeKeeps, SkipKeeps, FollowKeeps DEF Next, Search, Returned

\* What was seen when the search ends is closed, and holds the changed columns:
\* it holds whatever is reachable.
LEMMA ResultIsReachable ==
  ASSUME TypeOK, ReachInvariant PROVE FindsWhatIsReachable
<1> SUFFICES ASSUME pc = "done"
             PROVE  DOMAIN found =
                      {Key(e) : e \in {edge \in edges : edge.upstream \in Reachable}}
  BY DEF FindsWhatIsReachable, Impacts, Reachable
<1>1. queue = <<>> /\ todo = {}
  BY DEF ReachInvariant, OnlyReachable
<1>2. Queued = {}
  BY <1>1 DEF Queued
<1>3. \A e \in edges : e.upstream \in Seen => Visited(e)
  BY <1>1, <1>2 DEF ReachInvariant, SeenIsExpanded, EdgesOf, Visited
<1>4. Closed(edges, Seen)
  BY <1>3, EdgeType DEF Closed, Seen, Visited
<1>5. Seen \subseteq Columns /\ Changed \subseteq Seen
  <2>1. Changed \subseteq Columns
    BY SearchAssumption DEF Changed, TypeOK
  <2> QED
    BY <2>1 DEF Seen, TypeOK, Targets
<1>6. Reachable \subseteq Seen
  BY <1>4, <1>5 DEF Reachable, ReachableFrom
<1>7. \A e \in edges : e.upstream \in Reachable => Key(e) \in DOMAIN found
  BY <1>3, <1>6 DEF Visited
<1> QED
  BY <1>7 DEF ReachInvariant, OnlyReachable

\* For every graph, cyclic or not, and every input: the search returns exactly
\* the targets of the edges that start at a column reachable from the input.
THEOREM SearchFindsReachable == Spec => []FindsWhatIsReachable
<1>1. Init => ReachInvariant
  BY ReachInit
<1>2. TypeOK /\ ReachInvariant /\ [Next]_vars => ReachInvariant'
  BY ReachNext
<1>3. TypeOK /\ ReachInvariant => FindsWhatIsReachable
  BY ResultIsReachable
<1> QED
  BY <1>1, <1>2, <1>3, SearchTyped, PTL DEF Spec

-----------------------------------------------------------------------------
(* The paths. *)

\* A path that leads from a changed column to c, the empty one if c changed.
LeadsTo(chain, c) ==
  IF chain = <<>> THEN c \in Changed
  ELSE \E target \in Targets : target[2] = c /\ Explains(chain, target)

PathInvariant ==
  /\ \A i \in 1 .. Len(queue) : LeadsTo(queue[i].path, queue[i].column)
  /\ \A e \in todo : LeadsTo(path, e.upstream)
  /\ PathsExplain

\* One more edge explains its own target.
LEMMA NextPathExplains ==
  ASSUME TypeOK, NEW e \in todo, LeadsTo(path, e.upstream)
  PROVE  Explains(NextPath(e), Key(e)) /\ LeadsTo(NextPath(e), e.downstream)
<1>1. e \in edges /\ path \in Seq(edges) /\ Key(e) \in Targets /\ Key(e)[2] = e.downstream
  BY EdgeType DEF TypeOK
<1>2. /\ Len(path) \in Nat
      /\ Len(NextPath(e)) = Len(path) + 1
      /\ NextPath(e)[Len(path) + 1] = e
      /\ \A i \in 1 .. Len(path) : NextPath(e)[i] = path[i]
      /\ NextPath(e) # <<>>
  BY <1>1 DEF NextPath
<1>3. Explains(NextPath(e), Key(e))
  <2>1. CASE path = <<>>
    <3>1. e.upstream \in Changed /\ Len(path) = 0
      BY <2>1 DEF LeadsTo
    <3> QED
      BY <1>2, <3>1 DEF Explains
  <2>2. CASE path # <<>>
    <3>1. PICK target \in Targets : target[2] = e.upstream /\ Explains(path, target)
      BY <2>2 DEF LeadsTo
    <3>2. Len(path) \in Nat \ {0} /\ path[Len(path)] \in edges
      BY <1>1, <2>2
    <3>3. path[Len(path)].downstream = e.upstream
      BY <3>1, <3>2, EdgeType DEF Explains
    <3>4. path[1].upstream \in Changed
          /\ \A i \in 1 .. Len(path) - 1 : path[i].downstream = path[i + 1].upstream
      BY <3>1 DEF Explains
    <3>5. ASSUME NEW i \in 1 .. Len(path)
          PROVE  NextPath(e)[i].downstream = NextPath(e)[i + 1].upstream
      <4>1. CASE i = Len(path)
        BY <1>2, <3>2, <3>3, <4>1
      <4>2. CASE i # Len(path)
        <5>1. i \in 1 .. Len(path) - 1 /\ i + 1 \in 1 .. Len(path)
          BY <3>2, <4>2
        <5> QED
          BY <1>2, <3>4, <5>1
      <4> QED
        BY <4>1, <4>2
    <3> QED
      BY <1>2, <3>2, <3>4, <3>5 DEF Explains
  <2> QED
    BY <2>1, <2>2
<1> QED
  BY <1>1, <1>2, <1>3 DEF LeadsTo

\* Whether a path leads to a column depends on the input only.
LEMMA LeadsKept ==
  ASSUME input' = input
  PROVE  /\ \A chain, c : LeadsTo(chain, c)' <=> LeadsTo(chain, c)
         /\ \A chain, target : Explains(chain, target)' <=> Explains(chain, target)
BY DEF LeadsTo, Explains, Changed, Key

\* The queue starts with the changed columns and empty paths.
LEMMA PathInit == Init => PathInvariant
<1> SUFFICES ASSUME Init PROVE PathInvariant
  OBVIOUS
<1>1. Len(input) \in Nat /\ todo = {} /\ DOMAIN found = {}
  BY SearchAssumption DEF Init
<1>2. ASSUME NEW i \in 1 .. Len(queue) PROVE LeadsTo(queue[i].path, queue[i].column)
  BY <1>1 DEF Init, LeadsTo, Changed
<1> QED
  BY <1>1, <1>2 DEF PathInvariant, PathsExplain

\* Each loop step keeps what the paths say.
LEMMA PathNext == TypeOK /\ PathInvariant /\ [Next]_vars => PathInvariant'
<1> SUFFICES ASSUME TypeOK, PathInvariant, [Next]_vars PROVE PathInvariant'
  OBVIOUS
<1> input' = input
  BY DEF Next, Search, TakeColumn, SkipEdge, FollowEdge, Return, Returned, vars
<1>1. CASE TakeColumn
  <2>1. /\ Len(queue) \in Nat \ {0} /\ Head(queue) = queue[1]
        /\ Len(queue') = Len(queue) - 1
        /\ \A i \in 1 .. Len(queue) - 1 : queue'[i] = queue[i + 1]
    BY <1>1 DEF TakeColumn, Dequeued, TypeOK
  <2>2. \A i \in 1 .. Len(queue') : LeadsTo(queue'[i].path, queue'[i].column)
    <3> SUFFICES ASSUME NEW i \in 1 .. Len(queue')
                 PROVE  LeadsTo(queue'[i].path, queue'[i].column)
      OBVIOUS
    <3>1. i + 1 \in 1 .. Len(queue) /\ queue'[i] = queue[i + 1]
      BY <2>1
    <3> QED
      BY <3>1 DEF PathInvariant
  <2>3. LeadsTo(path', Head(queue).column)
    BY <1>1, <2>1 DEF TakeColumn, PathInvariant
  <2>4. \A e \in todo' : LeadsTo(path', e.upstream)
    BY <1>1, <2>3 DEF TakeColumn, EdgesOf
  <2>5. found' = found
    BY <1>1 DEF TakeColumn
  <2> QED
    BY <2>2, <2>4, <2>5, LeadsKept DEF PathInvariant, PathsExplain
<1>2. ASSUME NEW e \in todo, FollowEdge(e) PROVE PathInvariant'
  <2> DEFINE item == [column |-> e.downstream, path |-> NextPath(e)]
  <2>1. Explains(NextPath(e), Key(e)) /\ LeadsTo(NextPath(e), e.downstream)
    BY NextPathExplains DEF PathInvariant
  <2>2. queue' = Append(queue, item) /\ queue \in Seq(Item) /\ item \in Item
    <3>1. e \in edges /\ e.downstream \in Columns
      BY EdgeType DEF TypeOK
    <3> QED
      BY <1>2, <3>1 DEF FollowEdge, Enqueued, Item, NextPath, TypeOK
  <2>3. /\ Len(queue) \in Nat /\ Len(queue') = Len(queue) + 1
        /\ queue'[Len(queue) + 1] = item
        /\ \A i \in 1 .. Len(queue) : queue'[i] = queue[i]
    BY <2>2
  <2>4. \A i \in 1 .. Len(queue') : LeadsTo(queue'[i].path, queue'[i].column)
    BY <2>1, <2>3 DEF PathInvariant
  <2>5. \A edge \in todo' : LeadsTo(path', edge.upstream)
    BY <1>2 DEF FollowEdge, PathInvariant
  <2>6. \A target \in DOMAIN found' : Explains(found'[target], target)
    BY <1>2, <2>1 DEF FollowEdge, PathInvariant, PathsExplain
  <2> QED
    BY <2>4, <2>5, <2>6, LeadsKept DEF PathInvariant, PathsExplain
<1>3. CASE (\E e \in todo : SkipEdge(e)) \/ Return \/ UNCHANGED vars
  <2>1. UNCHANGED <<queue, path, found>> /\ todo' \subseteq todo
    BY <1>3 DEF SkipEdge, Return, vars
  <2> QED
    BY <2>1, LeadsKept DEF PathInvariant, PathsExplain
<1> QED
  BY <1>1, <1>2, <1>3 DEF Next, Search, Returned

\* Whatever the search has found, at any moment, it can explain by a path.
THEOREM PathsAreExplained == Spec => []PathsExplain
<1>1. Init => PathInvariant
  BY PathInit
<1>2. TypeOK /\ PathInvariant /\ [Next]_vars => PathInvariant'
  BY PathNext
<1>3. PathInvariant => PathsExplain
  BY DEF PathInvariant
<1> QED
  BY <1>1, <1>2, <1>3, SearchTyped, PTL DEF Spec

-----------------------------------------------------------------------------
(* The lengths of the paths. *)

LevelInvariant == LevelsInOrder /\ LevelsAreExpanded

\* Lengths are numbers, and a target's path has an edge.
LEMMA LengthTypes ==
  ASSUME TypeOK
  PROVE  /\ Len(path) \in Nat /\ Len(queue) \in Nat
         /\ \A i \in 1 .. Len(queue) : queue[i].path \in Seq(edges)
                                     /\ Len(queue[i].path) \in Nat
         /\ \A target \in DOMAIN found : Len(found[target]) \in Nat \ {0}
<1>1. \A i \in 1 .. Len(queue) : queue[i] \in Item
  BY DEF TypeOK
<1>2. \A i \in 1 .. Len(queue) : queue[i].path \in Seq(edges)
  BY <1>1 DEF Item
<1>3. ASSUME NEW target \in DOMAIN found PROVE Len(found[target]) \in Nat \ {0}
  <2>1. found[target] \in Seq(edges) \ {<<>>}
    BY DEF TypeOK
  <2> QED
    BY <2>1
<1> QED
  BY <1>2, <1>3 DEF TypeOK

\* What a queue is without its head, and with one more item.
LEMMA DequeuedItems ==
  ASSUME TypeOK, TakeColumn
  PROVE  /\ Len(queue) \in Nat \ {0} /\ Head(queue) = queue[1]
         /\ Len(queue') = Len(queue) - 1
         /\ \A i \in 1 .. Len(queue') : i + 1 \in 1 .. Len(queue) /\ queue'[i] = queue[i + 1]
BY DEF TakeColumn, Dequeued, TypeOK

LEMMA EnqueuedItems ==
  ASSUME TypeOK, NEW e \in todo, FollowEdge(e)
  PROVE  /\ Len(queue) \in Nat /\ Len(queue') = Len(queue) + 1
         /\ queue'[Len(queue) + 1].column = e.downstream
         /\ queue'[Len(queue) + 1].path = NextPath(e)
         /\ \A i \in 1 .. Len(queue) : queue'[i] = queue[i]
         /\ Len(path) \in Nat /\ Len(NextPath(e)) = Len(path) + 1
<1> DEFINE item == [column |-> e.downstream, path |-> NextPath(e)]
<1>1. e \in edges /\ path \in Seq(edges) /\ e.downstream \in Columns
  BY EdgeType DEF TypeOK
<1>2. /\ NextPath(e) \in Seq(edges)
      /\ Len(path) \in Nat /\ Len(NextPath(e)) = Len(path) + 1
  BY <1>1 DEF NextPath
<1>3. item \in Item
  BY <1>1, <1>2 DEF Item
<1>4. queue' = Append(queue, item) /\ queue \in Seq(Item)
  BY DEF FollowEdge, Enqueued, TypeOK
<1>5. /\ Len(queue) \in Nat /\ Len(queue') = Len(queue) + 1
      /\ queue'[Len(queue) + 1] = item
      /\ \A i \in 1 .. Len(queue) : queue'[i] = queue[i]
  BY <1>3, <1>4
<1> QED
  BY <1>2, <1>5

\* The queue starts with the changed columns, none of them a step away.
LEMMA LevelInit == Init => LevelInvariant
<1> SUFFICES ASSUME Init PROVE LevelInvariant
  OBVIOUS
<1>1. Len(input) \in Nat /\ Len(queue) = Len(input) /\ Len(path) = 0 /\ DOMAIN found = {}
  BY SearchAssumption DEF Init
<1>2. \A i \in 1 .. Len(queue) :
        queue[i].column = input[i] /\ queue[i].path = <<>> /\ Len(queue[i].path) = 0
  BY <1>1 DEF Init
<1>3. LevelsInOrder
  BY <1>1, <1>2 DEF LevelsInOrder
<1>4. \A c \in Changed : ExpandedFrom(c, 0)
  BY <1>1, <1>2 DEF Changed, ExpandedFrom
<1> QED
  BY <1>1, <1>3, <1>4 DEF LevelInvariant, LevelsAreExpanded

\* The next column is as near as any in the queue, and not nearer than the last.
LEMMA TakeKeepsLevels ==
  ASSUME TypeOK, LevelInvariant, TakeColumn PROVE LevelInvariant'
<1>1. /\ Changed' = Changed /\ found' = found
      /\ todo = {} /\ todo' = EdgesOf(Head(queue).column)
      /\ path' = Head(queue).path
      /\ \A c : EdgesOf(c)' = EdgesOf(c)
  BY DEF TakeColumn, Changed, EdgesOf
<1>2. /\ 1 \in 1 .. Len(queue)
      /\ path' = queue[1].path
      /\ Len(path) <= Len(path') /\ Len(path') <= Len(path) + 1
      /\ Len(path) \in Nat /\ Len(path') \in Nat
  BY <1>1, DequeuedItems, LengthTypes DEF LevelInvariant, LevelsInOrder
<1>3. LevelsInOrder'
  <2>1. ASSUME NEW i \in 1 .. Len(queue')
        PROVE  Len(path') <= Len(queue'[i].path) /\ Len(queue'[i].path) <= Len(path') + 1
    <3>1. i + 1 \in 1 .. Len(queue) /\ queue'[i] = queue[i + 1] /\ 1 <= i + 1
      BY DequeuedItems
    <3>2. Len(queue[i + 1].path) \in Nat
      BY <3>1, LengthTypes
    <3>3. Len(queue[1].path) <= Len(queue[i + 1].path)
          /\ Len(queue[i + 1].path) <= Len(path) + 1
      BY <1>2, <3>1 DEF LevelInvariant, LevelsInOrder
    <3> QED
      BY <1>2, <3>1, <3>2, <3>3
  <2>2. ASSUME NEW i \in 1 .. Len(queue'), NEW j \in 1 .. Len(queue'), i <= j
        PROVE  Len(queue'[i].path) <= Len(queue'[j].path)
    <3>1. /\ i + 1 \in 1 .. Len(queue) /\ queue'[i] = queue[i + 1]
          /\ j + 1 \in 1 .. Len(queue) /\ queue'[j] = queue[j + 1]
          /\ i + 1 <= j + 1
      BY <2>2, DequeuedItems
    <3> QED
      BY <3>1 DEF LevelInvariant, LevelsInOrder
  <2>3. ASSUME NEW target \in DOMAIN found PROVE Len(found[target]) <= Len(path') + 1
    BY <1>2, LengthTypes DEF LevelInvariant, LevelsInOrder
  <2> QED
    BY <1>1, <2>1, <2>2, <2>3 DEF LevelsInOrder
<1>4. ASSUME NEW c, NEW n \in Nat, ExpandedFrom(c, n) PROVE ExpandedFrom(c, n)'
  <2>1. CASE \E i \in 1 .. Len(queue) : queue[i].column = c /\ Len(queue[i].path) <= n
    <3>1. PICK i \in 1 .. Len(queue) : queue[i].column = c /\ Len(queue[i].path) <= n
      BY <2>1
    <3>2. CASE i = 1
      <4>1. todo' = EdgesOf(c) /\ Len(path') <= n
        BY <1>1, <1>2, <3>1, <3>2, DequeuedItems
      <4> QED
        BY <1>1, <4>1 DEF ExpandedFrom
    <3>3. CASE i # 1
      <4>1. i - 1 \in 1 .. Len(queue') /\ queue'[i - 1] = queue[i]
        BY <3>3, DequeuedItems
      <4> QED
        BY <3>1, <4>1 DEF ExpandedFrom
    <3> QED
      BY <3>2, <3>3
  <2>2. CASE \A e \in EdgesOf(c) :
               Key(e) \in DOMAIN found /\ Len(found[Key(e)]) <= n + 1
    BY <1>1, <2>2 DEF ExpandedFrom, Key
  <2> QED
    BY <1>1, <1>4, <2>1, <2>2 DEF ExpandedFrom
<1>5. LevelsAreExpanded'
  BY <1>1, <1>4, LengthTypes DEF LevelInvariant, LevelsAreExpanded
<1> QED
  BY <1>3, <1>5 DEF LevelInvariant

\* A target that was visited is not further away than the edge would make it.
LEMMA SkipKeepsLevels ==
  ASSUME TypeOK, LevelInvariant, NEW e \in todo, SkipEdge(e) PROVE LevelInvariant'
<1>1. /\ UNCHANGED <<queue, path, found>>
      /\ Changed' = Changed /\ todo' = todo \ {e}
      /\ Key(e) \in DOMAIN found
      /\ \A c : EdgesOf(c)' = EdgesOf(c)
  BY DEF SkipEdge, Visited, Changed, EdgesOf
<1>2. LevelsInOrder'
  BY <1>1 DEF LevelInvariant, LevelsInOrder
<1>3. Len(found[Key(e)]) <= Len(path) + 1 /\ Len(found[Key(e)]) \in Nat /\ Len(path) \in Nat
  BY <1>1, LengthTypes DEF LevelInvariant, LevelsInOrder
<1>4. ASSUME NEW c, NEW n \in Nat, ExpandedFrom(c, n) PROVE ExpandedFrom(c, n)'
  <2>1. ASSUME NEW edge \in EdgesOf(c),
               \/ Key(edge) \in DOMAIN found /\ Len(found[Key(edge)]) <= n + 1
               \/ edge \in todo /\ Len(path) <= n
        PROVE  \/ Key(edge) \in DOMAIN found /\ Len(found[Key(edge)]) <= n + 1
               \/ edge \in todo \ {e} /\ Len(path) <= n
    BY <1>1, <1>3, <2>1
  <2> QED
    BY <1>1, <1>4, <2>1 DEF ExpandedFrom, Key
<1>5. LevelsAreExpanded'
  BY <1>1, <1>4, LengthTypes DEF LevelInvariant, LevelsAreExpanded
<1> QED
  BY <1>2, <1>5 DEF LevelInvariant

\* A new target is one step further than the column being expanded.
LEMMA FollowKeepsLevels ==
  ASSUME TypeOK, LevelInvariant, NEW e \in todo, FollowEdge(e) PROVE LevelInvariant'
<1>1. /\ path' = path /\ Changed' = Changed /\ todo' = todo \ {e}
      /\ Key(e) \notin DOMAIN found
      /\ DOMAIN found' = DOMAIN found \union {Key(e)}
      /\ found'[Key(e)] = NextPath(e)
      /\ \A target \in DOMAIN found : found'[target] = found[target]
      /\ \A c : EdgesOf(c)' = EdgesOf(c)
  BY DEF FollowEdge, Visited, Changed, EdgesOf
<1>2. Key(e)[2] = e.downstream
  BY DEF Key
<1>3. Len(path) \in Nat /\ Len(NextPath(e)) = Len(path) + 1
  BY EnqueuedItems
<1>4. LevelsInOrder'
  <2>1. \A i \in 1 .. Len(queue) :
          /\ Len(queue[i].path) \in Nat
          /\ Len(path) <= Len(queue[i].path) /\ Len(queue[i].path) <= Len(path) + 1
    BY LengthTypes DEF LevelInvariant, LevelsInOrder
  <2>2. \A i \in 1 .. Len(queue') :
          Len(path) <= Len(queue'[i].path) /\ Len(queue'[i].path) <= Len(path) + 1
    BY <1>3, <2>1, EnqueuedItems
  <2>3. ASSUME NEW i \in 1 .. Len(queue'), NEW j \in 1 .. Len(queue'), i <= j
        PROVE  Len(queue'[i].path) <= Len(queue'[j].path)
    <3>1. CASE j \in 1 .. Len(queue)
      <4>1. i \in 1 .. Len(queue) /\ queue'[i] = queue[i] /\ queue'[j] = queue[j]
        BY <2>3, <3>1, EnqueuedItems
      <4> QED
        BY <2>3, <3>1, <4>1 DEF LevelInvariant, LevelsInOrder
    <3>2. CASE j = Len(queue) + 1
      BY <1>3, <2>2, <3>2, EnqueuedItems
    <3> QED
      BY <3>1, <3>2, EnqueuedItems
  <2>4. ASSUME NEW target \in DOMAIN found' PROVE Len(found'[target]) <= Len(path) + 1
    BY <1>1, <1>3 DEF LevelInvariant, LevelsInOrder
  <2> QED
    BY <1>1, <2>2, <2>3, <2>4 DEF LevelsInOrder
<1>5. ASSUME NEW c, NEW n \in Nat, ExpandedFrom(c, n) PROVE ExpandedFrom(c, n)'
  <2>1. CASE \E i \in 1 .. Len(queue) : queue[i].column = c /\ Len(queue[i].path) <= n
    <3>1. PICK i \in 1 .. Len(queue) : queue[i].column = c /\ Len(queue[i].path) <= n
      BY <2>1
    <3>2. i \in 1 .. Len(queue') /\ queue'[i] = queue[i]
      BY EnqueuedItems
    <3> QED
      BY <3>1, <3>2 DEF ExpandedFrom
  <2>2. CASE \A edge \in EdgesOf(c) :
               \/ Key(edge) \in DOMAIN found /\ Len(found[Key(edge)]) <= n + 1
               \/ edge \in todo /\ Len(path) <= n
    <3>1. ASSUME NEW edge \in EdgesOf(c)
          PROVE  \/ Key(edge) \in DOMAIN found' /\ Len(found'[Key(edge)]) <= n + 1
                 \/ edge \in todo' /\ Len(path') <= n
      <4>1. CASE edge = e
        BY <1>1, <1>3, <2>2, <4>1
      <4>2. CASE edge # e
        BY <1>1, <2>2, <4>2
      <4> QED
        BY <4>1, <4>2
    <3> QED
      BY <1>1, <3>1 DEF ExpandedFrom, Key
  <2> QED
    BY <1>5, <2>1, <2>2 DEF ExpandedFrom
<1>6. \E i \in 1 .. Len(queue') :
        queue'[i].column = e.downstream /\ Len(queue'[i].path) <= Len(found'[Key(e)])
  <2>1. Len(queue) + 1 \in 1 .. Len(queue')
    BY EnqueuedItems
  <2> QED
    BY <1>1, <1>3, <2>1, EnqueuedItems
<1>7. LevelsAreExpanded'
  <2>1. \A c \in Changed' : ExpandedFrom(c, 0)'
    BY <1>1, <1>5 DEF LevelInvariant, LevelsAreExpanded
  <2>2. ASSUME NEW target \in DOMAIN found'
        PROVE  ExpandedFrom(target[2], Len(found[target]))'
    <3>1. CASE target \in DOMAIN found
      <4>1. ExpandedFrom(target[2], Len(found[target])) /\ Len(found[target]) \in Nat
        BY <3>1, LengthTypes DEF LevelInvariant, LevelsAreExpanded
      <4>2. found'[target] = found[target]
        BY <1>1, <3>1
      <4> QED
        BY <1>5, <4>1, <4>2 DEF ExpandedFrom
    <3>2. CASE target = Key(e)
      BY <1>2, <1>6, <3>2 DEF ExpandedFrom
    <3> QED
      BY <1>1, <3>1, <3>2
  <2> QED
    BY <2>1, <2>2 DEF LevelsAreExpanded
<1> QED
  BY <1>4, <1>7 DEF LevelInvariant

\* Each loop step keeps the levels.
LEMMA LevelNext == TypeOK /\ LevelInvariant /\ [Next]_vars => LevelInvariant'
<1> SUFFICES ASSUME TypeOK, LevelInvariant, [Next]_vars PROVE LevelInvariant'
  OBVIOUS
<1>1. CASE Return \/ UNCHANGED vars
  <2>1. UNCHANGED <<edges, input, queue, path, todo, found>>
    BY <1>1 DEF Return, vars
  <2> QED
    BY <2>1 DEF LevelInvariant, LevelsInOrder, LevelsAreExpanded, ExpandedFrom,
                Changed, EdgesOf, Key
<1> QED
  BY <1>1, TakeKeepsLevels, SkipKeepsLevels, FollowKeepsLevels DEF Next, Search, Returned

\* Everything the argument rests on holds in every state of the search.
THEOREM SearchInvariantHolds == Spec => []SearchInvariant
<1>1. Init => ReachInvariant /\ LevelInvariant
  BY ReachInit, LevelInit
<1>2. TypeOK /\ ReachInvariant /\ LevelInvariant /\ [Next]_vars
        => ReachInvariant' /\ LevelInvariant'
  BY ReachNext, LevelNext
<1>3. ReachInvariant /\ LevelInvariant => SearchInvariant
  BY DEF SearchInvariant, ReachInvariant, LevelInvariant
<1> QED
  BY <1>1, <1>2, <1>3, SearchTyped, PTL DEF Spec

\* With an empty queue and nothing to look at, every column seen has been
\* expanded: no edge is worth more than one step.
LEMMA ResultIsShortest ==
  ASSUME TypeOK, SearchInvariant PROVE PathsAreShortest
<1> SUFFICES ASSUME pc = "done", NEW e \in edges
             PROVE  /\ e.upstream \in Changed => Len(found[Key(e)]) = 1
                    /\ \A target \in DOMAIN found :
                         e.upstream = target[2] =>
                           Len(found[Key(e)]) <= Len(found[target]) + 1
  BY DEF PathsAreShortest
<1>1. queue = <<>> /\ todo = {} /\ e \in EdgesOf(e.upstream)
  BY DEF SearchInvariant, OnlyReachable, EdgesOf
<1>2. ASSUME NEW n \in Nat, ExpandedFrom(e.upstream, n)
      PROVE  Key(e) \in DOMAIN found /\ Len(found[Key(e)]) <= n + 1
  BY <1>1, <1>2 DEF ExpandedFrom
<1>3. ASSUME e.upstream \in Changed PROVE Len(found[Key(e)]) = 1
  <2>1. ExpandedFrom(e.upstream, 0)
    BY <1>3 DEF SearchInvariant, LevelsAreExpanded
  <2> DEFINE length == Len(found[Key(e)])
  <2>2. Key(e) \in DOMAIN found /\ length <= 0 + 1
    BY <1>2, <2>1
  <2>3. length \in Nat \ {0}
    BY <2>2, LengthTypes
  <2> HIDE DEF length
  <2>4. length = 1
    BY <2>2, <2>3
  <2> QED
    BY <2>4 DEF length
<1>4. ASSUME NEW target \in DOMAIN found, e.upstream = target[2]
      PROVE  Len(found[Key(e)]) <= Len(found[target]) + 1
  <2>1. ExpandedFrom(e.upstream, Len(found[target])) /\ Len(found[target]) \in Nat
    BY <1>4, LengthTypes DEF SearchInvariant, LevelsAreExpanded
  <2> QED
    BY <1>2, <2>1
<1> QED
  BY <1>3, <1>4

\* For every graph and every input: the path reported for a target is as short as
\* any, because a path leads to each target and no edge of the graph shortens one.
THEOREM SearchFindsShortest == Spec => []PathsAreShortest
<1>1. TypeOK /\ SearchInvariant => PathsAreShortest
  BY ResultIsShortest
<1> QED
  BY <1>1, SearchTyped, SearchInvariantHolds, PTL

-----------------------------------------------------------------------------
(* Termination: what is left to do shrinks. *)

Unvisited == Targets \ DOMAIN found

Shrinks(left, now) == now \subseteq left /\ now # left

\* Each iteration visits a target for the first time, or shortens the queue, or
\* leaves one edge less to look at, and undoes none of these: as there are
\* finitely many targets and edges, and a queue is finite, the loops end
\* (lineage.py:69-79).
SearchProgresses ==
  [][\/ Shrinks(Unvisited, Unvisited')
     \/ found' = found /\ Len(queue') < Len(queue)
     \/ found' = found /\ queue' = queue /\ Shrinks(todo, todo')
     \/ UNCHANGED <<found, queue, todo>> /\ pc = "searching" /\ pc' = "done"]_vars

\* The search cannot go on for ever, on no graph: every step counts down.
THEOREM EveryStepCounts == Spec => SearchProgresses
<1> DEFINE Progress ==
      \/ Shrinks(Unvisited, Unvisited')
      \/ found' = found /\ Len(queue') < Len(queue)
      \/ found' = found /\ queue' = queue /\ Shrinks(todo, todo')
      \/ UNCHANGED <<found, queue, todo>> /\ pc = "searching" /\ pc' = "done"
<1>1. ASSUME TypeOK, TakeColumn PROVE Progress
  <2>1. found' = found /\ Len(queue') < Len(queue)
    BY <1>1, DequeuedItems DEF TakeColumn
  <2> QED
    BY <2>1
<1>2. ASSUME NEW e \in todo, SkipEdge(e) PROVE Progress
  BY <1>2 DEF SkipEdge, Shrinks
<1>3. ASSUME TypeOK, NEW e \in todo, FollowEdge(e) PROVE Progress
  <2>1. Key(e) \in Targets
    BY <1>3, EdgeType DEF TypeOK
  <2>2. Key(e) \notin DOMAIN found /\ DOMAIN found' = DOMAIN found \union {Key(e)}
    BY <1>3 DEF FollowEdge, Visited
  <2>3. Shrinks(Unvisited, Unvisited')
    BY <2>1, <2>2 DEF Shrinks, Unvisited
  <2> QED
    BY <2>3
<1>4. ASSUME Return PROVE Progress
  BY <1>4 DEF Return
<1>5. TypeOK /\ [Next]_vars => [Progress]_vars
  BY <1>1, <1>2, <1>3, <1>4 DEF Next, Search, Returned
<1> QED
  BY <1>5, SearchTyped, PTL DEF Spec, SearchProgresses
=============================================================================
