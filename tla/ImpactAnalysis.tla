--------------------------- MODULE ImpactAnalysis ---------------------------
(***************************************************************************)
(* LineageGraph.impacts_for_columns: which pipelines and columns a change  *)
(* of some columns reaches, by a breadth-first search over the lineage     *)
(* edges of all pipelines.                                                 *)
(*                                                                         *)
(* The search is one call on data of its own: its steps are the iterations *)
(* of its two loops.                                                       *)
(***************************************************************************)
EXTENDS LineageImpact, Sequences, Naturals

CONSTANTS
  Rank,       \* the order of <<pipeline key, downstream column>>
  Graphs,     \* the sets of lineage edges the catalog can hold
  Inputs      \* the columns the search is called for, as sequences

ASSUME SearchAssumption ==
  /\ Graphs \subseteq SUBSET Edge
  /\ Inputs \subseteq Seq(Columns)
  /\ Rank \in [Targets -> Nat]
  /\ \A target, other \in Targets : Rank[target] = Rank[other] => target = other

VARIABLES
  edges,   \* the lineage edges
  input,   \* the columns the search was called for
  queue,   \* columns to expand, each with the path to it
  path,    \* the path to the column being expanded ...
  todo,    \* ... and those of its edges that were not looked at yet
  found,   \* the path to each target; its domain is the code's visited set
  pc

vars == <<edges, input, queue, path, todo, found, pc>>

-----------------------------------------------------------------------------

EdgesOf(column) == {e \in edges : e.upstream = column}

\* The columns the search starts from.
Changed == {input[i] : i \in 1 .. Len(input)}

Item == [column: Columns, path: Seq(edges)]

TypeOK ==
  /\ edges \in Graphs
  /\ input \in Inputs
  /\ queue \in Seq(Item)
  /\ path \in Seq(edges)
  /\ todo \subseteq edges
  /\ DOMAIN found \subseteq Targets
  /\ \A target \in DOMAIN found : found[target] \in Seq(edges) \ {<<>>}
  /\ pc \in {"searching", "done"}

Init ==
  /\ edges \in Graphs
  /\ input \in Inputs
  /\ queue = [i \in 1 .. Len(input) |-> [column |-> input[i], path |-> <<>>]]
  /\ path = <<>>
  /\ todo = {}
  /\ found = <<>>
  /\ pc = "searching"

Dequeued_Peek == queue

Dequeued == Tail(queue)

TakeColumn ==
  /\ pc = "searching"
  /\ todo = {}
  /\ queue # <<>>
  /\ queue' = Dequeued
  /\ path' = Head(queue).path
  /\ todo' = EdgesOf(Head(queue).column)
  /\ UNCHANGED <<edges, input, found, pc>>

IsNext(e) == e \in todo /\ \A other \in todo : Rank[Key(e)] <= Rank[Key(other)]

Visited_AnyPipeline(e) == \E target \in DOMAIN found : target[2] = e.downstream

Visited(e) == Key(e) \in DOMAIN found

SkipEdge(e) ==
  /\ IsNext(e)
  /\ Visited(e)
  /\ todo' = todo \ {e}
  /\ UNCHANGED <<edges, input, queue, path, found, pc>>

NextPath_OnlyEdge(e) == <<e>>

NextPath_Parent(e) == path

NextPath(e) == Append(path, e)

Enqueued_Front(item) == <<item>> \o queue

Enqueued(item) == Append(queue, item)

FollowEdge(e) ==
  /\ IsNext(e)
  /\ ~Visited(e)
  /\ found' = [target \in DOMAIN found \union {Key(e)} |->
                 IF target = Key(e) THEN NextPath(e) ELSE found[target]]
  /\ queue' = Enqueued([column |-> e.downstream, path |-> NextPath(e)])
  /\ todo' = todo \ {e}
  /\ UNCHANGED <<edges, input, path, pc>>

Return ==
  /\ pc = "searching"
  /\ todo = {}
  /\ queue = <<>>
  /\ pc' = "done"
  /\ UNCHANGED <<edges, input, queue, path, todo, found>>

Search ==
  \/ TakeColumn
  \/ \E e \in todo : SkipEdge(e) \/ FollowEdge(e)
  \/ Return

Returned == pc = "done" /\ UNCHANGED vars

Next == Search \/ Returned

Spec == Init /\ [][Next]_vars

\* A loop that can go on goes on.
FairSpec == Spec /\ WF_vars(Search)

-----------------------------------------------------------------------------
(* Safety. *)

Reachable == ReachableFrom(edges, Changed)

\* The result is complete and sound: exactly the targets of the edges that
\* start at a reachable column, through any number of pipelines, around any
\* cycle and although a target is looked at once only (lineage.py:67-79).  A
\* target that is missed lets a pipeline run on drifted data; one too many
\* blocks a pipeline that is not affected.
FindsWhatIsReachable ==
  pc = "done" => DOMAIN found = Impacts(edges, Changed)

Explains(chain, target) ==
  /\ chain[1].upstream \in Changed
  /\ \A i \in 1 .. Len(chain) - 1 : chain[i].downstream = chain[i + 1].upstream
  /\ Key(chain[Len(chain)]) = target

\* The path of a target explains it: it starts at a changed column, each edge
\* continues the one before, and the last edge is the target's
\* (lineage.py:76-78).
PathsExplain == \A target \in DOMAIN found : Explains(found[target], target)

\* Among the paths to a target the search reports a shortest one: an edge is
\* never worth more than one step (lineage.py:67, 71, 79).
PathsAreShortest ==
  pc = "done" => \A e \in edges :
    /\ e.upstream \in Changed => Len(found[Key(e)]) = 1
    /\ \A target \in DOMAIN found :
         e.upstream = target[2] => Len(found[Key(e)]) <= Len(found[target]) + 1

-----------------------------------------------------------------------------
(* Why the result is what is reachable, over shortest paths. *)

Queued == {queue[i].column : i \in 1 .. Len(queue)}

Seen == Changed \union {target[2] : target \in DOMAIN found}

\* A column that was seen is still queued, or each of its edges was followed or
\* is about to be looked at.
SeenIsExpanded ==
  \A c \in Seen \ Queued : \A e \in EdgesOf(c) : Key(e) \in DOMAIN found \/ e \in todo

\* Nothing is seen, queued or found that is not reachable.
OnlyReachable ==
  /\ Queued \subseteq Reachable
  /\ \A e \in todo : e.upstream \in Reachable
  /\ \A target \in DOMAIN found :
       \E e \in edges : e.upstream \in Reachable /\ Key(e) = target
  /\ pc = "done" => queue = <<>> /\ todo = {}

\* The queue is ordered by the length of the paths, and holds two lengths at
\* most: that of the path being expanded and the next one.
LevelsInOrder ==
  /\ \A i \in 1 .. Len(queue) :
       Len(path) <= Len(queue[i].path) /\ Len(queue[i].path) <= Len(path) + 1
  /\ \A i, j \in 1 .. Len(queue) :
       i <= j => Len(queue[i].path) <= Len(queue[j].path)
  /\ \A target \in DOMAIN found : Len(found[target]) <= Len(path) + 1

\* A column n steps from the input is queued with so short a path, or each of its
\* edges leads to a target n + 1 steps away or is about to be looked at.
ExpandedFrom(c, n) ==
  \/ \E i \in 1 .. Len(queue) : queue[i].column = c /\ Len(queue[i].path) <= n
  \/ \A e \in EdgesOf(c) :
       \/ Key(e) \in DOMAIN found /\ Len(found[Key(e)]) <= n + 1
       \/ e \in todo /\ Len(path) <= n

LevelsAreExpanded ==
  /\ \A c \in Changed : ExpandedFrom(c, 0)
  /\ \A target \in DOMAIN found : ExpandedFrom(target[2], Len(found[target]))

SearchInvariant ==
  /\ SeenIsExpanded
  /\ OnlyReachable
  /\ LevelsInOrder
  /\ LevelsAreExpanded

-----------------------------------------------------------------------------
(* Liveness, under Fairness. *)

\* The search ends on every graph, cycles that span pipelines included: what it
\* queues was not visited before.
SearchEnds == <>(pc = "done")
=============================================================================
