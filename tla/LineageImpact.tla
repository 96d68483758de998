---------------------------- MODULE LineageImpact ----------------------------
(***************************************************************************)
(* The lineage graph and what a change of some columns reaches in it.  An  *)
(* edge says that a pipeline computes a downstream column from an upstream *)
(* one; the edges of all pipelines form one graph, which may have cycles   *)
(* although the catalog refuses loops.                                     *)
(*                                                                         *)
(* Impacts is the definition that the search of ImpactAnalysis is checked  *)
(* and proved against, and what PipelineGuard uses in its place.           *)
(***************************************************************************)
CONSTANTS
  Columns,    \* ColumnRefs
  Pipelines   \* pipeline keys

Edge == [pipeline: Pipelines, upstream: Columns, downstream: Columns]

Targets == Pipelines \X Columns

Key(e) == <<e.pipeline, e.downstream>>

\* No edge leaves such a set of columns.
Closed(edges, columns) ==
  \A e \in edges : e.upstream \in columns => e.downstream \in columns

\* The columns a change of the start columns reaches: those in every closed set
\* around them.
ReachableFrom(edges, start) ==
  {c \in Columns : \A columns \in SUBSET Columns :
     start \subseteq columns /\ Closed(edges, columns) => c \in columns}

Impacts(edges, start) ==
  {Key(e) : e \in {edge \in edges : edge.upstream \in ReachableFrom(edges, start)}}
=============================================================================
