--------------------------- MODULE MCPipelineGuard ---------------------------
(* One run of a pipeline that reads what another one computes, two catalog   *)
(* commands, and a source one of whose columns changes type both ways.       *)
EXTENDS PipelineGuard

CONSTANTS raw, clean, mart, load, revenue, d1

Plain(name) == [name |-> name, length |-> {}, precision |-> {}, scale |-> {}]

MCTypes == {Plain("integer"), Plain("bigint")}

Column(name) ==
  [dtype |-> Plain(name), nullable |-> FALSE, default |-> "none", ordinal |-> 1]

Source(name) == [c \in Columns |-> Column(IF c = raw THEN name ELSE "integer")]

Sources == {Source("integer"), Source("bigint")}

Feeds(pipeline, upstream, downstream) ==
  [pipeline |-> pipeline, upstream |-> upstream, downstream |-> downstream]

\* The revenue pipeline reads a computed column, or the source itself; in one
\* file it is missing, and in one an edge is a loop.
CatalogFiles ==
  {{Feeds(load, raw, clean), Feeds(revenue, clean, mart)},
   {Feeds(revenue, raw, mart)},
   {Feeds(load, raw, clean)},
   {Feeds(load, raw, raw)}}

ByName == [p \in Pipelines |-> IF p = load THEN 1 ELSE 2]

Revenue == [d \in Runs |-> revenue]
=============================================================================
