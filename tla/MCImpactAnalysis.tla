-------------------------- MODULE MCImpactAnalysis --------------------------
(* Every graph over three columns and two pipelines, searched from each      *)
(* column, from the first one and another or itself (two changes of one       *)
(* column), and from none, which changes that do not break lead to.          *)
EXTENDS ImpactAnalysis, TLC

MCColumns == 1 .. 3

MCPipelines == 1 .. 2

MCRank == [target \in Targets |-> 10 * target[1] + target[2]]

AllGraphs == SUBSET {e \in Edge : e.upstream # e.downstream}

UpToTwoColumns ==
  {<<>>} \union {<<c>> : c \in Columns} \union {<<1, c>> : c \in Columns}
=============================================================================
