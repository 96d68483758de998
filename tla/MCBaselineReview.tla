-------------------------- MODULE MCBaselineReview --------------------------
EXTENDS BaselineReview

MCTypes ==
  {[name |-> n, length |-> {}, precision |-> {}, scale |-> {}] :
     n \in {"integer", "bigint"}}
=============================================================================
