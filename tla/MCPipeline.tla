----------------------------- MODULE MCPipeline ------------------------------
(***************************************************************************)
(* Pipeline on small instances: gold asks for one accepted opportunity,    *)
(* platinum for two and for finished courses.                              *)
(***************************************************************************)
EXTENDS Pipeline

CONSTANTS o1, o2, c1, a1

MCRule ==
    [t \in {2, 3} |-> IF t = 2 THEN [opps |-> 1, rate |-> 0]
                               ELSE [opps |-> 2, rate |-> 1]]
=============================================================================
