--------------------------- MODULE MCPhysicalPlan ---------------------------
(***************************************************************************)
(* Instances of PhysicalPlan for TLC.                                      *)
(***************************************************************************)
EXTENDS PhysicalPlan, TLC

\* Every operation and an empty shape in regions of up to three nodes, Index in
\* regions of four, the operations planning turns on in regions of five.
MCOpNodes ==
    ("TensorLiteral" :> 3) @@ ("Extension" :> 3) @@ ("Index" :> 4)
        @@ [op \in {"Input", "Alias", "Copy", "Elementwise"} |-> 5]
MCShapeNodes == ("square" :> 5) @@ ("zero" :> 3)

\* A fused chain needs no more to meet a slot that is taken.
MCChainOpNodes == [op \in {"Input", "Copy", "Elementwise"} |-> 5]

MCOneShape == [shape \in {"square"} |-> 5]

\* Obligations in every region of four nodes; in regions of five where an alias, reuse
\* and fusion meet.
MCObliged(steps, on, with) ==
    Len(steps) <= 4 \/ (on = "gpu" /\ with.reuse /\ with.fusion)
MCNoObligations(steps, on, with) == FALSE

MCAllOptions == [reuse : BOOLEAN, fusion : BOOLEAN]
MCBothOptions == {[reuse |-> TRUE, fusion |-> TRUE]}
=============================================================================
