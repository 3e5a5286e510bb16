------------------------------ MODULE MCStorage ------------------------------
(***************************************************************************)
(* Storage on tensors of four elements, a line and a square.               *)
(***************************************************************************)
EXTENDS Storage

CONSTANTS original, copy, other

MCFresh == {original, other}
MCCopyOf == [r \in {copy} |-> original]
MCShapes == {<<4>>, <<2, 2>>}
WrapperSymmetry == Permutations(Wrapper)
MCStepSet == {1, 2}
=============================================================================
