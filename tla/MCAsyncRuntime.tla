--------------------------- MODULE MCAsyncRuntime ---------------------------
(***************************************************************************)
(* Instances of AsyncRuntime for TLC.                                      *)
(***************************************************************************)
EXTENDS AsyncRuntime, TLC

CONSTANTS r1, r2, t1, t2

\* A reader; a writer that names its resource twice; a request with no resource.
MCTwoThreadAccesses == { {<<r1, "Read">>}, {<<r1, "Read">>, <<r1, "Write">>}, {} }

\* A reader, a writer, an operation over two resources and the malformed request.
MCHostAccesses ==
    { {<<r1, "Read">>}, {<<r1, "Write">>}, {<<r1, "Read">>, <<r2, "Write">>},
      {<<InvalidResource, "Read">>} }

ThreadSymmetry == Permutations(Thread)
=============================================================================
