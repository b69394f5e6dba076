--------------------------- MODULE MCMiniWorkflow ---------------------------
(***************************************************************************)
(* Small instances of MiniWorkflow for TLC.                                *)
(***************************************************************************)
EXTENDS MiniWorkflow, TLC

CONSTANTS k1, k2, v1, v2, i1, i2

R(k, v) == [key |-> k, value |-> v]
Src(recs, rejected, filtered) ==
  [records |-> recs, rejected |-> rejected, filtered |-> filtered]

\* Every way two rows of one file can relate to each other and to a history
\* that holds either of them, with and without rejected and filtered rows.
ManySources ==
  { Src(<<>>, 0, 1),
    Src(<<R(k1, v1)>>, 0, 0),
    Src(<<R(k1, v2), R(k2, v1)>>, 1, 0),
    Src(<<R(k2, v1), R(k2, v1)>>, 0, 1),
    Src(<<R(k1, v1), R(k2, v1), R(k1, v2)>>, 0, 0) }

\* A new auction; another one with a conflict or a duplicate of the first.
TwoSources ==
  { Src(<<R(k1, v1)>>, 0, 0), Src(<<R(k2, v1), R(k1, v2)>>, 0, 0) }

\* Sound for the runs without liveness properties.
Copies == Permutations(Instances)

=============================================================================
