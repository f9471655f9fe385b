--------------------------- MODULE MCIndexWorkers ---------------------------
(***************************************************************************)
(* Instances of IndexWorkers for TLC.                                      *)
(***************************************************************************)
EXTENDS IndexWorkers, TLC

CONSTANTS a, b, c, d, x, y, bad, big, w1, w2

TwoPaths == {a, b}
FourPaths == {a, b, c, d}
Together == (a :> 1) @@ (b :> 1)
TwoProjects == (a :> 1) @@ (b :> 1) @@ (c :> 2) @@ (d :> 2)

SameSize == (x :> 1) @@ (y :> 1) @@ (bad :> 1) @@ (big :> 9)

NoMoves  == {}
MoveAcross == {<<a, c>>}

Symmetric == Permutations({w1, w2})
=============================================================================
