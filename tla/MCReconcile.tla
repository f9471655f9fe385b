--------------------------- MODULE MCReconcile ---------------------------
(***************************************************************************)
(* Instances of Reconcile for TLC.                                         *)
(***************************************************************************)
EXTENDS Reconcile, TLC

CONSTANTS a, b, x, y, bad, big, w1

TwoPaths == {a, b}
\* Every file in a project of its own, so that no content is shared.
Apart    == (a :> 1) @@ (b :> 2)

SameSize == (x :> 1) @@ (y :> 1) @@ (bad :> 1) @@ (big :> 9)

NoMoves  == {}

\* x and y are alike, so that x may be written first.
YAfterX == \A p \in Paths : y \in had'[p] => x \in had'[p]

ReconcileSpec == RInit /\ [][RNext /\ YAfterX]_rvars /\ RFairness
=============================================================================
