--------------------------- MODULE MCDatasetCapture ---------------------------
(* Instances of DatasetCapture for TLC. *)
EXTENDS DatasetCapture, TLC

CONSTANTS d1, d2, s1

MCDatasets == {d1, d2}
MCOneStop == {s1}

\* Windows [start, start] that overlap or not, depending on when d1 is
\* received; that always overlap.
MCMayOverlap == d1 :> 0 @@ d2 :> 1
MCOverlap == d1 :> 0 @@ d2 :> 0
MCPeriod == [d \in MCDatasets |-> 0]
MCTarget == d1 :> 1 @@ d2 :> 2

\* Two datasets that nothing tells apart.
MCSameTarget == [d \in MCDatasets |-> 1]
MCSymmetry == Permutations(MCDatasets)

MCNoStop == {}

\* No folder is missing; every folder may be.
MCNoFolder == {}
MCAnyFolder == MCDatasets \cup {None}
=============================================================================
