------------------------------ MODULE MCMarker ------------------------------
EXTENDS Marker, TLC

CONSTANTS s, t

\* Four kinds in four blocks; the last object holds no pointers.
MCKindOf == <<PRECISE, UNCOLLECTABLE, NORMAL, PTRFREE>>

MCMayPoint ==
  1 :> {2, 3} @@ 2 :> {3} @@ 3 :> {1, 4} @@ 4 :> {} @@ s :> {1} @@ t :> 1 .. 4
=============================================================================
