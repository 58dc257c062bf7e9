------------------------------ MODULE MCSweep ------------------------------
EXTENDS Sweep, TLC

CONSTANTS s, t, t1, t2

\* A block of NORMAL objects (1) and an UNCOLLECTABLE one (2).
MCKindOf == <<1, 1, 2, 2>>

MCMayPoint == 1 :> {2} @@ 2 :> {} @@ 3 :> {} @@ 4 :> {} @@ s :> {} @@ t :> 1 .. 4
============================================================================
