----------------------------- MODULE MCArrayPtr -----------------------------
EXTENDS ArrayPtr, TLC

CONSTANTS c, w

\* A char array pointer and a short array pointer.
MCEltOf == c :> 1 @@ w :> 2

MCInts == {-1, 1, 2}
=============================================================================
