--------------------------- MODULE MCPtrAnalysis ---------------------------
EXTENDS PtrAnalysis, TLC

\* The function 2 has the parameter 4; the variables come before, between and
\* after them in the map.
MCParamOf == 2 :> 4
=============================================================================
