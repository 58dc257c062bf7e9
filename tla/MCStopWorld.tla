---------------------------- MODULE MCStopWorld ----------------------------
EXTENDS StopWorld
CONSTANTS a, b
MCMaxStops == [r \in BOOLEAN |-> IF r THEN 1 ELSE 2]
MCOps == [i \in Id |-> IF i = Main THEN {"collect", "create"}
                       ELSE IF i = a THEN {"block", "active"} ELSE {"collect", "exit"}]
MCTwoStops == [r \in BOOLEAN |-> 2]
=============================================================================
