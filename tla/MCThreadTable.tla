--------------------------- MODULE MCThreadTable ---------------------------
EXTENDS ThreadTable
CONSTANTS a, b
\* Thread a is joined, detached and cancelled; thread b registers itself
\* again and has regions without pointers.
MCOps == [i \in Id |->
            CASE i = Main -> {"create"}
              [] i = a    -> {"create", "detached", "exit", "pthread_exit", "reap", "cancel"}
              [] i = b    -> {"create", "detached", "exit", "again", "block", "active"}]
=============================================================================
