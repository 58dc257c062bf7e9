-------------------------------- MODULE World --------------------------------
(***************************************************************************)
(* What stopping the world promises: while a thread collects, no other     *)
(* thread runs, and none starts to run before the collector is done.       *)
(***************************************************************************)
CONSTANTS Id, NoThread

VARIABLES
  running,     \* the threads that may touch the heap
  collector    \* the thread that collects, with the world stopped

Init ==
  /\ running \in SUBSET Id
  /\ collector = NoThread

\* A thread starts, comes back from a blocking region, or is resumed.
Enter(i) ==
  /\ collector = NoThread
  /\ running' = running \cup {i}
  /\ UNCHANGED collector

\* A thread ends, enters a blocking region, or is suspended.
Leave(i) ==
  /\ i # collector
  /\ running' = running \ {i}
  /\ UNCHANGED collector

Stop(c) ==
  /\ collector = NoThread
  /\ running = {c}
  /\ collector' = c
  /\ UNCHANGED running

Start ==
  /\ collector' = NoThread
  /\ UNCHANGED running

Next == \E i \in Id : Enter(i) \/ Leave(i) \/ Stop(i) \/ Start

Spec == Init /\ [][Next]_<<running, collector>>
=============================================================================
