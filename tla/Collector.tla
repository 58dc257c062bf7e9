----------------------------- MODULE Collector -----------------------------
(***************************************************************************)
(* What the collector promises to the program.  The program's own steps    *)
(* (new_ptr, new_array, GC_free, pointer stores in objects, globals and    *)
(* locals) and one step of the collector, which may take back any set of   *)
(* objects that the program cannot reach, and no other.                    *)
(***************************************************************************)
EXTENDS Integers

CONSTANTS
  N,          \* bound: the objects of the heap, in address order
  STATIC,     \* the static data segments
  STACK,      \* the stack and the registers of the program
  KindOf,     \* KindOf[o]: the kind of the block that holds o
  MayPoint    \* bound: MayPoint[n]: the objects that the fields of n may name

Obj   == 1 .. N
Roots == {STATIC, STACK}
Node  == Obj \cup Roots

\* The predefined kinds.
PTRFREE       == 0
NORMAL        == 1
UNCOLLECTABLE == 2
PRECISE       == 3
Kind == {PTRFREE, NORMAL, UNCOLLECTABLE, PRECISE}

ASSUME HeapAssumption ==
  /\ N \in Nat
  /\ STATIC # STACK /\ Roots \cap Int = {}
  /\ KindOf \in [Obj -> Kind]
  /\ MayPoint \in [Node -> SUBSET Obj]
  /\ \A o \in Obj : KindOf[o] = PTRFREE => MayPoint[o] = {}

VARIABLES
  allocated,   \* the objects the program has and the collector has not taken back
  points       \* points[n]: the objects that n holds a pointer to

heap == <<allocated, points>>

\* What the program names without following a pointer of the heap.
Base ==
  points[STATIC] \cup points[STACK] \cup {o \in allocated : KindOf[o] = UNCOLLECTABLE}

Closed(S) == \A o \in S : points[o] \subseteq S

\* The objects that the program can reach: the least closed set with Base.
Live ==
  Base \cup {o \in Obj \ Base :
              \A T \in SUBSET (Obj \ Base) : Closed(Base \cup T) => o \in T}

-----------------------------------------------------------------------------
HeapInit ==
  /\ allocated = {}
  /\ points = [n \in Node |-> {}]

\* new_ptr and new_array: the result is in a local.
New(o) ==
  /\ o \notin allocated
  /\ o \in MayPoint[STACK]
  /\ allocated' = allocated \cup {o}
  /\ points' = [points EXCEPT ![o] = {}, ![STACK] = @ \cup {o}]

\* The program stores a pointer it has, or overwrites one.
Store(n, q) ==
  /\ q \in MayPoint[n] \ points[n]
  /\ points' = [points EXCEPT ![n] = @ \cup {q}]
  /\ n \in Live \cup Roots /\ q \in Live
  /\ UNCHANGED allocated

Clear(n, q) ==
  /\ q \in points[n]
  /\ points' = [points EXCEPT ![n] = @ \ {q}]
  /\ n \in Live \cup Roots
  /\ UNCHANGED allocated

\* GC_free: the program gives back an object when it drops its last pointer.
Free(o) ==
  /\ o \in allocated \cap points[STACK]
  /\ allocated' = allocated \ {o}
  /\ \A n \in Node \ {STACK} : o \notin points[n]
  /\ points' = [points EXCEPT ![o] = {}, ![STACK] = @ \ {o}]

Reclaim(D) ==
  /\ allocated' = allocated \ D
  /\ points' = [n \in Node |-> IF n \in D THEN {} ELSE points[n]]

Mutate ==
  \/ \E o \in Obj : New(o) \/ Free(o)
  \/ \E n \in Node, q \in Obj : Store(n, q) \/ Clear(n, q)

HeapNext ==
  Mutate \/ \E D \in SUBSET allocated : Reclaim(D) /\ \A o \in D : o \notin Live

HeapSpec == HeapInit /\ [][HeapNext]_heap
=============================================================================
