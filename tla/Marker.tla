------------------------------- MODULE Marker -------------------------------
(***************************************************************************)
(* The stop-the-world mark phase of the collector with the kind PRECISE    *)
(* that Ironclad adds (libs/gc/mark.c, alloc.c, gc_pmark.h, gc_priv.h):    *)
(* GC_try_to_collect_inner without GC_incremental and PARALLEL_MARK, so    *)
(* the state MS_PUSH_RESCUERS does not occur.                              *)
(*                                                                         *)
(* A heap block holds one object, and block addresses are 1 .. N.  The     *)
(* order of the pointers inside an object is left open, and so is how many *)
(* mark stack entries the credit of one GC_mark_from pays for.             *)
(***************************************************************************)
EXTENDS Collector, Sequences

CONSTANTS
  ATOMIC_UNCOLLECTABLE,   \* the build option, on unless configured off
  InitialSize,            \* INITIAL_MARK_STACK_SIZE, scaled
  MaxSize,                \* bound: GC_scratch_alloc fails beyond it
  Discards,               \* GC_MARK_STACK_DISCARDS, scaled
  AtLimit                 \* what may begin where GC_scratch_alloc's memory ends:
                          \* blocks of the heap, or none of them (0)

ASSUME MarkerAssumption ==
  /\ ATOMIC_UNCOLLECTABLE \in BOOLEAN
  /\ InitialSize \in Nat \ {0}
  /\ MaxSize \in Nat
  /\ Discards \in 1 .. InitialSize
  /\ AtLimit \subseteq 0 .. N

VARIABLES
  marked,               \* the objects whose mark bit is set
  mstack,               \* GC_mark_stack up to GC_mark_stack_top
  msize,                \* GC_mark_stack_size
  mslimit,              \* the block that begins at GC_mark_stack_limit, 0 if none does
  too_small,            \* GC_mark_stack_too_small
  mstate,               \* GC_mark_state
  scan_ptr,             \* the next block to look at, 0 before and after a scan
  objects_are_marked,   \* GC_objects_are_marked
  pc,                   \* what runs: the program or a function of the collector
  todo                  \* pointers of the entry, or of the stack, not yet considered

marker == <<marked, mstack, msize, mslimit, too_small, mstate, scan_ptr,
            objects_are_marked, pc, todo>>
vars == <<heap, marker>>

MarkState == {"MS_NONE", "MS_PUSH_UNCOLLECTABLE", "MS_ROOTS_PUSHED",
              "MS_PARTIALLY_INVALID", "MS_INVALID"}

PC == {"program", "mark_some", "mark_from", "push_roots", "finish", "ABORT"}

\* (k & ~1) == UNCOLLECTABLE, or k == UNCOLLECTABLE
IS_UNCOLLECTABLE(k) ==
  IF ATOMIC_UNCOLLECTABLE THEN (k \div 2) * 2 = UNCOLLECTABLE ELSE k = UNCOLLECTABLE

GC_mark_stack_empty == mstack = <<>>

Stacked == {mstack[i] : i \in 1 .. Len(mstack)}

-----------------------------------------------------------------------------
Init ==
  /\ HeapInit
  /\ marked = {}
  /\ mstack = <<>> /\ msize = InitialSize /\ mslimit \in AtLimit /\ too_small = FALSE
  /\ mstate = "MS_NONE" /\ scan_ptr = 0 /\ objects_are_marked = FALSE
  /\ pc = "program" /\ todo = {}

(***************************************************************************)
(* The mark stack.                                                         *)
(***************************************************************************)

\* Mutant: the overflow is not signalled.
PUSH_OBJ_Silent(o) ==
  \/ /\ KindOf[o] = PTRFREE
     /\ UNCHANGED <<mstack, mstate, too_small>>
  \/ /\ KindOf[o] # PTRFREE
     /\ mstack' = IF Len(mstack) < msize THEN Append(mstack, o)
                  ELSE Append(SubSeq(mstack, 1, msize - Discards), o)
     /\ UNCHANGED <<mstate, too_small>>

\* Mutant: the overflow discards no entries.
PUSH_OBJ_Unbounded(o) ==
  \/ /\ KindOf[o] = PTRFREE
     /\ UNCHANGED <<mstack, mstate, too_small>>
  \/ /\ KindOf[o] # PTRFREE
     /\ mstack' = Append(mstack, o)
     /\ UNCHANGED <<mstate, too_small>>

\* PUSH_OBJ, with GC_signal_mark_stack_overflow.
PUSH_OBJ(o) ==
  \/ /\ KindOf[o] = PTRFREE
     /\ UNCHANGED <<mstack, mstate, too_small>>
  \/ /\ KindOf[o] # PTRFREE
     /\ Len(mstack) < msize
     /\ mstack' = Append(mstack, o)
     /\ UNCHANGED <<mstate, too_small>>
  \/ /\ KindOf[o] # PTRFREE
     /\ Len(mstack) >= msize
     /\ mstate' = "MS_INVALID"
     /\ too_small' = TRUE
     /\ mstack' = Append(SubSeq(mstack, 1, msize - Discards), o)

\* PUSH_CONTENTS and GC_mark_and_push: a pointer to a free block or to a
\* marked object is passed over.
PUSH_CONTENTS(q) ==
  \/ /\ q \in allocated \ marked
     /\ marked' = marked \cup {q}
     /\ PUSH_OBJ(q)
  \/ /\ q \notin allocated \ marked
     /\ UNCHANGED <<marked, mstack, mstate, too_small>>

\* if (GC_mark_stack_too_small) alloc_mark_stack(2*GC_mark_stack_size); it may
\* silently fail, and elsewhere in memory something else follows the stack.
alloc_mark_stack ==
  /\ too_small' = FALSE
  /\ \/ UNCHANGED <<msize, mslimit>>
     \/ /\ too_small
        /\ msize' \in {2 * msize} \cap 1 .. MaxSize
        /\ mslimit' \in AtLimit

\* GC_push_roots: the static segments as one entry, then the stack eagerly.
GC_push_roots ==
  /\ IF Len(mstack) >= msize
     THEN pc' = "ABORT" /\ UNCHANGED mstack
     ELSE pc' = "push_roots" /\ mstack' = Append(mstack, STATIC)
  /\ todo' = points[STACK]

(***************************************************************************)
(* GC_mark_from takes an entry and considers its pointers one by one: for  *)
(* a PRECISE object the virtual mark() does, through ironclad_mark_address *)
(* and ironclad_precise_mark.                                              *)
(***************************************************************************)

\* Mutant: the test is made of the entries of every kind.
PassedOver_AnyKind(e) == e = mslimit

\* current_p == (void*)mark_stack_limit: a PRECISE object that begins where the
\* mark stack ends is popped, and its pointers are not considered.
PassedOver(e) == e = mslimit /\ KindOf[e] = PRECISE

TakeEntry ==
  /\ ~GC_mark_stack_empty
  /\ LET e == mstack[Len(mstack)]
     IN  todo' = IF PassedOver(e) THEN {} ELSE points[e]
  /\ mstack' = SubSeq(mstack, 1, Len(mstack) - 1)
  /\ objects_are_marked' = TRUE
  /\ pc' = "mark_from"
  /\ UNCHANGED <<heap, marked, msize, mslimit, too_small, mstate, scan_ptr>>

ConsiderPointer ==
  /\ pc \in {"mark_from", "push_roots"}
  /\ \E q \in todo : PUSH_CONTENTS(q) /\ todo' = todo \ {q}
  /\ UNCHANGED <<heap, msize, mslimit, scan_ptr, objects_are_marked, pc>>

NextEntry == pc = "mark_from" /\ todo = {} /\ TakeEntry

\* The credit is used up, or the stack is empty.
MarkFromReturns ==
  /\ pc = "mark_from" /\ todo = {}
  /\ pc' = "mark_some"
  /\ UNCHANGED <<heap, marked, mstack, msize, mslimit, too_small, mstate, scan_ptr,
                 objects_are_marked, todo>>

RootsPushed ==
  /\ pc = "push_roots" /\ todo = {}
  /\ objects_are_marked' = TRUE
  /\ mstate' = IF mstate = "MS_INVALID" THEN mstate ELSE "MS_ROOTS_PUSHED"
  /\ pc' = "mark_some"
  /\ UNCHANGED <<heap, marked, mstack, msize, mslimit, too_small, scan_ptr, todo>>

-----------------------------------------------------------------------------
(***************************************************************************)
(* GC_mark_some, one action for each way through its switch.               *)
(***************************************************************************)

\* The blocks from scan_ptr on that are in use.
Above == {o \in allocated : o >= scan_ptr}

First(S, o) == o \in S /\ \A p \in S : o <= p

\* GC_push_marked of the block o.
GC_push_marked(o) ==
  /\ IF o \in marked THEN PUSH_OBJ(o) ELSE UNCHANGED <<mstack, mstate, too_small>>
  /\ scan_ptr' = o + 1
  /\ objects_are_marked' = (objects_are_marked \/ (o \in marked /\ KindOf[o] # PTRFREE))

\* Mutant: > where the code has >=.
NearlyFull_Late == Len(mstack) - 1 > msize \div 4

\* GC_mark_stack_top >= GC_mark_stack + GC_mark_stack_size/4
NearlyFull == Len(mstack) - 1 >= msize \div 4

PushUncollectable ==
  /\ pc = "mark_some" /\ mstate = "MS_PUSH_UNCOLLECTABLE"
  /\ \/ /\ NearlyFull
        /\ TakeEntry
     \/ /\ ~NearlyFull
        /\ \E o \in Obj :
             /\ First({p \in Above : KindOf[p] = UNCOLLECTABLE}, o)
             /\ GC_push_marked(o)
        /\ UNCHANGED <<heap, marked, msize, mslimit, pc, todo>>
     \/ /\ ~NearlyFull
        /\ \A p \in Above : KindOf[p] # UNCOLLECTABLE
        /\ scan_ptr' = 0
        /\ GC_push_roots
        /\ UNCHANGED <<heap, marked, msize, mslimit, too_small, mstate, objects_are_marked>>

DrainRoots ==
  /\ pc = "mark_some" /\ mstate = "MS_ROOTS_PUSHED"
  /\ \/ TakeEntry
     \/ /\ GC_mark_stack_empty
        /\ mstate' = "MS_NONE"
        /\ alloc_mark_stack
        /\ pc' = "finish"
        /\ UNCHANGED <<heap, marked, mstack, scan_ptr, objects_are_marked, todo>>

FirstPass ==
  /\ pc = "mark_some" /\ mstate \in {"MS_INVALID", "MS_PARTIALLY_INVALID"}
  /\ ~objects_are_marked
  /\ mstate' = "MS_PUSH_UNCOLLECTABLE"
  /\ UNCHANGED <<heap, marked, mstack, msize, mslimit, too_small, scan_ptr,
                 objects_are_marked, pc, todo>>

\* Mutant: the state stays MS_INVALID.
ScanState_Kept == mstate

\* A scan that starts at the bottom in MS_INVALID will repair everything.
ScanState ==
  IF scan_ptr = 0 /\ mstate = "MS_INVALID" THEN "MS_PARTIALLY_INVALID" ELSE mstate

\* After an overflow: drain the stack, then scan the heap for marked objects.
RescanDrains ==
  /\ pc = "mark_some" /\ mstate \in {"MS_INVALID", "MS_PARTIALLY_INVALID"}
  /\ objects_are_marked
  /\ TakeEntry

Rescan ==
  /\ pc = "mark_some" /\ mstate \in {"MS_INVALID", "MS_PARTIALLY_INVALID"}
  /\ objects_are_marked
  /\ GC_mark_stack_empty
  /\ mstate' = ScanState
  /\ IF scan_ptr = 0 /\ mstate = "MS_INVALID" THEN alloc_mark_stack
     ELSE UNCHANGED <<msize, mslimit, too_small>>
  /\ \/ \E o \in Obj :
          /\ First(Above, o)
          /\ mstack' = IF o \in marked /\ KindOf[o] # PTRFREE THEN <<o>> ELSE <<>>
          /\ scan_ptr' = o + 1
          /\ UNCHANGED <<pc, todo>>
     \/ /\ Above = {}
        /\ scan_ptr' = 0
        /\ IF ScanState = "MS_PARTIALLY_INVALID" THEN GC_push_roots
           ELSE UNCHANGED <<mstack, pc, todo>>
  /\ UNCHANGED <<heap, marked, objects_are_marked>>

GC_mark_some ==
  PushUncollectable \/ DrainRoots \/ FirstPass \/ RescanDrains \/ Rescan

-----------------------------------------------------------------------------
(***************************************************************************)
(* Collections.                                                            *)
(***************************************************************************)

\* Mutant: the mark bits of pointer-free blocks are not cleared.
Collect_PtrFree ==
  /\ pc = "program"
  /\ marked' = {o \in marked : IS_UNCOLLECTABLE(KindOf[o]) \/ KindOf[o] = PTRFREE}
  /\ mstack' = <<>>
  /\ objects_are_marked' = FALSE
  /\ mstate' = "MS_INVALID"
  /\ scan_ptr' = 0
  /\ pc' = "mark_some"
  /\ UNCHANGED <<heap, msize, mslimit, too_small, todo>>

\* GC_try_to_collect_inner: GC_invalidate_mark_state, GC_clear_marks, and
\* GC_initiate_gc of GC_stopped_mark.
Collect ==
  /\ pc = "program"
  /\ marked' = {o \in marked : IS_UNCOLLECTABLE(KindOf[o])}
  /\ mstack' = <<>>
  /\ objects_are_marked' = FALSE
  /\ mstate' = "MS_INVALID"
  /\ scan_ptr' = 0
  /\ pc' = "mark_some"
  /\ UNCHANGED <<heap, msize, mslimit, too_small, todo>>

\* stop_func says so: GC_stopped_mark gives up, GC_invalidate_mark_state.
Abandon ==
  /\ pc = "mark_some"
  /\ mstate' = "MS_INVALID"
  /\ mstack' = <<>>
  /\ pc' = "program"
  /\ UNCHANGED <<heap, marked, msize, mslimit, too_small, scan_ptr, objects_are_marked, todo>>

\* Mutant: the mark bits of pointer-free objects are not looked at.
Finish_Composite ==
  /\ pc = "finish"
  /\ Reclaim({o \in allocated : o \notin marked \/ KindOf[o] = PTRFREE})
  /\ pc' = "program"
  /\ UNCHANGED <<marked, mstack, msize, mslimit, too_small, mstate, scan_ptr,
                 objects_are_marked, todo>>

\* GC_finish_collection: everything that is not marked is free.
Finish ==
  /\ pc = "finish"
  /\ Reclaim(allocated \ marked)
  /\ pc' = "program"
  /\ UNCHANGED <<marked, mstack, msize, mslimit, too_small, mstate, scan_ptr,
                 objects_are_marked, todo>>

\* The marks of an object that is allocated: a new small block of an
\* uncollectable kind has all its bits set, GC_malloc_uncollectable sets its
\* own, every other object starts without.
Malloc(o) ==
  /\ New(o)
  /\ marked' \in
       {IF KindOf[o] = UNCOLLECTABLE THEN marked \cup {o} ELSE marked}
         \cup (IF IS_UNCOLLECTABLE(KindOf[o]) THEN {marked \cup {o}} ELSE {})
  /\ UNCHANGED <<mstack, msize, mslimit, too_small, mstate, scan_ptr, objects_are_marked,
                 pc, todo>>

Program ==
  /\ pc = "program"
  /\ \/ \E o \in Obj : Malloc(o)
     \/ /\ \E n \in Node, q \in Obj : Store(n, q) \/ Clear(n, q)
        /\ UNCHANGED marker

Mark == GC_mark_some \/ ConsiderPointer \/ NextEntry \/ MarkFromReturns \/ RootsPushed

Next == Program \/ Collect \/ Mark \/ Abandon \/ Finish

Spec == Init /\ [][Next]_vars

\* The thread that collects is never stopped for ever: it holds the lock and
\* the world is stopped.
FairSpec == Spec /\ WF_vars(Mark \/ Finish)

-----------------------------------------------------------------------------
TypeOK ==
  /\ allocated \subseteq Obj
  /\ points \in [Node -> SUBSET Obj]
  /\ marked \subseteq Obj
  /\ mstack \in Seq(Obj \cup {STATIC})
  /\ Len(mstack) <= msize
  /\ msize \in Nat \ {0}
  /\ mslimit \in AtLimit
  /\ too_small \in BOOLEAN
  /\ mstate \in MarkState
  /\ scan_ptr \in 0 .. N + 1
  /\ objects_are_marked \in BOOLEAN
  /\ pc \in PC
  /\ todo \subseteq Obj

\* n points to objects that are marked, or that a pointer in a range on the
\* mark stack names, or that are about to be considered.
Covered(n) ==
  \/ n \in Stacked
  \/ points[n] \subseteq marked \cup todo \cup UNION {points[e] : e \in Stacked}

AllCovered == \A n \in marked \cup Roots : Covered(n)

\* What the comments of gc_pmark.h (455-482) say of each mark state.
InvariantI ==
  /\ mstate = "MS_PUSH_UNCOLLECTABLE" =>
       \A o \in marked :
         Covered(o) \/ (KindOf[o] = UNCOLLECTABLE /\ o >= scan_ptr)
  /\ mstate = "MS_PARTIALLY_INVALID" =>
       \A o \in marked : o < scan_ptr => Covered(o)
  /\ mstate = "MS_ROOTS_PUSHED" \/ pc = "finish" => AllCovered

(***************************************************************************)
(* The strengthening of InvariantI that MarkerProofs needs: no pointer     *)
(* dangles, the marks that survive a collection are those of uncollectable *)
(* objects, and what holds between two parts of a function.                *)
(***************************************************************************)
NoDangling ==
  /\ \A n \in Node : points[n] \subseteq MayPoint[n] \cap allocated
  /\ \A o \in Obj \ allocated : points[o] = {}
  /\ todo \subseteq allocated

MarksKept ==
  /\ marked \subseteq allocated
  /\ {o \in allocated : KindOf[o] = UNCOLLECTABLE} \subseteq marked
  /\ msize >= InitialSize

Phases ==
  /\ pc = "program" => mstate \in {"MS_NONE", "MS_INVALID"}
  /\ pc \notin {"mark_from", "push_roots"} => todo = {}
  /\ pc = "finish" => mstack = <<>> /\ mstate = "MS_NONE"
  /\ pc = "push_roots" /\ mstate # "MS_INVALID" => AllCovered
  /\ pc = "mark_from" => objects_are_marked
  /\ pc = "mark_some" /\ ~objects_are_marked /\ mstate # "MS_PUSH_UNCOLLECTABLE" =>
       scan_ptr = 0 /\ \A o \in marked : KindOf[o] = UNCOLLECTABLE

IInv == TypeOK /\ NoDangling /\ MarksKept /\ Phases /\ InvariantI /\ pc # "ABORT"

\* And for OnlyLiveMarked: only what is reachable is marked, on the stack or
\* about to be considered.
LiveOnly ==
  pc # "program" =>
    marked \subseteq Live /\ todo \subseteq Live /\ Stacked \subseteq Live \cup {STATIC}

\* When GC_mark_some reports the end of a mark phase, every object the program
\* can reach is marked, overflows and abandoned phases before it included.
LiveMarked == pc = "finish" => Live \subseteq marked

\* And nothing else is: what the program dropped before the collection began
\* is taken back by it.
OnlyLiveMarked == pc = "finish" => marked \subseteq Live

\* GC_push_all never meets a full stack ("Unexpected mark stack overflow").
RootsFit == pc # "ABORT"

\* A collection that began ends, whatever overflows and however often the
\* mark stack cannot be enlarged.
Terminates == pc # "program" ~> pc = "program"
=============================================================================
