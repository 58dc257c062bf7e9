------------------------------- MODULE Sweep -------------------------------
(***************************************************************************)
(* Allocation of small objects and lazy sweeping (libs/gc/reclaim.c,       *)
(* alloc.c, malloc.c, mallocx.c, new_hblk.c, thread_local_alloc.c) in      *)
(* a build with THREAD_LOCAL_ALLOC, no PARALLEL_MARK, no incremental       *)
(* collection; without ATOMIC_UNCOLLECTABLE, which changes PRECISE only.   *)
(*                                                                         *)
(* A collection ends with blocks that are queued and not yet swept: an     *)
(* object is free when it is on a list, or when its mark bit is clear in a *)
(* queued block.  Whoever holds the allocation lock takes one step after   *)
(* another, and the other threads go on between them: they store pointers  *)
(* and allocate from lists of their own.  The world is stopped only inside *)
(* the step Mark, whose mark phase is the subject of Marker.               *)
(***************************************************************************)
EXTENDS Integers, FiniteSets, Sequences, Functions

CONSTANTS
  N, STATIC, STACK, KindOf, MayPoint,   \* as in Collector
  PerBlock,                             \* HBLK_OBJS: the objects of a block
  GC_n_kinds,                           \* 3, or 4 with STUBBORN_ALLOC
  NearlyFull,                           \* 7 * HBLK_OBJS / 8, scaled
  FreeKinds,                            \* bound: the kinds of the objects the program frees
  Thread,
  none                                  \* no thread

VARIABLES
  held,       \* what the program has been given and nobody has taken back
  contents,   \* contents[n]: the pointers in n, stale ones in dead objects too
  used,       \* the blocks that hold objects; the others are on GC_hblkfreelist
  marked,     \* the objects whose mark bit is set
  fl,         \* fl[k]: ok_freelist
  rlist,      \* rlist[k]: ok_reclaim_list
  tl,         \* tl[t][k]: the thread's own free lists
  allocd,     \* GC_bytes_allocd > 0
  pc,         \* what the holder of the allocation lock does
  call        \* its call: thread, function, kind, retry and stop_func

vars == <<held, contents, used, marked, fl, rlist, tl, allocd, pc, call>>

\* Dead objects keep their pointers until they are swept; the program does
\* not see them.
Visible ==
  [n \in DOMAIN contents |-> IF n \in held \cup {STATIC, STACK} THEN contents[n] ELSE {}]

Heap == INSTANCE Collector WITH allocated <- held, points <- Visible

HeapSpec == Heap!HeapSpec

Obj   == Heap!Obj
Kind  == Heap!Kind
Node  == Heap!Node
Block == 1 .. N \div PerBlock

PTRFREE       == Heap!PTRFREE
NORMAL        == Heap!NORMAL
UNCOLLECTABLE == Heap!UNCOLLECTABLE

\* Without ATOMIC_UNCOLLECTABLE, with which it holds of PRECISE too (see Marker).
IS_UNCOLLECTABLE(k) == k = UNCOLLECTABLE

Objs(b) == {o \in Obj : (o - 1) \div PerBlock + 1 = b}

\* bound: the kind a block is used for; GC_allochblk would choose any.
BlockKind(b) == KindOf[(b - 1) * PerBlock + 1]

InHeap == {KindOf[o] : o \in Obj}

\* As in Collector; a local may name any object.
ASSUME SweepAssumption ==
  /\ N \in Nat
  /\ STATIC # STACK /\ {STATIC, STACK} \cap Int = {}
  /\ KindOf \in [Obj -> Kind] /\ MayPoint \in [Node -> SUBSET Obj]
  /\ \A o \in Obj : KindOf[o] = PTRFREE => MayPoint[o] = {}
  /\ MayPoint[STACK] = Obj
  /\ PerBlock \in Nat \ {0} /\ N % PerBlock = 0
  /\ \A b \in Block : \A o \in Objs(b) : KindOf[o] = BlockKind(b)
  /\ NearlyFull \in 1 .. PerBlock
  /\ GC_n_kinds \in {3, 4}
  /\ FreeKinds \subseteq Kind
  /\ none \notin Thread

\* kind = 0; kind < GC_n_kinds: the kinds that a collection loops over.  When
\* they are three PRECISE is not among them.
Counted == {k \in Kind : k < GC_n_kinds}

\* The kinds with thread-local free lists.
Tiny == {PTRFREE, NORMAL}

PC == {"unlocked", "many", "allocobj", "collect", "finish"}

NoCall == [thread |-> none, what |-> "none", kind |-> NORMAL, retry |-> FALSE, stop |-> FALSE]

Init ==
  /\ held = {} /\ contents = [n \in Node |-> {}]
  /\ used = {} /\ marked = {}
  /\ fl = [k \in Kind |-> <<>>]
  /\ rlist = [k \in Kind |-> <<>>]
  /\ tl = [t \in Thread |-> [k \in Tiny |-> <<>>]]
  /\ allocd = FALSE
  /\ pc = "unlocked" /\ call = NoCall

-----------------------------------------------------------------------------
(***************************************************************************)
(* Free lists.                                                             *)
(***************************************************************************)

\* s runs from the highest address down.
Descends(s) == \A i, j \in DOMAIN s : i < j => s[i] > s[j]

\* The members of S, pushed on list from the lowest address up.
Linked(S, list) == (CHOOSE s \in [1 .. Cardinality(S) -> S] : Descends(s)) \o list

\* The list of all objects of a new block.
GC_build_fl(b) == Linked(Objs(b), <<>>)

Garbage(b) == Objs(b) \ marked

\* Mutant: the objects of every kind are left uncleared.
GC_reclaim_generic_Uninit(b) ==
  /\ marked' = IF IS_UNCOLLECTABLE(BlockKind(b)) THEN marked \cup Objs(b) ELSE marked
  /\ UNCHANGED contents

\* Mutant: the mark bits of uncollectable blocks are not set again.
GC_reclaim_generic_NoMarks(b) ==
  /\ contents' = [n \in Node |-> IF n \in Garbage(b) THEN {} ELSE contents[n]]
  /\ UNCHANGED marked

\* GC_reclaim_generic with GC_reclaim_clear or GC_reclaim_uninit (which clears
\* nothing, of objects without pointers).  The list is Linked(Garbage(b), ...).
GC_reclaim_generic(b) ==
  /\ contents' = [n \in Node |-> IF n \in Garbage(b) THEN {} ELSE contents[n]]
  /\ marked' = IF IS_UNCOLLECTABLE(BlockKind(b)) THEN marked \cup Objs(b) ELSE marked

\* GC_reclaim_small_nonempty_block of the first block on the reclaim list.
SweepFirst(k) ==
  /\ rlist[k] # <<>>
  /\ rlist' = [rlist EXCEPT ![k] = Tail(@)]
  /\ fl' = [fl EXCEPT ![k] = Linked(Garbage(Head(rlist[k])), @)]
  /\ GC_reclaim_generic(Head(rlist[k]))

\* GC_allochblk: setup_header clears the mark bits, and those of an
\* uncollectable block are set.
GC_allochblk(b, k) ==
  /\ b \in Block \ used /\ BlockKind(b) = k
  /\ used' = used \cup {b}
  /\ marked' = IF IS_UNCOLLECTABLE(k) THEN marked \cup Objs(b) ELSE marked \ Objs(b)

NoBlock(k) == \A b \in Block : BlockKind(b) = k => b \in used

\* The program gets o as it lies on the list.
Deliver(o) ==
  /\ held' = held \cup {o}
  /\ contents' = [contents EXCEPT ![STACK] = @ \cup {o}]

Unlock == pc' = "unlocked" /\ call' = NoCall

-----------------------------------------------------------------------------
(***************************************************************************)
(* The program.                                                            *)
(***************************************************************************)

\* GC_malloc and GC_malloc_atomic with a nonempty list of the thread: no lock.
LocalMalloc(t, k) ==
  /\ call.thread # t
  /\ tl[t][k] # <<>>
  /\ tl' = [tl EXCEPT ![t][k] = Tail(@)]
  /\ Deliver(Head(tl[t][k]))
  /\ UNCHANGED <<used, marked, fl, rlist, allocd, pc, call>>

\* GC_core_malloc and its likes, the free list is not empty.
CoreMalloc(k) ==
  /\ pc = "unlocked"
  /\ fl[k] # <<>>
  /\ fl' = [fl EXCEPT ![k] = Tail(@)]
  /\ Deliver(Head(fl[k]))
  /\ allocd' = TRUE
  /\ UNCHANGED <<used, marked, rlist, tl, pc, call>>

\* GC_generic_malloc with an empty free list, GC_generic_malloc_many.
Malloc(t, k, what) ==
  /\ pc = "unlocked"
  /\ \/ what = "many" /\ k \in Tiny /\ tl[t][k] = <<>> /\ pc' = "many"
     \/ what = "malloc" /\ fl[k] = <<>> /\ pc' = "allocobj"
  /\ call' = [NoCall EXCEPT !.thread = t, !.what = what, !.kind = k]
  /\ UNCHANGED <<held, contents, used, marked, fl, rlist, tl, allocd>>

\* GC_gcollect, GC_try_to_collect.
Gcollect(t, stop) ==
  /\ pc = "unlocked"
  /\ pc' = "collect"
  /\ call' = [NoCall EXCEPT !.thread = t, !.what = "gcollect", !.stop = stop]
  /\ UNCHANGED <<held, contents, used, marked, fl, rlist, tl, allocd>>

\* GC_free; the mark bit stays as it is.
Free(o) ==
  /\ pc = "unlocked"
  /\ o \in held \cap contents[STACK] /\ KindOf[o] \in FreeKinds
  /\ \A n \in Node \ {STACK} : o \notin Visible[n]
  /\ held' = held \ {o}
  /\ contents' = [contents EXCEPT ![o] = {}, ![STACK] = @ \ {o}]
  /\ fl' = [fl EXCEPT ![KindOf[o]] = <<o>> \o @]
  /\ UNCHANGED <<used, marked, rlist, tl, allocd, pc, call>>

\* GC_destroy_thread_local when t ends; t also stands for the thread after it.
Exit(t) ==
  /\ pc = "unlocked"
  /\ \E k \in Tiny : tl[t][k] # <<>>
  /\ fl' = [k \in Kind |-> IF k \in Tiny THEN tl[t][k] \o fl[k] ELSE fl[k]]
  /\ tl' = [tl EXCEPT ![t] = [k \in Tiny |-> <<>>]]
  /\ UNCHANGED <<held, contents, used, marked, rlist, allocd, pc, call>>

\* A thread stores a pointer to q or overwrites one, whoever holds the lock.
Mutate(n, q) ==
  /\ q \in MayPoint[n]
  /\ contents' = [contents EXCEPT ![n] = IF q \in @ THEN @ \ {q} ELSE @ \cup {q}]
  /\ UNCHANGED <<held, used, marked, fl, rlist, tl, allocd, pc, call>>

-----------------------------------------------------------------------------
(***************************************************************************)
(* GC_generic_malloc_many: a block from the reclaim list, or a block's     *)
(* worth of the free list, or a new block, or one object of GC_allocobj.   *)
(***************************************************************************)

ManySweeps ==
  LET k == call.kind  b == Head(rlist[k])  list == Linked(Garbage(b), <<>>) IN
  /\ pc = "many" /\ rlist[k] # <<>>
  /\ rlist' = [rlist EXCEPT ![k] = Tail(@)]
  /\ GC_reclaim_generic(b)
  /\ IF list = <<>> THEN UNCHANGED <<tl, allocd, pc, call>>
     ELSE tl' = [tl EXCEPT ![call.thread][k] = list] /\ allocd' = TRUE /\ Unlock
  /\ UNCHANGED <<held, used, fl>>

ManyPrefix ==
  LET k == call.kind  n == IF Len(fl[k]) < PerBlock THEN Len(fl[k]) ELSE PerBlock IN
  /\ pc = "many" /\ rlist[k] = <<>> /\ fl[k] # <<>>
  /\ tl' = [tl EXCEPT ![call.thread][k] = SubSeq(fl[k], 1, n)]
  /\ fl' = [fl EXCEPT ![k] = SubSeq(@, n + 1, Len(@))]
  /\ allocd' = TRUE
  /\ Unlock
  /\ UNCHANGED <<held, contents, used, marked, rlist>>

ManyNewBlock ==
  LET k == call.kind IN
  /\ pc = "many" /\ rlist[k] = <<>> /\ fl[k] = <<>>
  /\ \/ \E b \in Block :
          /\ GC_allochblk(b, k)
          /\ tl' = [tl EXCEPT ![call.thread][k] = GC_build_fl(b)]
          /\ allocd' = TRUE
          /\ Unlock
     \/ /\ NoBlock(k)
        /\ pc' = "allocobj"
        /\ UNCHANGED <<used, marked, tl, allocd, call>>
  /\ UNCHANGED <<held, contents, fl, rlist>>

(***************************************************************************)
(* GC_allocobj: GC_continue_reclaim, GC_new_hblk, GC_collect_or_expand     *)
(* until the free list is not empty.                                       *)
(***************************************************************************)

TakeObj ==
  LET k == call.kind IN
  /\ pc = "allocobj" /\ fl[k] # <<>>
  /\ fl' = [fl EXCEPT ![k] = Tail(@)]
  /\ IF call.what = "many"
     THEN tl' = [tl EXCEPT ![call.thread][k] = <<Head(fl[k])>>] /\ UNCHANGED <<held, contents>>
     ELSE Deliver(Head(fl[k])) /\ UNCHANGED tl
  /\ allocd' = TRUE
  /\ Unlock
  /\ UNCHANGED <<used, marked, rlist>>

GC_continue_reclaim ==
  /\ pc = "allocobj" /\ fl[call.kind] = <<>>
  /\ SweepFirst(call.kind)
  /\ UNCHANGED <<held, used, tl, allocd, pc, call>>

GC_new_hblk ==
  LET k == call.kind IN
  /\ pc = "allocobj" /\ fl[k] = <<>> /\ rlist[k] = <<>>
  /\ \E b \in Block : GC_allochblk(b, k) /\ fl' = [fl EXCEPT ![k] = GC_build_fl(b)]
  /\ UNCHANGED <<held, contents, rlist, tl, allocd, pc, call>>

\* Mutant: collects although nothing was allocated since the last collection.
GC_collect_or_expand_Always ==
  /\ pc = "allocobj" /\ fl[call.kind] = <<>> /\ rlist[call.kind] = <<>> /\ NoBlock(call.kind)
  /\ \/ /\ pc' = "collect"
        /\ \E stop \in BOOLEAN : call' = [call EXCEPT !.stop = stop]
     \/ Unlock
  /\ UNCHANGED <<held, contents, used, marked, fl, rlist, tl, allocd>>

\* Nothing was allocated since the last collection: GC_should_collect is
\* false.  The heap has its full size (bound N), so expanding it fails, and
\* GC_max_retries is 0.
GC_collect_or_expand ==
  /\ pc = "allocobj" /\ fl[call.kind] = <<>> /\ rlist[call.kind] = <<>> /\ NoBlock(call.kind)
  /\ \/ /\ allocd
        /\ pc' = "collect"
        /\ \E stop \in BOOLEAN : call' = [call EXCEPT !.stop = stop]
     \/ Unlock
  /\ UNCHANGED <<held, contents, used, marked, fl, rlist, tl, allocd>>

-----------------------------------------------------------------------------
(***************************************************************************)
(* GC_try_to_collect_inner.                                                *)
(***************************************************************************)

\* Back to the program, or to GC_allocobj, or again without a stop_func when
\* the second attempt was stopped and the heap cannot grow.
CollectReturns(done) ==
  \/ call.what = "gcollect" /\ Unlock
  \/ /\ call.what # "gcollect" /\ (done \/ ~call.retry)
     /\ pc' = "allocobj" /\ call' = [call EXCEPT !.retry = TRUE, !.stop = FALSE]
  \/ /\ call.what # "gcollect" /\ ~done /\ call.retry
     /\ pc' = "collect" /\ call' = [call EXCEPT !.stop = FALSE]

\* stop_func says so, before the collection or between two blocks.
Stopped ==
  /\ pc = "collect" /\ call.stop
  /\ CollectReturns(FALSE)
  /\ UNCHANGED <<held, contents, used, marked, fl, rlist, tl, allocd>>

\* Mutant: the reclaim lists are left for later.
Swept_Lazily == TRUE

\* A collection that may be stopped begins when all blocks have been swept.
Swept == call.stop => \A k \in Counted : rlist[k] = <<>>

\* GC_reclaim_all, kind by kind.
GC_reclaim_all ==
  /\ pc = "collect" /\ ~Swept
  /\ \E k \in Counted : (\A j \in Counted : j < k => rlist[j] = <<>>) /\ SweepFirst(k)
  /\ UNCHANGED <<held, used, tl, allocd, pc, call>>

\* The free lists: those of the process, of every kind, and of the threads.
Place == ({none} \X Kind) \cup (Thread \X Tiny)

List(p) == IF p[1] = none THEN fl[p[2]] ELSE tl[p[1]][p[2]]

Lists == {List(p) : p \in Place}

LocalLists == UNION {Range(tl[t][k]) : t \in Thread, k \in Tiny}

\* What the marker finds in o: pointers, stale or not, to blocks in use, and
\* the link of an object on a free list.
Fields(o) ==
  IF KindOf[o] = PTRFREE THEN {}
  ELSE {q \in contents[o] : \E b \in used : q \in Objs(b)}
         \cup UNION {{s[i + 1] : i \in {j \in 1 .. Len(s) - 1 : s[j] = o}} : s \in Lists}

\* Uncollectable objects keep their marks.
Kept == {o \in marked : IS_UNCOLLECTABLE(KindOf[o])}

\* One round from the roots, from what is kept and from a word that is no
\* pointer (bound: at most one, J).
FirstRound(J) ==
  Kept \cup contents[STATIC] \cup contents[STACK] \cup J \cup UNION {Fields(o) : o \in Kept}

Followed(S) == \A o \in S : Fields(o) \subseteq S

\* All rounds: the least set that follows the pointers from there.
Traced(J) ==
  LET R == FirstRound(J) IN
  R \cup {o \in Obj \ R : \A T \in SUBSET (Obj \ R) : Followed(R \cup T) => o \in T}

\* Mutant: the free lists of the threads are left to the marker.
GC_mark_thread_local_free_lists_None == {}

\* GC_mark_thread_local_free_lists with GC_set_fl_marks.
GC_mark_thread_local_free_lists == LocalLists

\* GC_clear_marks and GC_stopped_mark, which may be abandoned (bound: after
\* the first round).  stop_func is not asked again once the phase is over.
Mark ==
  /\ pc = "collect" /\ Swept
  /\ \E J \in {{}} \cup {{o} : o \in UNION {Objs(b) : b \in used}} :
       \/ /\ marked' = Traced(J) \cup GC_mark_thread_local_free_lists
          /\ pc' = "finish"
          /\ call' = [call EXCEPT !.stop = FALSE]
       \/ /\ call.stop
          /\ marked' = FirstRound(J)
          /\ CollectReturns(FALSE)
  /\ UNCHANGED <<held, contents, used, fl, rlist, tl, allocd>>

\* Mutant: the mark bits of free objects are left.
Clean_Marked == marked

\* GC_clear_fl_marks of the free lists.
Clean == marked \ UNION {Range(fl[k]) : k \in Counted}

GC_block_empty(b) == Objs(b) \cap Clean = {}

GC_block_nearly_full(b) == Cardinality(Objs(b) \cap Clean) > NearlyFull

\* GC_reclaim_block puts these on the reclaim list of kind k.
Enqueued(k) ==
  {b \in used : BlockKind(b) = k /\ ~GC_block_empty(b) /\ ~GC_block_nearly_full(b)}

\* The lists are dropped, and each block, of whatever kind, is freed, queued or
\* left alone.  Where the queue was not dropped, blocks go before those that wait
\* (one that waits twice makes a cycle of their links, which no list here shows).
GC_start_reclaim ==
  LET empty == {b \in used : GC_block_empty(b)} IN
  /\ fl' = [k \in Kind |-> IF k \in Counted THEN <<>> ELSE fl[k]]
  /\ rlist' = [k \in Kind |-> Linked(Enqueued(k), IF k \in Counted THEN <<>> ELSE rlist[k])]
  /\ used' = used \ empty
  /\ contents' = [n \in Node |-> IF \E b \in empty : n \in Objs(b) THEN {} ELSE contents[n]]

\* GC_finish_collection: the world runs already.
Finish ==
  /\ pc = "finish"
  /\ marked' = Clean
  /\ GC_start_reclaim
  /\ held' = held \cap Clean
  /\ allocd' = FALSE
  /\ CollectReturns(TRUE)
  /\ UNCHANGED tl

-----------------------------------------------------------------------------
Program ==
  \/ \E t \in Thread, k \in Tiny : LocalMalloc(t, k)
  \/ \E k \in InHeap : CoreMalloc(k)
  \/ \E t \in Thread, k \in InHeap, what \in {"malloc", "many"} : Malloc(t, k, what)
  \/ \E t \in Thread, stop \in BOOLEAN : Gcollect(t, stop)
  \/ \E o \in Obj : Free(o)
  \/ \E t \in Thread : Exit(t)
  \/ LET live == Heap!Live IN \E n \in live \cup {STATIC, STACK}, q \in live : Mutate(n, q)

\* The thread that holds the allocation lock.
Holder ==
  \/ ManySweeps \/ ManyPrefix \/ ManyNewBlock
  \/ TakeObj \/ GC_continue_reclaim \/ GC_new_hblk \/ GC_collect_or_expand
  \/ Stopped \/ GC_reclaim_all \/ Mark \/ Finish

Next == Program \/ Holder

Spec == Init /\ [][Next]_vars

FairSpec == Spec /\ WF_vars(Holder)

-----------------------------------------------------------------------------
TypeOK ==
  /\ held \subseteq Obj
  /\ contents \in [Node -> SUBSET Obj]
  /\ used \subseteq Block
  /\ marked \subseteq Obj
  /\ DOMAIN fl = Kind /\ DOMAIN rlist = Kind
  /\ \A k \in Kind :
       /\ fl[k] \in Seq({o \in Obj : KindOf[o] = k})
       /\ rlist[k] \in Seq({b \in Block : BlockKind(b) = k})
  /\ DOMAIN tl = Thread
  /\ \A t \in Thread :
       DOMAIN tl[t] = Tiny /\ \A k \in Tiny : tl[t][k] \in Seq({o \in Obj : KindOf[o] = k})
  /\ allocd \in BOOLEAN
  /\ pc \in PC
  /\ call \in [thread : Thread \cup {none}, what : {"none", "malloc", "many", "gcollect"},
               kind : Kind, retry : BOOLEAN, stop : BOOLEAN]

OnList == UNION {Range(s) : s \in Lists}

InUse == UNION {Objs(b) : b \in used}

\* An object is on one list at most and there once, in a block that is in
\* use, and the program does not have it.
OneOwner ==
  /\ \A p \in Place : IsInjective(List(p))
  /\ \A p, q \in Place : p # q => Range(List(p)) \cap Range(List(q)) = {}
  /\ OnList \cap held = {}
  /\ OnList \cup held \subseteq InUse

\* A block that waits to be swept has the mark bit of every object that the
\* program has or that is on a list already ("Make sure all blocks have been
\* reclaimed, so sweep routines don't see cleared mark bits"), except when
\* GC_start_reclaim is about to drop the queue.
SweepSafe ==
  pc # "finish" => \A k \in Kind : \A b \in Range(rlist[k]) :
    b \in used /\ Objs(b) \cap (held \cup OnList) \subseteq marked

\* GC_malloc_uncollectable: the mark bit is set already on the free list, and
\* stays set while the program has the object.
UncollectableMarked ==
  \A o \in held \cup OnList : KindOf[o] = UNCOLLECTABLE => o \in marked

\* An object on a free list that a stale word marks by accident is free after
\* the collection all the same: it leaves the list with its bit clear, or for
\* the program or a thread.
FreeStaysFree ==
  [][\A o \in UNION {Range(fl[k]) : k \in Kind} :
       o \in (UNION {Range(fl[k]) : k \in Kind})' \cup held' \cup LocalLists' \/ o \notin marked']_vars

\* Who holds the allocation lock gives it back, out of memory or not.
Returns == pc # "unlocked" ~> pc = "unlocked"

-----------------------------------------------------------------------------
(***************************************************************************)
(* The inductive invariant of the proofs.                                  *)
(***************************************************************************)

\* The program's pointers are to objects it has.
NoDangling == \A n \in held \cup {STATIC, STACK} : contents[n] \subseteq held

\* What is handed out next holds no pointer, nor does an object without a
\* place for one.
Cleared ==
  \A o \in Obj : o \in OnList \/ o \notin InUse \/ KindOf[o] = PTRFREE => contents[o] = {}

\* A block waits once.
QueuedOnce == \A k \in Kind : IsInjective(rlist[k])

\* Between the mark phase and its end: the program may go on with what is
\* reachable and with its own lists, and all that is marked.
MarksClosed ==
  pc = "finish" =>
    /\ LocalLists \subseteq marked
    /\ contents[STATIC] \cup contents[STACK] \subseteq marked
    /\ \A o \in held \cap marked : contents[o] \subseteq marked

CallOK ==
  /\ pc # "unlocked" => call.thread \in Thread
  /\ pc = "many" => call.what = "many"
  /\ call.what = "many" => call.kind \in Tiny

IInv ==
  /\ TypeOK /\ OneOwner /\ SweepSafe /\ UncollectableMarked
  /\ NoDangling /\ Cleared /\ QueuedOnce /\ MarksClosed /\ CallOK
=============================================================================
