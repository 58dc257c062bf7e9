# A TLA+ model of Ironclad C++

Ironclad C++ is a library of smart pointers that makes a subset of C++ type
safe, a validator that checks that a program stays in the subset, a refactoring
tool that rewrites C programs into it, and a Boehm collector extended with a
precise object kind.  This directory models the parts with control worth
checking, model-checks them with TLC and proves the most important results with
TLAPS.  Paths below are relative to the repository.

## 1. Inventory

| component | state it keeps | operations | what makes it correct |
|---|---|---|---|
| `lptr`, `ptr` (`include/ironclad/lptr.hpp`, `ptr.hpp`, `stack.hpp`) | an address and, for `lptr`, the word `tb`: stack pointer at construction with a flag in the low bit | constructors, checked `operator=`, `can_accept`, conversions between the two, `free`, dereference | no pointer outlives the object it names; the flag tells stack from other addresses; a check refuses exactly the addresses of younger frames |
| `aptr`, `laptr`, `array`, `global_array`, `matrix`, `varray` | base address, index, size (and `tb` for `laptr`) | arithmetic, bounds-checked access, conversions, `free`, `spatialCheck` | an access that passes its check is inside a live object |
| casts, `safe_mem`, `safe_string`, `safe_io`, `util` | sizes derived from other sizes; `strtok`'s static pointer; a `FILE*` | cast, zero/fill/copy, `str*`, `mem*`, `f*`, allocation | a library call touches only what its pointers describe; derived pointers describe the same object |
| precise collection (`libs/gc/mark.c`, `malloc.c`, `allocation.*`) | mark bits, mark stack, mark state, object kinds | start a collection, mark roots, drain the mark stack, precise objects mark through a virtual call, overflow recovery | everything reachable is marked when the mark phase ends |
| allocation and sweeping (`libs/gc/reclaim.c`, `alloc.c`, `malloc.c`, `mallocx.c`, `thread_local_alloc.c`) | free lists, of the process and of each thread, blocks queued for sweeping, mark bits | allocate from a list, refill it, sweep a block, collect, expand, free | an object has one owner; nothing the program has is handed out again; waiting for memory ends |
| thread table (`libs/gc/pthread_support.c`, `pthread_start.c`) | chained records with flags, `GC_dont_gc` | the intercepted `pthread_*` calls, registration, blocking regions | a thread finds its own record although ids are used again; no record leaks |
| stopping the world (`libs/gc/pthread_stop_world.c`) | `GC_stop_count`, a semaphore, per-thread counts, pending signals | suspend all, count acknowledgements, resend, push stacks, restart all; the signal handlers | no thread but the collector runs while the world is stopped; every thread resumes |
| validator (`tools/validator`) | the AST under traversal, a list of warnings | one visitor per node kind | every construct the rules forbid is reported |
| refactoring analysis (`tools/refactoring-tool/AnalysisVisitor.hpp`) | a map from declarations to pointer data with dependency edges | one visitor per node kind, propagation, save and load | a pointer that flows into an array pointer is an array pointer, whatever the order of the visit |
| translator (`Translator.hpp`, `BuilderVisitor.hpp`, `TranslateSafe.cpp`) | rewriter buffers, the declaration group in progress | rewrite one declaration, call, cast, `new`, `delete` | a group is written when all its declarators were seen, with all its pointers, and not touched again |

How they interact: user code holds `lptr`/`laptr` on the stack and `ptr`/`aptr`
in the heap; conversions between the four families are the only place where a
stack address can leave the stack.  Heap pointers are handed to the collector,
which finds them conservatively or, for the precise kind, by calling `mark` on
each member.  A collection begins with the allocation lock and the thread table,
stops the world by signals, marks, restarts the world, and leaves its garbage to
be swept by later allocations.  The validator decides which programs may rely on the library; the
refactoring tool produces such programs, its analysis pass deciding for its
translation pass which pointers become `ptr` and which `aptr`.

What is hard: lifetime bugs need several calls and returns in an order no unit
test has (`unittests/` has a handful of one-function tests); the marker is a
state machine that may stop and restart anywhere and whose stack may overflow;
propagation in the analysis depends on the order of a map of pointers; threads
start, end, block and take signals while one of them stops the others; sweeping
goes on between the steps of the program long after the marks were set; and most
checks compare signed with unsigned numbers at a boundary.

## 2. Modules

| module | models | uses |
|---|---|---|
| `LocalPtr` | `lptr` and `ptr` on a call stack | |
| `LocalPtrProofs` | theorems about `LocalPtr` | `LocalPtr`, TLAPS |
| `MCLocalPtr` | the instance TLC checks | `LocalPtr` |
| `ArrayPtr` | `aptr`, its conversion to `ptr`, the casts and the block it describes | |
| `ArrayPtrProofs` | theorems about `ArrayPtr` | `ArrayPtr`, TLAPS |
| `MCArrayPtr` | the instances TLC checks | `ArrayPtr` |
| `LocalArray` | `array` and `laptr` on a call stack, conversions to and from `aptr` | |
| `LocalArrayProofs` | theorems about `LocalArray` | `LocalArray`, TLAPS |
| `MCLocalArray` | the instance TLC checks | `LocalArray` |
| `Collector` | abstract: what a collector promises the program | |
| `Marker` | the mark phase with the `PRECISE` kind, shown to implement `Collector` | `Collector` |
| `MarkerProofs` | theorems about `Marker` | `Marker`, TLAPS |
| `MCMarker` | the instances TLC checks | `Marker` |
| `Sweep` | allocation and lazy sweeping with threads, shown to implement `Collector` | `Collector` |
| `SweepProofs` | theorems about `Sweep` | `Sweep`, TLAPS |
| `MCSweep` | the instance TLC checks | `Sweep` |
| `ThreadTable` | the table of threads and the calls that change it | |
| `MCThreadTable` | the instance TLC checks | `ThreadTable` |
| `World` | abstract: what stopping the world promises | |
| `StopWorld` | the signal handshake over the table, shown to implement `World` | `ThreadTable`, `World` |
| `ThreadProofs` | theorems about `ThreadTable` and `StopWorld` | `StopWorld`, TLAPS |
| `MCStopWorld` | the instances TLC checks | `StopWorld` |
| `PtrAnalysis` | the analysis pass of the refactoring tool and its file | |
| `PtrAnalysisProofs` | theorems about `PtrAnalysis` | `PtrAnalysis`, TLAPS |
| `MCPtrAnalysis` | the instance TLC checks | `PtrAnalysis` |
| `Translator` | declaration groups and the rewriting of variables | |
| `TranslatorProofs` | theorems about `Translator` | `Translator`, TLAPS |
| `MCTranslator` | the instance TLC checks | `Translator` |

Operators whose comment begins with "Mutant:" are not part of any
specification.  Each is a plausible slip in the definition after it, and is
there to show that a property notices it.

### LocalPtr

The call stack is `depth` frames with lowest addresses `lo[d]`; a frame is a
header (return address, saved frame pointer) above its locals.  A constructor
that runs in frame `d` reads a stack pointer between `lo[d] - Header` (called)
and `lo[d]` (inlined); the proof and the model leave that choice open.  The word
`tb` is kept as its two halves, stack pointer and low bit, so `tb | 1` and
`tb ^ 1` are exact.  Each action is one operation: the constructors
(`Declare*`), `operator=` (`Assign*`, with the temporary that `l = &x` or `l = p`
builds first), `ptr(lptr)` (`PtrFromLptr`), `ptr`'s own operations, call, return,
and the return of an `lptr` by value, whose copy constructor runs in the callee.
A failed assert stops the program (`aborted`).  Addresses are cells; the model
has one object per cell, and objects live as long as their frame (block scopes
inside one function are not distinguished, the code does not either).

Two history fields do not exist in the code: `own` (the constructor ran in the
frame the object lives in) and `leaked` (stack addresses that were copied by
`operator=`, which always sets the receiver's flag, or returned by value).

### ArrayPtr

`len[b]` is the block at address `b`, `ap[v]` the three fields of an `aptr`
variable, `pv[p]` a `ptr`.  Words have `2 * Half` values: `ToLong` and `ToSize`
wrap as the compiled code does, so an index driven past the end of a `long`, and
the mixed signed and unsigned comparison in `spatialCheck`, behave as in the
code.  Each operation is an action: allocation (`NewArray`), null, copies,
`++ -- += -=` (`Advance`), `operator+`, `operator-` and `offset` (`Plus`, `Minus`), `free`
in the build with the collector, the casts that recompute the size (`Cast`),
checked access, and `operator ptr`.  `Collect` is the collector as this library
sees it: it may take a block that nothing names.  Bytes have no contents.

### LocalArray

The stack is that of `LocalPtr`; every frame has one `array<T,N>` and one more array
is in the heap.  `la[d][v]` is an `laptr` (a slice with data, size and index, and
`tb` as stack pointer and bit), `ga[p]` an `aptr` that outlives all frames.  The
actions are the constructors, copies, checked assignment, arithmetic, element
access, the conversions in both directions, call, return and return by value.  The
history field `out` marks a slice of a stack array that went through one of the
doors the code leaves open: an assignment or conversion that believed a set bit,
and an `laptr` whose constructor ran in another frame than its own.

### Collector and Marker

`Collector` has the program's steps (allocate, free, store, clear a pointer it can
reach) and one step of the collector: take back any set of objects outside
`Live`, the least set with the roots and uncollectable objects that is closed
under the pointers.  `Marker` extends it with the mark bits, the mark stack, the
mark state, `scan_ptr` and the flags of `mark.c`.  The mark stack overflows as
`GC_signal_mark_stack_overflow` does (the newest `Discards` entries are dropped
and the state becomes `MS_INVALID`); `alloc_mark_stack` may silently fail to grow
it.  `GC_mark_some` is one action for each way through its switch;
`GC_mark_from` takes an entry, considers its pointers one at a time in any order
(for a precise object through its virtual `mark`), and returns whenever its
credit may be used up.  `GC_push_roots` pushes the static segments as an entry
and the stack eagerly.  `Abandon` is a `stop_func` that ends a phase between two
calls of `GC_mark_some`.  Sweeping is one step.  One object per heap block; the static
segments, which the code pushes one by one, are one segment.

`mslimit` is the object that begins where the mark stack ends, or 0: the precise case of
`GC_mark_from` pops an entry with that address and does not trace it (mark.c:804-806,
`PassedOver`).  The stack comes from
`GC_scratch_alloc`, like the headers, out of the memory the heap grows into, so a
block may follow it directly.  Which objects may, is the constant `AtLimit`; another one may when
the stack grows.  A `NORMAL` object there is traced like any other, which the run
checks; for a `PRECISE` one the properties are false (Known disagreements).

### Sweep

`held` is what the program was given; everything else is on a free list (`fl` of a
kind, `tl` of a thread and kind), in a block that waits on `rlist` to be swept, or
in a block that was never used.  The call that holds the allocation lock is `call`,
its place in the code `pc`; one step is one block swept, one list taken, one phase
of a collection, so that the other threads allocate from their own lists and store
pointers in between.  `Mark` is the stopped part of a collection: it computes what
`Marker` proves of the mark phase, plus one stale word that may mark any object.  A
collection may be stopped by `stop_func` at each place where the code asks it.
`GC_n_kinds` is the bound of the loops over kinds (`Counted`): without
`ATOMIC_UNCOLLECTABLE` it is 3, and `PRECISE`, which is 3, is outside them, so its free
list is neither dropped by `GC_start_reclaim` nor cleaned of marks, and its queue is
never emptied by `GC_reclaim_all`.

The refinement mapping to `Collector` is `allocated <- held` and
`points <- Visible`: the contents of an object count only while the program has it.
A dead object may thus keep any words; that they are gone when it is handed out
again is part of what the refinement shows (`GC_reclaim_generic` clears, or
`GC_generic_malloc_many` links, what it frees).  What a collection marks is stated,
not computed: `Traced` is the least set with the roots that is closed under the
pointers.  `Reclaim` of `Collector` maps to
`Finish`: an unmarked object is dead from there on, although it is swept much later.

### ThreadTable, World and StopWorld

`ThreadTable` keeps the chain of records with their fields and, beside them, what
the thread library knows (`os`, `released`).  An id is free for a new thread as soon
as the library lets go of the old one, while its record may still be in the table.
`pthread_join` and `pthread_detach` are three steps each, because they look the
record up, wait without the lock, and come back.  `Ops` says which threads of an
instance do what; it bounds the state space only.

`StopWorld` extends it.  The suspend handler is six steps, the collector's
`GC_stop_world`, `GC_suspend_all`, `GC_start_world` one step per signal, count,
semaphore operation and poll; `suspend` and `restart` are the pending signals, which do
not queue.  `LoseSignal` drops a pending `SIG_SUSPEND`, as `GC_retry_signals` expects of
some systems, and `Interrupted` wakes `sigsuspend` with a signal of the program's own.
`World` is the abstract specification (threads enter and leave, one stops them all); its
`running` maps to the threads that are outside the handler and not in a blocking region,
its `collector` to the holder of the lock while the stacks are pushed.

### PtrAnalysis

The visit of a program is any sequence of relevant nodes in which variables come
before their uses; a function may be called before it is visited, as members of
a class are.  `entry[x]` distinguishes a name that is absent from the map from
one that `operator[]` left behind as a null pointer.  `finalizePointers` walks
the map in the order of names, and each call of `updateDependentPointers` is an
activation record with the names it has left, so the model can interrupt and
cycle wherever the recursion does.  `outputPointers` writes lines of tokens, the
names of `from` after the kind; `inputPointers` reads them in a fresh process.
`flows` and `declared` record what the program really copies, for the properties.

### Translator

A program is a sequence of declaration groups (`int * a, b, * c;`), each declarator one
visit, mixed with other nodes.  `text[g]` is the group in Clang's rewrite buffer: its
base type, its items (each at the place its declarator has in the group), and how far
its declarators were replaced (`extent`); a rewrite of the range of declarator `k`
replaces the base and the items up to `k`.  `ReplaceText` is Clang's, modelled from how
the translator uses it; a range that ends inside declarators already replaced makes the
group unreadable (`cut`), which happens only beside a function pointer.
`translateSmartPointer` and `translateTemplateArguments` write the range of a declarator
back with the name of its type replaced (`ReplaceTypeName`): the declarators keep their
text, Clang books the difference in length at the start of the range, and the range of
another declarator still ends where it did.  `rewrites` counts the calls of
`RewriteSource` for each group: one for each plain declarator of a smart pointer type,
one for a template type, one for the pointers.  A template type is one of a local
variable (`VisitDeclStmt`) with one pointer among its arguments; at file level and in
records the code leaves such types alone, so they are plain types there.  `traverseStmt`
is the builder's shared buffer as a function of the nesting of an initializer.
Functions, typedefs, casts, calls, `new`, `delete` and `main` are actions that touch a
file, checked by `checkSourceRange` or not.

## 3. Runs

| run | expected | shows |
|---|---|---|
| `local_ptr` | pass | bounds separate frames; stack addresses escape only through `operator=` and return by value; the assert admits only own or older frames |
| `lptr_flag` | violation | `operator=` sets the flag for stack addresses too (lptr.hpp:171 against the comment at 159-160) |
| `array_access` | pass | accesses, converted pointers and admitted lengths stay in live blocks, also when indices wrap and copies were freed |
| `local_array` | pass | a pointer to a stack array stays in its own or younger frames unless it went through a named door; accesses that pass their check are to arrays that exist |
| `marker` | pass | with any but a precise object at the end of the mark stack: each mark state keeps what `gc_pmark.h` says, exactly the reachable objects are marked at the end, the roots always fit, `Marker` implements `Collector`, every collection ends |
| `marker_precise` | violation | with `ATOMIC_UNCOLLECTABLE`, the default, `IS_UNCOLLECTABLE(PRECISE)` holds and precise objects are not traced (gc_priv.h:1256) |
| `sweep` | pass | one owner per object, no block swept with marks missing, uncollectable objects stay marked, free ones stay free, `Sweep` implements `Collector`, waiting for memory ends |
| `thread_table` | pass | a thread finds its own record, records behind it are dead, none leaks, collections stay disabled until the exit procedure |
| `stop_world` | pass | the handshake implements `World`, every stack is covered, no acknowledgement is left over, every collection stops the world and every thread resumes |
| `stop_world_retry` | violation | with `GC_retry_signals`, a resent signal survives to the next stop, is acknowledged there, and the collector goes on while a thread runs (pthread_stop_world.c:240) |
| `analysis` | pass | one pass computes exactly the closure, recursion is bounded, assignments are compatible, the translator reads the same classes, the tool ends on every graph |
| `translator` | pass | a group becomes one declaration of all its pointers, nothing rewrites it afterwards, and its file is written |

A run whose expected outcome is a violation states what a comment of the code
claims, and TLC shows a behaviour of the code that contradicts it.

### Known disagreements

Behaviour of the code that contradicts its comments or its evident intent and has
no run of its own.  Where an invariant is named it is defined in the module and TLC
refutes it on the instance of the component's passing run.

| where | what | invariant |
|---|---|---|
| lptr.hpp:67-69, ptr.hpp:98 | an `lptr` whose constructor ran in a callee (`operator lptr`, return by value) has that callee's stack pointer and accepts locals of frames younger than its own | `LocalPtr!BoundExcludesYounger` |
| lptr.hpp:162-164, 169 | with a clear flag the assert compares with `tb ^ 1 = tb + 1`, so the address equal to the bound is refused | |
| common.hpp:45-46, aptr.hpp:261 | `free` leaves a null `aptr` with its size, which the bounds check then admits | `ArrayPtr!NullHasNoSize` |
| aptr.hpp:284-289 | `spatialCheck` admits a negative index and a partial element | `ArrayPtr!SpatialCheckSafe` |
| aptr.hpp:311 | a null `aptr` that was advanced converts to a `ptr` unchecked (`wild` in the model) | |
| laptr.hpp:113 | an array exactly at the stack pointer passes `dataNotOnStack` (`<=`; `lptr` has `<`) | |
| laptr.hpp:63 | the copy constructor compares `this`, not the data, and loses the bit of heap data, so a later assignment from the copy aborts | |
| global_array.hpp, varray.hpp | conversions of `global_array` cannot be instantiated; `varray`'s initializer-list constructor reads its size before it is set, and its conversion to `aptr` has no stack check | |
| AnalysisVisitor.hpp:65-67, 416 | arrayness of a function does not reach what it returns | `PtrAnalysis!ReturnSound` |
| AnalysisVisitor.hpp:65-67, 385 | a parameter looked up before its function is visited is never tracked | `PtrAnalysis!CallSound` |
| AnalysisVisitor.hpp:292 | `isArithmeticOp` does not include `++` and `--` | |
| Translator.hpp:72-82 | in a mixed group the class and type of the first pointer are given to all, and what is not a pointer is dropped when a pointer follows it (`Translation` says exactly which) | |
| Translator.hpp:122, BuilderVisitor.hpp:79-89 | a construct nested in another in an initializer is written twice: the builder appends to a buffer its operand has filled | `Translator!InitTranslated` (with `MaxInit = 2`) |
| mark.c:804-806 | a precise object whose address equals `mark_stack_limit` is popped without being traced, and what only it points to is reclaimed; the block after the mark stack's memory has that address | `Marker!InvariantI`, `Marker!LiveMarked` (with `AtLimit = {0, 1}`) |
| gc_priv.h:1252, mark.c:92, alloc.c:864, reclaim.c:507, 595 | without `ATOMIC_UNCOLLECTABLE`, `GC_n_kinds` is 3 and the loops over kinds miss `PRECISE`: its free list keeps accidental marks and outlives `GC_start_reclaim`, which queues the same objects again, and its queued blocks are not swept before marks are cleared | `Sweep!OneOwner`, `Sweep!SweepSafe` (with a `PRECISE` block) |
| Translator.hpp:73, 204 | "We can only rewrite each statement once": a group of smart pointers is rewritten once for each declarator, and again when it has a pointer, whose flush overwrites the type | |
| Translator.hpp:500-502, 539 | two pointer arguments of one template: the string stream keeps the first version and the declaration is written twice | |
| TranslateSafe.cpp:290-295 | `currentLHS` outlives its assignment and decides the type of later `new` expressions | |
| Translator.hpp:567, 637, 657 | casts, library calls and `main` do not register their file: one with nothing else to translate is not written | |
| pthread_support.c:1238 | an id used again by a detached thread that registers in a key destructor revives the dead record a join is about to delete | |
| pthread_support.c:1288-1297 | `pthread_cancel` of a finished, unjoined thread raises `GC_dont_gc` for good; `pthread_exit` followed by a second registration lowers it twice | |
| mark.c, reclaim.c | a stale word that marks a free, unlisted slot of an uncollectable block keeps it for good, as such marks are never cleared | |

### Bounds and why they are enough

- `local_ptr`: three frames are the fewest in which a pointer has an older, an own
  and a younger frame; the proofs cover all other numbers.
- `array_access`: 3-bit words make every wrap-around reachable; elements of one and
  two bytes in blocks of up to three give partial elements; two blocks separated
  by a gap make an overrun visible.
- `local_array`: two frames and a temporary callee below the top; arrays of two
  elements with indices from -1 to 1 reach both ends and one past.
- `sweep`: `GC_n_kinds` is 3, the build without `ATOMIC_UNCOLLECTABLE` as in the run
  `marker`; two objects to a block and two blocks, one collectable and one not, are
  the least with a partly free block, a queue and both treatments of marks; two
  threads so that one sweeps while the other allocates and collects.  The heap has
  a fixed size (`GC_expand_hp` fails when it is full), a block keeps its kind, only
  collectable objects are freed, and at most one stale word marks per collection.
- `thread_table`: three ids, two of them used over and over; four records are enough
  for a live one and two dead ones of the same id.
- `stop_world`: two collections by either of two threads while a third blocks, or
  one with a lost signal and retries; with retries and two collections
  `StacksCovered` fails, which is `stop_world_retry`.
- `translator`: two groups with four declarators have a pointer, a declarator of any
  other kind and a pointer again, followed by another group; files are symmetric.
  Initializers are not nested (see above).
- `marker`: a mark stack of one entry overflows on the second push, in every state;
  growing to two and failing to grow are both tried, each with the `NORMAL` object or none
  where the stack ends; four objects, one of each
  kind, have a cycle, a shared object and an uncollectable one between others in
  address order.
  Collections repeat, so the state of one is seen by the next.
- `analysis`: names before, between and after each other in the order of the map,
  up to six nodes: two declarations, a function and three more, enough for a cycle
  whose last member turns into an array behind the iterator.

### Fairness

`marker` (`Terminates`) assumes weak fairness of the marking thread alone: it holds the
allocation lock with the world stopped, so nothing can keep it from its next
step.  Starting or abandoning a collection has no fairness.
`sweep` (`Returns`) assumes weak fairness of the thread that holds the allocation lock:
no one suspends it, as whoever stops the world needs the lock.  The program's other
steps, and `stop_func`, have none.  `stop_world` (`Stops`, `Resumes`) assumes that the
operating system runs every runnable thread and delivers a pending signal: weak
fairness of each thread's handler and of the collecting thread.  The program's
calls, lost signals and interruptions have none; a lost signal is made up for by the
resend alone.  `analysis` (`Terminates`) assumes
weak fairness of the steps after the visit: the tool is one thread that runs to
its end.  `CHECK_DEADLOCK FALSE` appears where the system may stop: a failed
assert, the end of the tool.

## 4. Proofs

`LocalPtrProofs` proves, for every stack layout, header size, number of frames
and set of variables that satisfies `LayoutAssumption`:

- `TypeCorrect`: `TypeOK` always holds;
- `BoundSeparation`: the bound of an `lptr` constructed in its own frame is above
  every younger frame and not above its own locals;
- `Containment`: a stack address is in a variable of an older frame, or in the heap,
  only if it went through `operator=` or a return by value;
- `CheckedAssignment`: a successful `operator=` stores a stack address that did not
  escape before only where it dies no later than its object.

All four rest on `Invariance`: `IInv` is inductive.  It is `TypeOK` with `Frames`
(frames are stacked downwards and leave room for headers), `DeadAbove` (no record
remains of popped frames), `OwnBound` (where a bound read in its own frame lies),
`Contained`, and `FlagContained` (a set flag means the address may be held
anywhere).  `Contained` alone is not inductive: `ptr(lptr)` looks only at the flag,
so the flag's meaning has to be part of the invariant, and the flag is computed
from a comparison with the stack pointer, so `Frames` has to be too.

`ArrayPtrProofs` proves, for every word size, element size, set of blocks and set
of variables that satisfies `ArrayAssumption`, the invariants of the
run `array_access`: `ArrayTypeCorrect` (`TypeOK`), `ArrayDescribed` (`Described`: an `aptr`
with data describes no more than a live block), `SpatialSafety` (`AccessSafe`: what
passes the bounds check is inside a live block), `SingletonSafety`
(`SingletonSafe`: so is a `ptr` converted from it) and `SpatialCheckSound`
(`SpatialSound`: `spatialCheck` is sound for an index that is not negative and
whole elements).  The inductive invariant `IInv` adds to `TypeOK` and `Described` the
parts `SizeFits` (a size is at most a block also after `free`, which leaves it
behind, so the product in the next cast does not wrap) and `Pointed` (what a `ptr`
names).  `AccessSafe` and `SpatialSound` then follow from `IInv` by arithmetic on
each state.

`MarkerProofs` proves what the run `marker` checks, except termination, for every
heap, every assignment of kinds, every set of pointers and every initial and
maximal size of the mark stack (`HeapAssumption`, `MarkerAssumption`):
`MarkerTypeCorrect`, `StatesMean` (`InvariantI`), `MarkComplete` (`LiveMarked`),
`MarkSound` (`OnlyLiveMarked`), `NoAbort` (`RootsFit`) and `Implements`
(`Spec => HeapSpec`).  All have two hypotheses.  `LimitClear`: no `PRECISE` object begins
where a mark stack ends, so `PassedOver` loses nothing (`TakeCovers` needs it); nothing in
the code sees to that.  `KindsAgree`: the macro
`IS_UNCOLLECTABLE` holds of the kind `UNCOLLECTABLE` only.  `WhenKindsAgree` shows that
it is met without `ATOMIC_UNCOLLECTABLE`, and in the default build by a program
without precise objects; the run `marker_precise` shows that it cannot be dropped.
The inductive invariant `IInv` is `TypeOK`, `InvariantI` and three strengthenings:
`NoDangling` (pointers are to allocated objects, so whatever is considered can be
marked), `MarksKept` (uncollectable objects are always marked, nothing that is free
is), and `Phases` (what holds between two parts of a function: after `GC_push_roots`
without overflow everything is covered, and a first pass begins with the marks of
uncollectable objects alone).  The argument is about coverage: a marked object is
covered when its pointers are marked, on the stack or about to be considered.
Taking an entry and considering a pointer keep coverage (`TakeCovers`,
`ConsiderCovers`), an overflow forgets it and says so by `MS_INVALID`, and a scan
restores it up to `scan_ptr`.  At the end coverage means that the marks are closed,
and `LiveLeast` gives `Live \subseteq marked`.  `OnlyLiveMarked` needs `LiveOnly` besides.

`LocalArrayProofs` proves `ArrayTypes`, `ArrayContainment` (`Contained`) and
`ArrayAccess` (`AccessSafe`) for every stack layout, header size, array in the heap and
number of frames and variables.  The inductive invariant is that of `LocalPtr` over
slices: `TypeOK`, `Frames`, `DeadAbove`, `OwnBound` and `Contained`.  `Contained` excepts
what went through one of the doors (`out`), which the code leaves open; for everything
else an assignment keeps it because the bound of a receiver built in its own frame
is above every younger frame.

`SweepProofs` proves, for every number of objects and blocks, size of block, set of
threads and assignment of kinds below `GC_n_kinds` (`KindsCounted`), all that the run
`sweep` checks but termination: `SweepTypes`, `OneOwnerHolds`, `SweepSafeHolds`,
`UncollectableHolds`, `FreeStays` (a step takes an object off the free lists only to
give it to someone, or unmarked) and `ImplementsHeap` (`Spec => HeapSpec`).  The three
invariants need each other: a sweep keeps `OneOwner` only if the marks of a queued block
say what is in use (`SweepSafe`), and the marks stay true only if nothing is on a list
twice.  `IInv` adds `NoDangling` (the program's pointers are to objects it has),
`Cleared` (what is handed out next holds no pointer), `QueuedOnce` (a block waits once),
`MarksClosed` (between marking and the end of the collection, with the other threads
running again, the marks are closed and cover their lists) and `CallOK`.  The hypothesis
`KindsCounted` cannot be dropped: with three kinds the results are false of `PRECISE`
blocks (Known disagreements), so they are about the other kinds, for
which `IS_UNCOLLECTABLE` and the loops are the same with `ATOMIC_UNCOLLECTABLE` and
without, and about all kinds only where `STUBBORN_ALLOC` makes them four.  In the refinement every step is a stutter of `Collector` but the ends of
calls, the program's stores and frees, and the end of a collection, which takes back
what has no mark and is on no thread's list: `FinishRefines` shows it is outside `Live`.

`ThreadProofs` proves of `ThreadTable`, for every set of ids, number of records and assignment
of operations, `FirstRecordLive`, `OwnRecordFound`, `RecordsFreed` and `DisabledHolds`.  The
hypothesis `NoRevival` says that no id belongs both to a thread that is joined or
detached and to one that registers itself again; `NoRecount`, for `DisabledHolds`, that
no thread that is cancelled or calls `pthread_exit` registers itself again.  Neither
can be dropped: without them the code breaks `OwnRecord` and `DisabledUntilExit`
(pthread_support.c:1238 and 1288-1297 under Known disagreements).  A program
whose threads do not call `GC_register_my_thread` after their exit procedure (from a
key destructor) meets both, and so does the instance of the run.  `TableInv` relates
three views of a thread, its record, the thread library and the calls in progress:
a call of `pthread_join` or `pthread_detach` before its blocking part holds the first
record of a present thread, after it a record nobody else will free (`ClaimsOK`); no
thread that can still be joined has a record some call is about to free
(`UnclaimedOK`); the flag `DETACHED` follows the library but for a detach on its way
(`DetachedOK`).  `DisabledInv` counts: `GC_dont_gc` is at least the number of records
with `DISABLED_GC` whose thread still runs.

Of `StopWorld`, `ThreadProofs` proves with these, for every number of threads, records and
collections and for `GC_retry_signals = FALSE`, `NoAckLeft` (`NoStaleAck`),
`StacksAreCovered` (`StacksCovered`) and `ImplementsWorld` (`Spec => StopsTheWorld`).  With
retries they are false, which is `stop_world_retry`; retries are off on this platform
unless the environment sets `GC_RETRY_SIGNALS` (pthread_stop_world.c:113-117, 854-859).  The
heart of `IInv` is `CountOK`: while the collector sends, the signals sent are the
acknowledgements in the semaphore and those still owed, and while it waits `n_live`
is.  `LastOK` says that `last_stop_count` tells a signal of this collection from one
of another, `TodoOK` that every thread that was running is still to be signalled, owes
an acknowledgement or has given it, `HandlerOK` that a handler works on the record of
its own thread, which rests on `OwnRecord`, `BlockedOK` that a blocking region keeps
the pointer saved at its entry.  In the refinement a thread leaves when the handler
starts and enters when it returns, and `World` stops at the last acknowledgement
that the collector counts.

`PtrAnalysisProofs` proves, for every set of names, every program of any length and
every order of the map, `AnalysisTypes`, `ExactHolds` (`Exact`), `DepthHolds`
(`DepthBounded`), `AssignSoundHolds` (`AssignSound`) and `SameInTranslatorHolds`
(`SameInTranslator`).  The recursion of `updateDependentPointers` is a stack of calls in
the model, so its results need no induction over data: `PassOK` says that what an
array comes from is an array, or the iterator has not reached the array, or a call
for the array has it left to look at.  When no call is left and the iterator is at
the end, the arrays are closed; that they are inside `ArrayClosure` is kept step by
step.  `CallsOK` says that every call but the first is for a pointer that has just
become an array, so their pointers differ and are no more than there are.
`FlowsOK` says that an assignment is recorded or has a null entry on one side, and
`FileOK` what the file says; a line is read back whatever order the names of `from`
have (`TokensOfLine`).

`TranslatorProofs` proves, for every set of files and declarators and every number of
groups and of other nodes between them, `WrittenLastHolds` (`WrittenLast`) and
`GroupTextHolds` (`GroupText`).  The second has one hypothesis, `MaxInit \in {0, 1}`: no
initializer nests one construct in another.  It cannot be dropped, since the builder
writes a nested construct twice (BuilderVisitor.hpp:79-89 under Known disagreements);
for one construct the recursion of `traverseStmt` ends after a step and needs no
induction (`TraverseSame`).  `IInv` has four parts: `Shape`; `PendingOK`, that the group
in progress is the last with a pointer, that `declGroupString` holds all its pointers
and that the range to be replaced ends at the last of them; `TextOK`, that a group is as
it was, but for the name of its type, while it waits, has its pointers replaced
afterwards, and its file is then both changed and to be written; and `DoneOK`.
`PendingOK` is what makes `WrittenLast` true: a group that gets one more declarator
after a pointer still waits, so one whose pointers were written gets none, and only the
group visited and the one that waits are ever rewritten (`VariableCounted`).  The two
visits come to the same state, `Ready`, of a group with one declarator not handled yet,
from which each of the five handlers restores `IInv`.

TLC agreed with each inductive invariant, on the instance of the component's passing
run, before it was proved; each is defined at the end of the component's module.

Only TLC checks the rest: liveness (`Terminates` of two modules, `Stops`, `Resumes`,
`Returns`), which is out of the prover's reach.  So is what `traverseStmt` computes for an
initializer of any depth; `TypeOK` of `Translator` would need it, is in no run and is not
proved, and `Shape` has the part of it that the proofs rest on.

## 5. Not modelled

- The C library wrappers (`safe_mem`, `safe_string`, `safe_io`): a check or two and one
  call on bytes whose contents no module keeps.  `SpatialSound` of `ArrayPtr` is what the
  check guarantees, and says what a caller has to see to.
- The validator: a fixed rule per AST node, with no state between nodes but the list
  of warnings.
- Of the tools, the text itself: types with several pointers among their template
  arguments, type names, the brackets
  `cleanArrayCode` and `fixOutput` remove, the wording of messages; subscript levels of
  pointers to pointers in the analysis.  Clang's traversal is external.
- Raw-pointer escapes (`convert_to_raw`) and the public constructor `ptr(T*)`
  (ptr.hpp:79-81), which takes any address unchecked: both leave the safe subset, and
  `Contained` says nothing of a program that uses them.  The build without the
  collector, except as a mutant.
- Single paths inside modelled parts.  `ArrayPtr`: a product of size and `sizeof` that
  wraps in `new_array` (util.hpp:107); `SingletonSafe` excepts the pointers marked `wild`.
  `LocalArray`: `laptr::spatialCheck` (laptr.hpp:243-245) and the initializer-list
  constructor of `array`.  `PtrAnalysis`: a `return` of a call, and of an expression
  without a declaration (AnalysisVisitor.hpp:346-347); the parser of a line is reduced to
  its second token, without the variables it keeps from line to line.  `ThreadTable`: a
  `pthread_join` or `pthread_detach` that returns an error.  `StopWorld`: with retries, a
  collector that is itself inside its handler may take a step.
- Of the collector, what Ironclad does not change and the modelled parts do not depend
  on: incremental, parallel and generational collection, finalization, large objects,
  splitting and merging of heap blocks, black lists, `fork` (not in the configured
  build), typed and debugging allocation, other operating systems.
- `cord`, `libatomic_ops`, the vendored test framework, tests and build files.

## 6. Plan

1. `DisabledUntilExit` with the exact value of `GC_dont_gc` where no thread is cancelled
   after its end.
2. Models, if the bounds allow: finalization with its queues, and blocks that are
   split and merged, under `Sweep`.
