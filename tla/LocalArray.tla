----------------------------- MODULE LocalArray -----------------------------
(***************************************************************************)
(* Arrays on the stack and the pointers to them: array<T,N>, laptr<T> and  *)
(* the conversions between laptr, array and aptr (include/ironclad/        *)
(* array.hpp, laptr.hpp, aptr.hpp).                                        *)
(*                                                                         *)
(* The stack is that of LocalPtr: it grows down, frame d owns the cells    *)
(* lo[d] .. lo[d-1]-1 with a header at the top.  Every function has one    *)
(* array<T,N> that fills its frame below the header; one more array is a   *)
(* global or lives in the heap.  An element is a cell.                     *)
(*                                                                         *)
(* An laptr is a local variable: it is never below the stack pointer that  *)
(* its constructor reads, so checkStackBoundGlobal, which compares `this`, *)
(* leaves the low bit of tb clear.  tb is kept as sp and bit.              *)
(***************************************************************************)
EXTENDS Integers

CONSTANTS
  StackTop,     \* first address above the oldest frame
  StackLimit,   \* no stack pointer is below this address
  MaxDepth,     \* bound: frames that exist together
  FrameSizes,   \* bound: the sizes a frame may have, header included
  Header,       \* size of return address and saved frame pointer
  HeapBase,     \* the array in the heap, or global
  HeapLen,      \* its length
  LVar,         \* the laptr variables of one frame
  AVar,         \* the aptr variables (they outlive every frame)
  MaxIndex      \* bound: an index stays in -1 .. MaxIndex

NULL == 0

ASSUME LocalArrayAssumption ==
  /\ StackLimit \in Nat \ {0} /\ StackTop \in Nat /\ StackLimit <= StackTop
  /\ MaxDepth \in Nat \ {0} /\ Header \in Nat \ {0} /\ MaxIndex \in Nat
  /\ FrameSizes \subseteq {n \in Nat : n > Header}
  /\ HeapBase \in Nat \ {0} /\ HeapLen \in Nat \ {0} /\ HeapBase + HeapLen <= StackLimit

VARIABLES
  depth,     \* number of frames
  lo,        \* lo[d]: lowest address of frame d; lo[0] = StackTop
  la,        \* la[d][v]: the laptr variable v of frame d
  ga,        \* ga[p]: the aptr variable p
  aborted    \* an assert failed and the program stopped

vars == <<depth, lo, la, ga, aborted>>

Index == -1 .. MaxIndex

\* The arrays: that of frame d, and the one that is not on the stack (0).
Base(d)  == IF d = 0 THEN HeapBase ELSE lo[d]
ARRAY_N(d) == IF d = 0 THEN HeapLen ELSE lo[d-1] - Header - lo[d]
Cells(d) == Base(d) .. Base(d) + ARRAY_N(d) - 1

\* What an aptr, or an laptr, describes.  out is history: the pointer to an
\* array on the stack went where no check guards it (see Through).
Slice(data, size, index) == [data |-> data, size |-> size, index |-> index, out |-> FALSE]
NoSlice == Slice(NULL, 0, 0)
Covered(s) == IF s.data = NULL THEN {} ELSE s.data .. s.data + s.size - 1
OnStack(s) == \E a \in Covered(s) : a >= StackLimit
Out(s, cond) == [s EXCEPT !.out = @ \/ (cond /\ OnStack(s))]

\* own is history: the constructor ran in the frame of the object.
Laptr(s, sp, bit, own) ==
  [live |-> TRUE, at |-> s, sp |-> sp, bit |-> bit, own |-> own]
NoLaptr == [live |-> FALSE, at |-> NoSlice, sp |-> 0, bit |-> 0, own |-> FALSE]

\* stack.hpp GETSP in a function n cells below the running one (0: inlined).
GETSP(n) == {sp \in lo[depth] - n - Header .. lo[depth] - n : sp >= StackLimit}
Below == {0} \cup {n \in FrameSizes : lo[depth] - n >= StackLimit + Header}

\* Mutant: the comparison admits one element too many.
InBounds_Past(s, i) == s.index + i >= 0 /\ s.index + i <= s.size

\* BOUNDS_CHECK (i = 0), the asserts of laptr::operator[] and operator lptr.
InBounds(s, i) == s.index + i >= 0 /\ s.index + i < s.size

\* laptr::dataNotOnStack
dataNotOnStack(data, sp) == data <= sp

\* Mutant: the assert looks at the bit of the receiver.
AssignOK_Swapped(l, other) ==
  \/ other.at.data = NULL \/ l.bit = 1
  \/ l.sp + (1 - l.bit) <= other.at.data

\* The assert of laptr::operator=.
AssignOK(l, other) ==
  \/ other.at.data = NULL \/ other.bit = 1
  \/ l.sp + (1 - l.bit) <= other.at.data

\* A set bit is believed: an array on the stack under a set bit gets through.
Through(l) == Out(l.at, l.bit = 1)

\* What operator= leaves behind: other.tb ^ 1 is never 0, the bit is set.  The
\* bound of a receiver that was built in a callee guards nothing.
Assigned(l, other) == [l EXCEPT !.at = Out(Through(other), ~l.own), !.bit = 1]

-----------------------------------------------------------------------------
Init ==
  /\ depth = 1
  /\ \E n \in FrameSizes :
       /\ StackTop - n >= StackLimit + Header
       /\ lo = [d \in 0 .. MaxDepth |-> CASE d = 0 -> StackTop
                                          [] d = 1 -> StackTop - n
                                          [] OTHER -> 0]
  /\ la = [d \in 1 .. MaxDepth |-> [v \in LVar |-> NoLaptr]]
  /\ ga = [p \in AVar |-> NoSlice]
  /\ aborted = FALSE

Call(n) ==
  /\ depth < MaxDepth
  /\ lo[depth] - n >= StackLimit + Header
  /\ depth' = depth + 1
  /\ lo' = [lo EXCEPT ![depth + 1] = lo[depth] - n]
  /\ UNCHANGED <<la, ga, aborted>>

Return ==
  /\ depth > 1
  /\ depth' = depth - 1
  /\ lo' = [lo EXCEPT ![depth] = 0]
  /\ la' = [la EXCEPT ![depth] = [v \in LVar |-> NoLaptr]]
  /\ UNCHANGED <<ga, aborted>>

\* return v; the copy constructor runs in the callee, on the caller's object.
ReturnLaptr(v, u) ==
  /\ depth > 1
  /\ la[depth][v].live /\ ~la[depth - 1][u].live
  /\ \E sp \in GETSP(0) :
       la' = [la EXCEPT ![depth] = [w \in LVar |-> NoLaptr],
                        ![depth - 1][u] = Laptr(Out(la[depth][v].at, TRUE), sp, 0, FALSE)]
  /\ depth' = depth - 1
  /\ lo' = [lo EXCEPT ![depth] = 0]
  /\ UNCHANGED <<ga, aborted>>

\* A new laptr variable v of the running frame, with its bit.
NewLaptr(v, s, n, sp, bit) ==
  /\ ~la[depth][v].live
  /\ la' = [la EXCEPT ![depth][v] = Laptr(s, sp, bit, n = 0)]
  /\ UNCHANGED <<depth, lo, ga, aborted>>

Declare(v) ==
  \E sp \in GETSP(0) : NewLaptr(v, NoSlice, 0, sp, 0)

\* array::operator laptr: setAsGlobal if dataNotOnStack, which an array at the
\* stack pointer itself passes.
ArrayLaptr(d, sp) ==
  Laptr(Slice(Base(d), ARRAY_N(d), 0), sp, IF dataNotOnStack(Base(d), sp) THEN 1 ELSE 0, FALSE)

\* laptr<T> v = array; also a parameter of type laptr<T>.
DeclareFromArray(v, d) ==
  \E n \in Below : \E sp \in GETSP(n) :
    NewLaptr(v, ArrayLaptr(d, sp).at, n, sp, ArrayLaptr(d, sp).bit)

\* laptr<T> v = array + i;
DeclarePlus(v, d, i) ==
  \E n \in Below : \E sp \in GETSP(n) :
    NewLaptr(v, Slice(Base(d), ARRAY_N(d), i), n, sp, 0)

\* laptr<T> v = array.offset(i);
DeclareOffset(v, d, i) ==
  \/ i < ARRAY_N(d) /\ DeclarePlus(v, d, i)
  \/ /\ i >= ARRAY_N(d)
     /\ aborted' = TRUE
     /\ UNCHANGED <<depth, lo, la, ga>>

\* laptr<T> v = aptr; aptr::operator laptr sets the bit.
DeclareFromAptr(v, p) ==
  \E n \in Below : \E sp \in GETSP(n) : NewLaptr(v, ga[p], n, sp, 1)

\* laptr<T> v = u + k, u - k, u.offset(k); the copy constructors are k = 0.
DeclareShifted(v, d, u, k) ==
  LET s == la[d][u].at IN
  /\ la[d][u].live /\ s.index + k \in Index
  /\ \E n \in Below : \E sp \in GETSP(n) :
       NewLaptr(v, [s EXCEPT !.index = @ + k], n, sp, 0)

\* ++v, v++, --v, v--, v += k, v -= k
Advance(d, v, k) ==
  /\ la[d][v].live /\ la[d][v].at.index + k \in Index
  /\ la' = [la EXCEPT ![d][v].at.index = @ + k]
  /\ UNCHANGED <<depth, lo, ga, aborted>>

\* laptr::operator= on the variable v of frame d.
AssignFrom(d, v, other) ==
  /\ la[d][v].live
  /\ IF AssignOK(la[d][v], other)
     THEN /\ la' = [la EXCEPT ![d][v] = Assigned(@, other)]
          /\ UNCHANGED aborted
     ELSE aborted' = TRUE /\ UNCHANGED la
  /\ UNCHANGED <<depth, lo, ga>>

Assign(d, v, e, u) == la[e][u].live /\ AssignFrom(d, v, la[e][u])

\* v = array;
AssignArray(d, v, e) ==
  \E n \in Below : \E sp \in GETSP(n) : AssignFrom(d, v, ArrayLaptr(e, sp))

\* v = aptr;
AssignAptr(d, v, p) ==
  AssignFrom(d, v, Laptr(ga[p], lo[depth], 1, FALSE))

\* A use of v that aborts unless ok.
Use(d, v, ok) ==
  /\ la[d][v].live
  /\ aborted' = ~ok
  /\ UNCHANGED <<depth, lo, la, ga>>

\* *v and v->m
Deref(d, v) == Use(d, v, InBounds(la[d][v].at, 0))

\* v[i]; the index is unsigned.
Subscript(d, v, i) == Use(d, v, la[d][v].at.data # NULL /\ InBounds(la[d][v].at, i))

\* laptr::operator lptr; what the lptr may do is in LocalPtr.
ToLptr(d, v) == Use(d, v, la[d][v].at.data # NULL => InBounds(la[d][v].at, 0))

\* array[i]: the index is unsigned.
AccessArray(d, i) ==
  /\ aborted' = ~(i < ARRAY_N(d))
  /\ UNCHANGED <<depth, lo, la, ga>>

SetAptr(p, ok, s) ==
  /\ IF ok THEN ga' = [ga EXCEPT ![p] = s] /\ UNCHANGED aborted
           ELSE aborted' = TRUE /\ UNCHANGED ga
  /\ UNCHANGED <<depth, lo, la>>

\* p.from_laptr(v): STACK_CHECK is notOnStack.
from_laptr(p, d, v) ==
  /\ la[d][v].live
  /\ SetAptr(p, la[d][v].bit = 1, Through(la[d][v]))

\* p = array.getAptr(), array.offsetAptr(i): notOnStack builds a default laptr
\* one or two calls down.
getAptr(p, d, i) ==
  \E n \in Below : \E sp \in GETSP(n) :
    LET s == Slice(Base(d), ARRAY_N(d), i)
        ok == i < ARRAY_N(d) /\ dataNotOnStack(Base(d), sp)
    IN SetAptr(p, ok, Out(s, Base(d) = sp))

\* p = q; p.free()
AptrAssign(p, q) == SetAptr(p, TRUE, ga[q])
AptrFree(p) == SetAptr(p, TRUE, [ga[p] EXCEPT !.data = NULL])

Operation ==
  \/ \E n \in FrameSizes : Call(n)
  \/ Return
  \/ \E v, u \in LVar : ReturnLaptr(v, u)
  \/ \E v \in LVar :
       \/ Declare(v)
       \/ \E d \in 0 .. depth : DeclareFromArray(v, d)
       \/ \E d \in 0 .. depth, i \in 0 .. MaxIndex : DeclarePlus(v, d, i) \/ DeclareOffset(v, d, i)
       \/ \E p \in AVar : DeclareFromAptr(v, p)
       \/ \E d \in 1 .. depth, u \in LVar, k \in {-1, 0, 1} : DeclareShifted(v, d, u, k)
  \/ \E d \in 1 .. depth, v \in LVar :
       \/ \E k \in {-1, 1} : Advance(d, v, k)
       \/ Deref(d, v) \/ ToLptr(d, v)
       \/ \E i \in 0 .. MaxIndex : Subscript(d, v, i)
       \/ \E e \in 1 .. depth, u \in LVar : Assign(d, v, e, u)
       \/ \E e \in 0 .. depth : AssignArray(d, v, e)
       \/ \E p \in AVar : AssignAptr(d, v, p) \/ from_laptr(p, d, v)
  \/ \E d \in 0 .. depth, i \in 0 .. MaxIndex : AccessArray(d, i)
  \/ \E p \in AVar :
       \/ \E d \in 0 .. depth, i \in 0 .. MaxIndex : getAptr(p, d, i)
       \/ \E q \in AVar : AptrAssign(p, q)
       \/ AptrFree(p)

Next == ~aborted /\ Operation

Spec == Init /\ [][Next]_vars

-----------------------------------------------------------------------------
(***************************************************************************)
(* Properties.                                                             *)
(***************************************************************************)

SliceType == [data : {NULL} \cup HeapBase .. StackTop, size : 0 .. StackTop, index : Index,
              out : BOOLEAN]

TypeOK ==
  /\ depth \in 1 .. MaxDepth
  /\ lo \in [0 .. MaxDepth -> 0 .. StackTop]
  /\ la \in [1 .. MaxDepth -> [LVar -> [live : BOOLEAN, at : SliceType, sp : 0 .. StackTop,
                                        bit : {0, 1}, own : BOOLEAN]]]
  /\ ga \in [AVar -> SliceType]
  /\ aborted \in BOOLEAN

\* What the frames up to d, and whoever outlives all frames (0), may describe.
MayDescribe(d, s) ==
  s.data = NULL \/ s.out \/ \E e \in 0 .. d : Covered(s) \subseteq Cells(e)

\* An laptr describes an array of its own or an older frame and an aptr no
\* array on the stack (laptr.hpp: an array "does not escape the stack").  The
\* only ways out are a set bit over an array on the stack, which operator= and
\* an array at the stack pointer leave behind, a return by value, and an
\* assignment to an laptr that was built in a callee.
Contained ==
  /\ \A d \in 1 .. depth, v \in LVar : la[d][v].live => MayDescribe(d, la[d][v].at)
  /\ \A p \in AVar : MayDescribe(0, ga[p])

\* An access that passes its check, through an laptr or aptr with data that
\* did not get out, is to a cell of an array that still exists.
AccessSafe ==
  LET Safe(s) == \A i \in 0 .. MaxIndex :
                   s.data # NULL /\ ~s.out /\ InBounds(s, i)
                     => \E e \in 0 .. depth : s.data + s.index + i \in Cells(e)
  IN /\ \A d \in 1 .. depth, v \in LVar : la[d][v].live => Safe(la[d][v].at)
     /\ \A p \in AVar : Safe(ga[p])

-----------------------------------------------------------------------------
(***************************************************************************)
(* The inductive invariant of the proofs.                                  *)
(***************************************************************************)

\* Frames lie one below the other, with room for an array in each.
Frames ==
  /\ lo[0] = StackTop
  /\ \A d \in 1 .. depth : lo[d] >= StackLimit + Header
  /\ \A d, e \in 0 .. depth : d < e => lo[e] + Header < lo[d]

\* Nothing remains of the frames that were popped.
DeadAbove == \A d \in depth + 1 .. MaxDepth, v \in LVar : ~la[d][v].live

\* A constructor that ran in the frame of its object read its stack pointer.
OwnBound ==
  \A d \in 1 .. depth, v \in LVar :
    la[d][v].live /\ la[d][v].own => la[d][v].sp \in lo[d] - Header .. lo[d]

IInv == TypeOK /\ Frames /\ DeadAbove /\ OwnBound /\ Contained
=============================================================================
