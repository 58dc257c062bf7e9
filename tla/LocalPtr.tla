------------------------------ MODULE LocalPtr ------------------------------
(***************************************************************************)
(* Temporal safety of the local pointer lptr<T> and of the heap pointer    *)
(* ptr<T> (include/ironclad/lptr.hpp, ptr.hpp, stack.hpp).                 *)
(*                                                                         *)
(* The call stack grows towards lower addresses.  Frame d (1 is the oldest)*)
(* owns the addresses lo[d] .. lo[d-1]-1; the topmost Header of them hold  *)
(* the return address and the saved frame pointer, the others the locals.  *)
(* A function that runs in frame depth reads a stack pointer of lo[depth]  *)
(* when the constructor that asks for it is inlined, and up to Header less *)
(* when the constructor is called.                                         *)
(*                                                                         *)
(* The word tb of an lptr is kept as its two halves, the stack pointer sp  *)
(* (even, stacks are aligned) and the low bit: tb = sp + bit.              *)
(***************************************************************************)
EXTENDS Integers, FiniteSets

CONSTANTS
  StackTop,     \* first address above the oldest frame
  StackLimit,   \* no stack pointer is below this address
  MaxDepth,     \* bound: frames that exist together
  FrameSizes,   \* bound: the sizes a frame may have, header included
  Header,       \* size of return address and saved frame pointer
  HeapAddr,     \* addresses of globals and of heap objects
  LVar,         \* the lptr variables of one frame
  PVar          \* the ptr variables (they outlive every frame)

NULL == 0

ASSUME LayoutAssumption ==
  /\ StackTop \in Int /\ StackLimit \in Nat \ {0} /\ StackLimit <= StackTop
  /\ MaxDepth \in Nat \ {0}
  /\ Header \in Nat \ {0}
  /\ FrameSizes \subseteq {n \in Nat : n > Header}
  /\ HeapAddr \subseteq 1 .. StackLimit - 1

VARIABLES
  depth,     \* number of frames
  lo,        \* lo[d]: lowest address of frame d; lo[0] = StackTop
  lp,        \* lp[d][v]: the lptr variable v of frame d
  gp,        \* gp[p]: the field data of the ptr variable p
  aborted,   \* an assert failed and the program stopped
  leaked     \* history: stack addresses that operator= or a return let go

vars == <<depth, lo, lp, gp, aborted, leaked>>

StackAddr == StackLimit .. StackTop - 1
Addr      == {NULL} \cup HeapAddr \cup StackAddr

\* The locals of frame d; the header above them is nobody's object.
Locals(d) == lo[d] .. lo[d-1] - Header - 1

LiveLocals == UNION {Locals(d) : d \in 1 .. depth}

\* What &x, `this` or a reference can name.
Nameable == HeapAddr \cup LiveLocals

(***************************************************************************)
(* lptr objects.  own is a history field: the constructor ran in the frame *)
(* the object lives in, and not in a callee that returned it by value.     *)
(***************************************************************************)
Lptr == [live: BOOLEAN, data: Addr, sp: Int, bit: {0, 1}, own: BOOLEAN]

NoLptr == [live |-> FALSE, data |-> NULL, sp |-> 0, bit |-> 0, own |-> FALSE]

\* Mutant: the constructor has a frame of its own.
GETSPDeep(base) == base - 2 * Header .. base

\* stack.hpp GETSP, as a constructor called from the frame whose lowest
\* address is base can read it.
GETSP(base) == base - Header .. base

\* The word tb, tb | 1 and tb ^ 1.
Word(l) == l.sp + l.bit
\* Mutant: += where the code has |=.
Or1AsPlus(l) == [l EXCEPT !.bit = @ + 1]
Or1(l)  == [l EXCEPT !.bit = 1]
Xor1(l) == [l EXCEPT !.bit = 1 - @]

notOnStack(l) == l.bit = 1

\* lptr()
NewDefault(sp, own) ==
  [live |-> TRUE, data |-> NULL, sp |-> sp, bit |-> 0, own |-> own]

\* lptr(T*), lptr(lptr&), lptr(lptr const&), lptr(lptr<U>&), lptr(const lptr<U>&)
NewFrom(data, sp, own) ==
  [live |-> TRUE, data |-> data, sp |-> sp,
   bit  |-> IF data < sp THEN 1 ELSE 0, own |-> own]

can_accept(l, addr) == addr = NULL \/ Word(Xor1(l)) <= addr

\* Mutant: the assert without its comparison.
AssignOKUnchecked(l, other) == other.data = NULL \/ other.bit \in {0, 1}

\* The assert of lptr::operator=.
AssignOK(l, other) == other.data = NULL \/ other.bit = 1 \/ can_accept(l, other.data)

\* What lptr::operator= leaves in the receiver.
Assigned(l, other) ==
  LET m == [l EXCEPT !.data = other.data]
  IN  IF Word(Xor1(other)) # 0 THEN Or1(m) ELSE Xor1(m)

\* An address on the stack is let go when it is copied under a set bit or
\* into an older frame.
Leak(other) == leaked \cup (IF other.bit = 0 THEN {other.data} \ {NULL} ELSE {})

-----------------------------------------------------------------------------
Init ==
  /\ depth = 1
  /\ \E n \in FrameSizes :
       /\ StackTop - n >= StackLimit + Header
       /\ lo = [d \in 0 .. MaxDepth |-> CASE d = 0 -> StackTop
                                          [] d = 1 -> StackTop - n
                                          [] OTHER -> 0]
  /\ lp = [d \in 1 .. MaxDepth |-> [v \in LVar |-> NoLptr]]
  /\ gp = [p \in PVar |-> NULL]
  /\ aborted = FALSE
  /\ leaked = {}

Call(n) ==
  /\ ~aborted
  /\ depth < MaxDepth
  /\ lo[depth] - n >= StackLimit + Header
  /\ depth' = depth + 1
  /\ lo' = [lo EXCEPT ![depth + 1] = lo[depth] - n]
  /\ UNCHANGED <<lp, gp, aborted, leaked>>

Return ==
  /\ ~aborted
  /\ depth > 1
  /\ depth' = depth - 1
  /\ lo' = [lo EXCEPT ![depth] = 0]
  /\ lp' = [lp EXCEPT ![depth] = [v \in LVar |-> NoLptr]]
  /\ UNCHANGED <<gp, aborted, leaked>>

\* return v; in a function whose result initialises u of the caller: the copy
\* constructor runs in the callee, on the caller's object.
ReturnLptr(v, u) ==
  /\ ~aborted
  /\ depth > 1
  /\ lp[depth][v].live /\ ~lp[depth - 1][u].live
  /\ \E sp \in GETSP(lo[depth]) :
       LET new == NewFrom(lp[depth][v].data, sp, FALSE) IN
       /\ lp' = [lp EXCEPT ![depth] = [w \in LVar |-> NoLptr],
                           ![depth - 1][u] = new]
       /\ leaked' = Leak(new)
  /\ depth' = depth - 1
  /\ lo' = [lo EXCEPT ![depth] = 0]
  /\ UNCHANGED <<gp, aborted>>

Declare(v) ==
  /\ ~aborted
  /\ ~lp[depth][v].live
  /\ \E sp \in GETSP(lo[depth]) :
       lp' = [lp EXCEPT ![depth][v] = NewDefault(sp, TRUE)]
  /\ UNCHANGED <<depth, lo, gp, aborted, leaked>>

\* lptr<T> v = &x;
DeclareFromAddr(v, a) ==
  /\ ~aborted
  /\ ~lp[depth][v].live
  /\ \E sp \in GETSP(lo[depth]) :
       lp' = [lp EXCEPT ![depth][v] = NewFrom(a, sp, TRUE)]
  /\ UNCHANGED <<depth, lo, gp, aborted, leaked>>

\* lptr<T> v(other); also a parameter of type lptr<T>.
DeclareCopy(v, d, u) ==
  /\ ~aborted
  /\ ~lp[depth][v].live /\ lp[d][u].live
  /\ \E sp \in GETSP(lo[depth]) :
       lp' = [lp EXCEPT ![depth][v] = NewFrom(lp[d][u].data, sp, TRUE)]
  /\ UNCHANGED <<depth, lo, gp, aborted, leaked>>

\* lptr<T> v = p; ptr::operator lptr() builds the object in a callee frame
\* (of no size when it is inlined) and sets its bit.
DeclareFromPtr(v, p) ==
  /\ ~aborted
  /\ ~lp[depth][v].live
  /\ \E n \in {0} \cup FrameSizes :
       /\ lo[depth] - n >= StackLimit + Header
       /\ \E sp \in GETSP(lo[depth] - n) :
            lp' = [lp EXCEPT ![depth][v] = Or1(NewFrom(gp[p], sp, n = 0))]
  /\ UNCHANGED <<depth, lo, gp, aborted, leaked>>

\* lptr::operator=(const lptr&) on the variable v of frame d.
AssignFrom(d, v, other) ==
  /\ ~aborted
  /\ lp[d][v].live
  /\ IF AssignOK(lp[d][v], other)
     THEN /\ lp' = [lp EXCEPT ![d][v] = Assigned(@, other)]
          /\ leaked' = Leak(other)
          /\ UNCHANGED aborted
     ELSE aborted' = TRUE /\ UNCHANGED <<lp, leaked>>
  /\ UNCHANGED <<depth, lo, gp>>

Assign(d, v, e, u) == lp[e][u].live /\ AssignFrom(d, v, lp[e][u])

\* v = &x; and v = nullptr; a temporary is built in the running frame.
AssignAddr(d, v, a) ==
  \E sp \in GETSP(lo[depth]) : AssignFrom(d, v, NewFrom(a, sp, TRUE))

\* v = p; through ptr::operator lptr(): only the bit and data of the
\* temporary matter to operator=.
AssignFromPtr(d, v, p) ==
  \E sp \in GETSP(lo[depth]) : AssignFrom(d, v, Or1(NewFrom(gp[p], sp, FALSE)))

\* Mutant: the conversion without its assert.
PtrFromLptrUnchecked(p, d, v) ==
  /\ ~aborted
  /\ lp[d][v].live
  /\ gp' = [gp EXCEPT ![p] = lp[d][v].data]
  /\ UNCHANGED <<depth, lo, lp, aborted, leaked>>

\* p = ptr<T>(lptr)
PtrFromLptr(p, d, v) ==
  /\ ~aborted
  /\ lp[d][v].live
  /\ IF notOnStack(lp[d][v])
     THEN gp' = [gp EXCEPT ![p] = lp[d][v].data] /\ UNCHANGED aborted
     ELSE aborted' = TRUE /\ UNCHANGED gp
  /\ UNCHANGED <<depth, lo, lp, leaked>>

\* p = q;
PtrAssign(p, q) ==
  /\ ~aborted
  /\ gp' = [gp EXCEPT ![p] = gp[q]]
  /\ UNCHANGED <<depth, lo, lp, aborted, leaked>>

\* p = new_ptr<T>();
PtrNew(p, a) ==
  /\ ~aborted
  /\ gp' = [gp EXCEPT ![p] = a]
  /\ UNCHANGED <<depth, lo, lp, aborted, leaked>>

\* p.free(); the collector owns the memory, only the field is cleared.
PtrFree(p) ==
  /\ ~aborted
  /\ gp' = [gp EXCEPT ![p] = NULL]
  /\ UNCHANGED <<depth, lo, lp, aborted, leaked>>

\* *v and v->m assert a non-null address.
DerefLptr(d, v) ==
  /\ ~aborted
  /\ lp[d][v].live
  /\ aborted' = (lp[d][v].data = NULL)
  /\ UNCHANGED <<depth, lo, lp, gp, leaked>>

DerefPtr(p) ==
  /\ ~aborted
  /\ aborted' = (gp[p] = NULL)
  /\ UNCHANGED <<depth, lo, lp, gp, leaked>>

Next ==
  \/ \E n \in FrameSizes : Call(n)
  \/ Return
  \/ \E v, u \in LVar : ReturnLptr(v, u)
  \/ \E v \in LVar :
       \/ Declare(v)
       \/ \E a \in {NULL} \cup Nameable : DeclareFromAddr(v, a)
       \/ \E d \in 1 .. depth, u \in LVar : DeclareCopy(v, d, u)
       \/ \E p \in PVar : DeclareFromPtr(v, p)
  \/ \E d \in 1 .. depth, v \in LVar :
       \/ \E e \in 1 .. depth, u \in LVar : Assign(d, v, e, u)
       \/ \E a \in {NULL} \cup Nameable : AssignAddr(d, v, a)
       \/ \E p \in PVar : AssignFromPtr(d, v, p)
       \/ \E p \in PVar : PtrFromLptr(p, d, v)
       \/ DerefLptr(d, v)
  \/ \E p, q \in PVar : PtrAssign(p, q)
  \/ \E p \in PVar, a \in HeapAddr : PtrNew(p, a)
  \/ \E p \in PVar : PtrFree(p) \/ DerefPtr(p)

Spec == Init /\ [][Next]_vars

-----------------------------------------------------------------------------
TypeOK ==
  /\ depth \in 1 .. MaxDepth
  /\ lo \in [0 .. MaxDepth -> Int]
  /\ lp \in [1 .. MaxDepth -> [LVar -> Lptr]]
  /\ gp \in [PVar -> Addr]
  /\ aborted \in BOOLEAN
  /\ leaked \subseteq Addr

\* An lptr of frame d built in its own frame tells the frames apart: it
\* accepts no local of a younger frame, and every local of its own and of an
\* older frame but the one at the stack pointer itself (lptr.hpp, the comment
\* on the constructors and can_accept).
BoundSeparates ==
  \A d \in 1 .. depth, v \in LVar :
    LET l == lp[d][v] IN
    l.live /\ l.own =>
      \A e \in 1 .. depth : \A a \in Locals(e) :
        /\ e > d => ~can_accept(l, a)
        /\ e <= d /\ a # l.sp => can_accept(l, a)

\* Lifetime containment: an lptr holds null, a global or heap address, or a
\* local of its own or an older frame; a ptr holds null or a global or heap
\* address.  The only stack addresses that get any further are those that
\* operator= or a return by value let go (history variable leaked): no
\* constructor, conversion or assert is another way out.
MayHold(d, a) ==
  \/ a \in {NULL} \cup HeapAddr \cup leaked
  \/ \E e \in 1 .. d : a \in Locals(e)

Contained ==
  /\ \A d \in 1 .. depth, v \in LVar : lp[d][v].live => MayHold(d, lp[d][v].data)
  /\ \A p \in PVar : MayHold(0, gp[p])

(***************************************************************************)
(* The inductive invariant of LocalPtrProofs: frames are disjoint and      *)
(* ordered, no lptr is alive above the running frame, an lptr built in its *)
(* own frame has that frame's stack pointer as its bound, and a set bit    *)
(* goes with an address any frame may hold.                                *)
(***************************************************************************)
Frames ==
  /\ lo[0] = StackTop
  /\ \A d \in 1 .. depth : lo[d] >= StackLimit + Header
  /\ \A d, e \in 0 .. depth : d < e => lo[e] + Header < lo[d]

DeadAbove == \A d \in depth + 1 .. MaxDepth, v \in LVar : ~lp[d][v].live

OwnBound ==
  \A d \in 1 .. depth, v \in LVar :
    lp[d][v].live /\ lp[d][v].own => lp[d][v].sp \in GETSP(lo[d])

FlagContained ==
  \A d \in 1 .. depth, v \in LVar :
    lp[d][v].live /\ notOnStack(lp[d][v]) => MayHold(0, lp[d][v].data)

IInv == TypeOK /\ Frames /\ DeadAbove /\ OwnBound /\ Contained /\ FlagContained

\* The assert of operator= does its work: a stack address that was not let go
\* before and that an assignment stores into an lptr built in its own frame
\* is a local of that frame or of an older one.
StoreIsOlder ==
  \A d \in 1 .. depth, v \in LVar :
    /\ lp[d][v].live /\ lp[d][v].own /\ d <= depth' /\ lp'[d][v].live
    /\ lp'[d][v].data # lp[d][v].data
    /\ lp'[d][v].data \notin leaked
    => MayHold(d, lp'[d][v].data)

CheckedAssign == [][StoreIsOlder]_vars

(***************************************************************************)
(* What the comments of lptr.hpp say of the code, and the code does not do.*)
(***************************************************************************)

\* "If the other lptr<T> has the last bit set, then the address that it holds
\* came from the globals or heap" (lptr.hpp:159-160).
FlagMeansNotStack ==
  \A d \in 1 .. depth, v \in LVar :
    lp[d][v].live /\ notOnStack(lp[d][v]) => lp[d][v].data \notin LiveLocals

\* The bound allows "addresses from its own stack frame, but not from any
\* stack frames that will be allocated in the future" (lptr.hpp:67-69).
BoundExcludesYounger ==
  \A d \in 1 .. depth, v \in LVar :
    lp[d][v].live =>
      \A e \in d + 1 .. depth : \A a \in Locals(e) : ~can_accept(lp[d][v], a)
=============================================================================
