--------------------------- MODULE LocalPtrProofs ---------------------------
(***************************************************************************)
(* Proofs about LocalPtr, for every stack layout, header size and number   *)
(* of frames and variables.                                                *)
(***************************************************************************)
EXTENDS LocalPtr, TLAPS

(***************************************************************************)
(* An lptr value that the running function can copy from.                  *)
(***************************************************************************)
Source(l) ==
  /\ l \in Lptr
  /\ MayHold(depth, l.data)
  /\ l.bit = 1 => MayHold(0, l.data)

\* Every local of a live frame is a stack address at or above the running
\* frame's lowest address.
LEMMA LocalsBound ==
  ASSUME TypeOK, Frames, NEW d \in 1 .. depth, NEW a \in Locals(d)
  PROVE  a \in StackAddr /\ a >= lo[depth] /\ a # NULL
<1>1. depth \in Nat /\ d \in 0 .. depth /\ d - 1 \in 0 .. depth /\ 0 \in 0 .. depth
      /\ depth \in 0 .. depth /\ depth \in 0 .. MaxDepth
  BY LayoutAssumption DEF TypeOK
<1>2. lo[d] \in Int /\ lo[d - 1] \in Int /\ lo[depth] \in Int /\ lo[0] \in Int
  BY <1>1, LayoutAssumption DEF TypeOK
<1>3. lo[depth] <= lo[d]
  BY <1>1, <1>2, LayoutAssumption DEF Frames
<1>4. lo[d - 1] <= StackTop
  BY <1>1, <1>2, LayoutAssumption DEF Frames
<1>5. lo[d] >= StackLimit + Header
  BY DEF Frames
<1>6. QED
  BY <1>2, <1>3, <1>4, <1>5, LayoutAssumption DEF Locals, StackAddr, NULL

\* What may be named or held by the running function is an address, and it is
\* below the running frame only if any frame may hold it.
LEMMA HoldBound ==
  ASSUME TypeOK, Frames, NEW a, MayHold(depth, a)
  PROVE  a \in Addr /\ (a < lo[depth] => MayHold(0, a))
<1>1. CASE a \in {NULL} \cup HeapAddr \cup leaked
  BY <1>1 DEF MayHold, TypeOK, Addr
<1>2. CASE \E d \in 1 .. depth : a \in Locals(d)
  <2>1. a \in StackAddr /\ a >= lo[depth]
    BY <1>2, LocalsBound
  <2>2. lo[depth] \in Int /\ a \in Int
    BY <2>1, LayoutAssumption DEF TypeOK, StackAddr
  <2>3. QED
    BY <2>1, <2>2 DEF Addr
<1>3. QED
  BY <1>1, <1>2 DEF MayHold

\* A constructor that reads the stack pointer of the running frame, or of a
\* callee's, classifies its address soundly.
LEMMA NewFromSource ==
  ASSUME TypeOK, Frames, NEW a, MayHold(depth, a),
         NEW sp \in Int, sp <= lo[depth], NEW own \in BOOLEAN
  PROVE  Source(NewFrom(a, sp, own))
<1>1. a \in Addr /\ (a < lo[depth] => MayHold(0, a))
  BY HoldBound
<1>2. a \in Int /\ lo[depth] \in Int
  BY <1>1, LayoutAssumption DEF Addr, StackAddr, TypeOK, NULL
<1>3. NewFrom(a, sp, own) \in Lptr
  BY <1>1 DEF NewFrom, Lptr
<1>4. NewFrom(a, sp, own).bit = 1 => a < lo[depth]
  BY <1>2 DEF NewFrom
<1>5. NewFrom(a, sp, own).data = a
  BY DEF NewFrom
<1>6. QED
  BY <1>1, <1>3, <1>4, <1>5 DEF Source

-----------------------------------------------------------------------------
\* Changing one lptr variable of a live frame keeps the invariant when the new
\* object's address may be held by that frame, by every frame if its bit is
\* set, and its bound is that of its own frame.
LEMMA StoreStep ==
  ASSUME IInv,
         NEW d \in 1 .. depth, NEW v \in LVar, NEW new \in Lptr,
         lp' = [lp EXCEPT ![d][v] = new],
         UNCHANGED <<depth, lo, gp>>,
         aborted' \in BOOLEAN, leaked' \subseteq Addr, leaked \subseteq leaked',
         MayHold(d, new.data)',
         new.bit = 1 => MayHold(0, new.data)',
         new.live /\ new.own => new.sp \in GETSP(lo[d])
  PROVE  IInv'
<1> USE DEF IInv
<1>0. depth \in Nat /\ 1 .. depth \subseteq 1 .. MaxDepth /\ d \in 1 .. MaxDepth
  BY LayoutAssumption DEF TypeOK
<1>a. \A e \in 1 .. MaxDepth, u \in LVar :
        lp'[e][u] = IF e = d /\ u = v THEN new ELSE lp[e][u]
  BY <1>0 DEF TypeOK
<1>b. \A e, a : MayHold(e, a) => MayHold(e, a)'
  BY DEF MayHold, Locals
<1>1. TypeOK'
  BY <1>0 DEF TypeOK
<1>2. Frames'
  BY DEF Frames
<1>3. DeadAbove'
  BY <1>0, <1>a, LayoutAssumption DEF DeadAbove, TypeOK
<1>4. OwnBound'
  BY <1>0, <1>a DEF OwnBound, GETSP
<1>5. Contained'
  BY <1>0, <1>a, <1>b DEF Contained
<1>6. FlagContained'
  BY <1>0, <1>a, <1>b DEF FlagContained, notOnStack
<1>7. QED
  BY <1>1, <1>2, <1>3, <1>4, <1>5, <1>6

\* operator= keeps the invariant whatever object it copies from.
LEMMA AssignStep ==
  ASSUME IInv, NEW d \in 1 .. depth, NEW v \in LVar, NEW other, Source(other),
         AssignFrom(d, v, other)
  PROVE  IInv'
<1> USE DEF IInv
<1>0. d \in 1 .. MaxDepth /\ lp[d][v] \in Lptr
  BY LayoutAssumption DEF TypeOK
<1>1. CASE ~AssignOK(lp[d][v], other)
  BY <1>1 DEF AssignFrom, TypeOK, Frames, DeadAbove, OwnBound, Contained, MayHold,
              Locals, FlagContained, GETSP
<1>2. CASE AssignOK(lp[d][v], other)
  <2>0. PICK new : new = Assigned(lp[d][v], other)
    OBVIOUS
  <2>1. other \in Lptr /\ other.data \in Addr
    BY DEF Source, Lptr
  <2>2. /\ new \in Lptr
        /\ new.data = other.data /\ new.sp = lp[d][v].sp /\ new.own = lp[d][v].own
    <3>1. PICK m : m = [lp[d][v] EXCEPT !.data = other.data]
      OBVIOUS
    <3>2. new = Or1(m) \/ new = Xor1(m)
      BY <2>0, <3>1 DEF Assigned
    <3>3. m \in Lptr /\ m.data = other.data /\ m.sp = lp[d][v].sp /\ m.own = lp[d][v].own
      BY <1>0, <2>1, <3>1 DEF Lptr
    <3>4. QED
      BY <3>2, <3>3 DEF Or1, Xor1, Lptr
  <2>3. /\ lp' = [lp EXCEPT ![d][v] = new]
        /\ leaked' = Leak(other)
        /\ aborted' = aborted
        /\ UNCHANGED <<depth, lo, gp>>
        /\ lp[d][v].live
    BY <1>2, <2>0 DEF AssignFrom
  <2>4. leaked' \subseteq Addr /\ leaked \subseteq leaked'
    BY <2>1, <2>3 DEF Leak, TypeOK
  <2>5. MayHold(0, new.data)'
    <3>1. CASE other.bit = 0
      BY <3>1, <2>2, <2>3 DEF Leak, MayHold
    <3>2. CASE other.bit = 1
      BY <3>2, <2>2, <2>3, <2>4 DEF Source, MayHold, Locals
    <3>3. QED
      BY <3>1, <3>2, <2>1 DEF Lptr
  <2>6. MayHold(d, new.data)'
    BY <2>5 DEF MayHold
  <2>7. new.live /\ new.own => new.sp \in GETSP(lo[d])
    BY <2>2, <2>3 DEF OwnBound
  <2>8. QED
    <3>1. aborted' \in BOOLEAN
      BY <2>3 DEF TypeOK
    <3>2. QED
      BY <2>2, <2>3, <2>4, <2>5, <2>6, <2>7, <3>1, StoreStep
<1>3. QED
  BY <1>1, <1>2

\* A constructor of the running function keeps the invariant.
LEMMA BuildStep ==
  ASSUME IInv, NEW v \in LVar, NEW new, Source(new),
         lp' = [lp EXCEPT ![depth][v] = new],
         UNCHANGED <<depth, lo, gp, aborted, leaked>>,
         new.own => new.sp \in GETSP(lo[depth])
  PROVE  IInv'
<1>1. depth \in 1 .. depth
  BY LayoutAssumption DEF IInv, TypeOK
<1>2. MayHold(depth, new.data)' /\ (new.bit = 1 => MayHold(0, new.data)')
  BY DEF Source, MayHold, Locals
<1>3. aborted' \in BOOLEAN /\ leaked' \subseteq Addr /\ leaked \subseteq leaked' /\ new \in Lptr
  BY DEF IInv, TypeOK, Source
<1>4. QED
  BY <1>1, <1>2, <1>3, StoreStep

\* Popping the running frame keeps the invariant.
LEMMA PopStep ==
  ASSUME IInv, depth > 1, depth' = depth - 1,
         lo' = [lo EXCEPT ![depth] = 0],
         lp' = [lp EXCEPT ![depth] = [v \in LVar |-> NoLptr]],
         UNCHANGED <<gp, aborted, leaked>>
  PROVE  IInv'
<1> USE DEF IInv
<1>0. /\ depth \in Nat /\ depth \in 1 .. MaxDepth /\ 1 .. depth' \subseteq 1 .. depth
      /\ 0 .. depth' \subseteq 0 .. depth /\ depth \notin 0 .. depth'
      /\ 0 .. depth' \subseteq 0 .. MaxDepth /\ 1 .. depth' \subseteq 1 .. MaxDepth
  BY LayoutAssumption DEF TypeOK
<1>a. \A e \in 0 .. depth' : lo'[e] = lo[e]
  BY <1>0 DEF TypeOK
<1>b. \A e \in 1 .. depth' : lp'[e] = lp[e]
  BY <1>0 DEF TypeOK
<1>c. \A a : \A e \in 0 .. depth' : MayHold(e, a) => MayHold(e, a)'
  <2>1. \A e \in 1 .. depth' : Locals(e)' = Locals(e)
    BY <1>0, <1>a, LayoutAssumption DEF Locals
  <2>2. \A e \in 0 .. depth' : 1 .. e \subseteq 1 .. depth'
    BY <1>0, LayoutAssumption
  <2>3. QED
    BY <2>1, <2>2 DEF MayHold
<1>1. TypeOK'
  <2>1. NoLptr \in Lptr
    BY LayoutAssumption DEF NoLptr, Lptr, Addr, NULL
  <2>2. QED
    BY <1>0, <2>1, LayoutAssumption DEF TypeOK
<1>2. Frames'
  BY <1>0, <1>a, LayoutAssumption DEF Frames
<1>3. DeadAbove'
  <2>1. \A e \in depth' + 1 .. MaxDepth : e = depth \/ e \in depth + 1 .. MaxDepth
    BY <1>0, LayoutAssumption
  <2>2. \A e \in 1 .. MaxDepth, v \in LVar :
          lp'[e][v] = IF e = depth THEN NoLptr ELSE lp[e][v]
    BY <1>0 DEF TypeOK
  <2>3. \A e \in depth' + 1 .. MaxDepth : e \in 1 .. MaxDepth
    BY <1>0, LayoutAssumption
  <2>4. QED
    BY <2>1, <2>2, <2>3 DEF DeadAbove, NoLptr
<1>4. OwnBound'
  BY <1>0, <1>a, <1>b DEF OwnBound, GETSP
<1>5. Contained'
  <2>1. 0 \in 0 .. depth' /\ 1 .. depth' \subseteq 0 .. depth'
    BY <1>0
  <2>2. QED
    BY <1>0, <1>b, <1>c, <2>1 DEF Contained
<1>6. FlagContained'
  <2>1. 0 \in 0 .. depth'
    BY <1>0
  <2>2. QED
    BY <1>0, <1>b, <1>c, <2>1 DEF FlagContained, notOnStack
<1>7. QED
  BY <1>1, <1>2, <1>3, <1>4, <1>5, <1>6

-----------------------------------------------------------------------------
LEMMA InitIInv == Init => IInv
<1> SUFFICES ASSUME Init PROVE IInv
  OBVIOUS
<1>1. PICK n \in FrameSizes :
        /\ StackTop - n >= StackLimit + Header
        /\ lo = [d \in 0 .. MaxDepth |-> CASE d = 0 -> StackTop
                                           [] d = 1 -> StackTop - n
                                           [] OTHER -> 0]
  BY DEF Init
<1>2. n \in Nat /\ n > Header /\ Header \in Nat
  BY LayoutAssumption
<1>3. lo[0] = StackTop /\ lo[1] = StackTop - n /\ depth = 1
  BY <1>1, LayoutAssumption DEF Init
<1>4. NoLptr \in Lptr /\ NoLptr.live = FALSE
  BY LayoutAssumption DEF NoLptr, Lptr, Addr, NULL
<1>5. TypeOK
  <2>1. lo \in [0 .. MaxDepth -> Int]
    BY <1>1, <1>2, LayoutAssumption
  <2>2. depth \in 1 .. MaxDepth
    BY <1>3, LayoutAssumption
  <2>3. lp \in [1 .. MaxDepth -> [LVar -> Lptr]]
    BY <1>4 DEF Init
  <2>4. gp \in [PVar -> Addr]
    BY DEF Init, Addr
  <2>5. aborted \in BOOLEAN /\ leaked \subseteq Addr
    BY DEF Init
  <2>6. QED
    BY <2>1, <2>2, <2>3, <2>4, <2>5 DEF TypeOK
<1>6. Frames
  BY <1>1, <1>2, <1>3, LayoutAssumption DEF Frames
<1>7. \A d \in 1 .. MaxDepth, v \in LVar : ~lp[d][v].live
  BY <1>4 DEF Init
<1>8. 1 .. depth \subseteq 1 .. MaxDepth /\ depth + 1 .. MaxDepth \subseteq 1 .. MaxDepth
  BY <1>3, LayoutAssumption
<1>9. \A p \in PVar : MayHold(0, gp[p])
  BY DEF Init, MayHold
<1>10. QED
  BY <1>5, <1>6, <1>7, <1>8, <1>9 DEF IInv, DeadAbove, OwnBound, Contained, FlagContained

LEMMA CallStep ==
  ASSUME IInv, NEW n \in FrameSizes, Call(n)
  PROVE  IInv'
<1> USE DEF IInv
<1>0. /\ depth \in Nat /\ depth' = depth + 1 /\ depth' \in 1 .. MaxDepth
      /\ n \in Nat /\ n > Header /\ Header \in Nat
      /\ 0 .. depth \subseteq 0 .. MaxDepth /\ lo[depth] \in Int
  BY LayoutAssumption DEF TypeOK, Call
<1>a. \A e \in 0 .. MaxDepth : lo'[e] = IF e = depth' THEN lo[depth] - n ELSE lo[e]
  BY <1>0, LayoutAssumption DEF TypeOK, Call
<1>b. \A e \in 0 .. depth : lo'[e] = lo[e]
  BY <1>0, <1>a
<1>c. \A a : \A e \in 0 .. depth : MayHold(e, a) => MayHold(e, a)'
  <2>1. \A e \in 1 .. depth : Locals(e)' = Locals(e)
    BY <1>0, <1>b DEF Locals
  <2>2. \A e \in 0 .. depth : 1 .. e \subseteq 1 .. depth
    BY <1>0
  <2>3. leaked' = leaked
    BY DEF Call
  <2>4. QED
    BY <2>1, <2>2, <2>3 DEF MayHold
<1>d. lp' = lp /\ gp' = gp /\ leaked' = leaked /\ aborted' = aborted
  BY DEF Call
<1>e. \A v \in LVar : ~lp[depth'][v].live
  BY <1>0 DEF DeadAbove
<1>f. \A e \in 1 .. depth' : e = depth' \/ e \in 1 .. depth
  BY <1>0
<1>1. TypeOK'
  BY <1>0, <1>d DEF TypeOK, Call
<1>2. Frames'
  <2>1. lo'[0] = StackTop
    BY <1>0, <1>b DEF Frames
  <2>2. \A d \in 1 .. depth' : lo'[d] >= StackLimit + Header
    BY <1>0, <1>a, <1>b, <1>f DEF Frames, Call
  <2>3. ASSUME NEW d \in 0 .. depth', NEW e \in 0 .. depth', d < e
        PROVE  lo'[e] + Header < lo'[d]
    <3>1. d \in 0 .. depth /\ lo'[d] = lo[d] /\ lo[d] \in Int
      BY <1>0, <1>b, <2>3 DEF TypeOK
    <3>2. CASE e = depth'
      <4>1. lo'[e] = lo[depth] - n
        BY <1>0, <1>a, <3>2
      <4>2. lo[depth] <= lo[d]
        BY <1>0, <3>1 DEF Frames
      <4>3. QED
        BY <1>0, <3>1, <4>1, <4>2
    <3>3. CASE e \in 0 .. depth
      BY <1>0, <1>b, <2>3, <3>1, <3>3 DEF Frames
    <3>4. QED
      BY <1>0, <3>2, <3>3
  <2>4. QED
    BY <2>1, <2>2, <2>3 DEF Frames
<1>3. DeadAbove'
  BY <1>0, <1>d DEF DeadAbove
<1>4. OwnBound'
  BY <1>0, <1>b, <1>d, <1>e, <1>f DEF OwnBound, GETSP
<1>5. Contained'
  BY <1>0, <1>c, <1>d, <1>e, <1>f DEF Contained
<1>6. FlagContained'
  BY <1>0, <1>c, <1>d, <1>e, <1>f DEF FlagContained, notOnStack
<1>7. QED
  BY <1>1, <1>2, <1>3, <1>4, <1>5, <1>6

\* A ptr variable takes an address any frame may hold.
LEMMA PtrStep ==
  ASSUME IInv, NEW p \in PVar, NEW a, MayHold(0, a), gp' = [gp EXCEPT ![p] = a],
         UNCHANGED <<depth, lo, lp, leaked>>, aborted' \in BOOLEAN
  PROVE  IInv'
<1> USE DEF IInv
<1>1. a \in Addr
  BY LayoutAssumption DEF MayHold, Addr, TypeOK
<1>2. \A e, b : MayHold(e, b) => MayHold(e, b)'
  BY DEF MayHold, Locals
<1>3. \A q \in PVar : MayHold(0, gp[q])'
  <2>1. \A q \in PVar : gp'[q] = IF q = p THEN a ELSE gp[q]
    BY DEF TypeOK
  <2>2. QED
    BY <2>1, <1>2 DEF Contained
<1>4. QED
  BY <1>1, <1>2, <1>3 DEF TypeOK, Frames, DeadAbove, OwnBound, GETSP, Contained,
     FlagContained, notOnStack

\* return v; of an lptr by value.
LEMMA ReturnLptrStep ==
  ASSUME IInv, NEW v \in LVar, NEW u \in LVar, ReturnLptr(v, u)
  PROVE  IInv'
<1> USE DEF IInv
<1>0. /\ depth \in Nat /\ depth \in 1 .. MaxDepth /\ depth \in 1 .. depth
      /\ depth - 1 \in 1 .. MaxDepth /\ depth - 1 # depth /\ lo[depth] \in Int
      /\ Header \in Nat /\ lp[depth][v].live
  BY LayoutAssumption DEF TypeOK, ReturnLptr
<1>1. PICK sp, new :
        /\ sp \in GETSP(lo[depth])
        /\ new = NewFrom(lp[depth][v].data, sp, FALSE)
        /\ lp' = [lp EXCEPT ![depth] = [w \in LVar |-> NoLptr], ![depth - 1][u] = new]
        /\ leaked' = Leak(new)
  BY DEF ReturnLptr
<1>2. Source(new)
  <2>1. sp \in Int /\ sp <= lo[depth]
    BY <1>0, <1>1 DEF GETSP
  <2>2. MayHold(depth, lp[depth][v].data)
    BY <1>0 DEF Contained
  <2>3. QED
    BY <1>1, <2>1, <2>2, NewFromSource
<1>3. /\ new \in Lptr /\ new.own = FALSE
      /\ leaked' \subseteq Addr /\ leaked \subseteq leaked'
      /\ new.data \in {NULL} \cup HeapAddr \cup leaked'
  <2>1. new \in Lptr /\ new.own = FALSE /\ new.bit \in {0, 1} /\ new.data \in Addr
    BY <1>1, <1>2 DEF Source, NewFrom, Lptr
  <2>2. leaked' \subseteq Addr /\ leaked \subseteq leaked'
    BY <1>1, <2>1 DEF Leak, TypeOK
  <2>3. CASE new.bit = 0
    BY <1>1, <2>1, <2>2, <2>3 DEF Leak
  <2>4. CASE new.bit = 1
    BY <1>2, <2>1, <2>2, <2>4 DEF Source, MayHold
  <2>5. QED
    BY <2>1, <2>2, <2>3, <2>4
<1>4. /\ depth' = depth - 1 /\ depth' \in 1 .. MaxDepth /\ depth' \in Nat
      /\ 1 .. depth' \subseteq 1 .. depth /\ 1 .. depth' \subseteq 1 .. MaxDepth
      /\ 0 .. depth' \subseteq 0 .. depth /\ 0 .. depth' \subseteq 0 .. MaxDepth
      /\ lo' = [lo EXCEPT ![depth] = 0] /\ gp' = gp /\ aborted' = aborted
      /\ depth \notin 0 .. depth'
  BY <1>0, LayoutAssumption DEF ReturnLptr
<1>a. \A e \in 0 .. depth' : lo'[e] = lo[e]
  BY <1>0, <1>4 DEF TypeOK
<1>b. \A e \in 1 .. MaxDepth, w \in LVar :
        lp'[e][w] = CASE e = depth -> NoLptr
                      [] e = depth' /\ w = u -> new
                      [] OTHER -> lp[e][w]
  BY <1>0, <1>1, <1>4 DEF TypeOK
<1>c. \A a : \A e \in 0 .. depth' : MayHold(e, a) => MayHold(e, a)'
  <2>1. \A e \in 1 .. depth' : Locals(e)' = Locals(e)
    BY <1>4, <1>a DEF Locals
  <2>2. \A e \in 0 .. depth' : 1 .. e \subseteq 1 .. depth'
    BY <1>4
  <2>3. QED
    BY <1>3, <2>1, <2>2 DEF MayHold
<1>d. \A e \in 0 .. depth' : MayHold(e, new.data)'
  BY <1>3 DEF MayHold
<1>e. \A e \in 1 .. depth', w \in LVar : lp'[e][w] = new \/ lp'[e][w] = lp[e][w]
  BY <1>b, <1>4
<1>f. 0 \in 0 .. depth' /\ 1 .. depth' \subseteq 0 .. depth'
  BY <1>4
<1>5. TypeOK'
  <2>1. NoLptr \in Lptr
    BY LayoutAssumption DEF NoLptr, Lptr, Addr, NULL
  <2>2. lp' \in [1 .. MaxDepth -> [LVar -> Lptr]]
    BY <1>0, <1>1, <1>3, <2>1 DEF TypeOK
  <2>3. QED
    BY <1>0, <1>3, <1>4, <2>2 DEF TypeOK
<1>6. Frames'
  BY <1>4, <1>a, <1>f DEF Frames
<1>7. DeadAbove'
  <2>1. \A e \in depth' + 1 .. MaxDepth :
          e \in 1 .. MaxDepth /\ e # depth' /\ (e = depth \/ e \in depth + 1 .. MaxDepth)
    BY <1>0, <1>4, LayoutAssumption
  <2>2. ASSUME NEW e \in depth' + 1 .. MaxDepth, NEW w \in LVar
        PROVE  ~lp'[e][w].live
    <3>1. CASE e = depth
      BY <2>1, <1>b, <3>1 DEF NoLptr
    <3>2. CASE e # depth /\ e \in depth + 1 .. MaxDepth
      BY <2>1, <1>b, <3>2 DEF DeadAbove
    <3>3. QED
      BY <2>1, <3>1, <3>2
  <2>3. QED
    BY <2>2 DEF DeadAbove
<1>8. OwnBound'
  BY <1>3, <1>4, <1>a, <1>e, <1>f DEF OwnBound, GETSP
<1>9. Contained'
  BY <1>4, <1>c, <1>d, <1>e, <1>f DEF Contained
<1>10. FlagContained'
  BY <1>4, <1>c, <1>d, <1>e, <1>f DEF FlagContained, notOnStack
<1>11. QED
  BY <1>5, <1>6, <1>7, <1>8, <1>9, <1>10

\* Every step of the program keeps the invariant.
LEMMA NextStep ==
  ASSUME IInv, [Next]_vars
  PROVE  IInv'
<1>0. /\ depth \in 1 .. depth /\ lo[depth] \in Int /\ Header \in Nat
      /\ TypeOK /\ Frames /\ FrameSizes \subseteq Nat
  BY LayoutAssumption DEF IInv, TypeOK
<1>a. \A a \in {NULL} \cup Nameable : MayHold(depth, a)
  BY DEF Nameable, LiveLocals, MayHold
<1>b. \A a : MayHold(0, a) => MayHold(depth, a)
  BY DEF MayHold
<1>c. \A d \in 1 .. depth, v \in LVar : lp[d][v].live => Source(lp[d][v])
  <2> SUFFICES ASSUME NEW d \in 1 .. depth, NEW v \in LVar, lp[d][v].live
               PROVE  Source(lp[d][v])
    OBVIOUS
  <2>1. d \in 1 .. MaxDepth /\ lp[d][v] \in Lptr /\ 1 .. d \subseteq 1 .. depth
    BY LayoutAssumption DEF IInv, TypeOK
  <2>2. MayHold(depth, lp[d][v].data)
    BY <2>1 DEF IInv, Contained, MayHold
  <2>3. QED
    BY <2>1, <2>2 DEF IInv, FlagContained, Source, notOnStack
<1>d. \A sp \in GETSP(lo[depth]) : sp \in Int /\ sp <= lo[depth]
  BY <1>0 DEF GETSP
<1>e. ASSUME NEW p \in PVar, NEW sp \in Int, sp <= lo[depth], NEW own \in BOOLEAN
      PROVE  /\ Source(Or1(NewFrom(gp[p], sp, own)))
             /\ Or1(NewFrom(gp[p], sp, own)).own = own
             /\ Or1(NewFrom(gp[p], sp, own)).sp = sp
  <2>1. MayHold(0, gp[p]) /\ MayHold(depth, gp[p])
    BY <1>b DEF IInv, Contained
  <2>2. Source(NewFrom(gp[p], sp, own))
    BY <1>0, <1>e, <2>1, NewFromSource
  <2>3. PICK l : l = NewFrom(gp[p], sp, own)
    OBVIOUS
  <2>4. l \in Lptr /\ l.data = gp[p] /\ l.own = own /\ l.sp = sp
    BY <2>2, <2>3 DEF Source, NewFrom
  <2>5. Or1(l) \in Lptr /\ Or1(l).data = gp[p] /\ Or1(l).own = own /\ Or1(l).sp = sp
    BY <2>4 DEF Or1, Lptr
  <2>6. QED
    BY <2>1, <2>3, <2>5 DEF Source
<1>f. \A sp \in GETSP(lo[depth]) : \A a : MayHold(depth, a) =>
        /\ Source(NewFrom(a, sp, TRUE))
        /\ NewFrom(a, sp, TRUE).sp = sp
  BY <1>0, <1>d, NewFromSource DEF NewFrom
<1>1. ASSUME NEW n \in FrameSizes, Call(n) PROVE IInv'
  BY <1>1, CallStep
<1>2. CASE Return
  BY <1>2, PopStep DEF Return
<1>3. ASSUME NEW v \in LVar, NEW u \in LVar, ReturnLptr(v, u) PROVE IInv'
  BY <1>3, ReturnLptrStep
<1>4. ASSUME NEW v \in LVar, Declare(v) PROVE IInv'
  <2>1. PICK sp, new :
          /\ sp \in GETSP(lo[depth]) /\ new = NewDefault(sp, TRUE)
          /\ lp' = [lp EXCEPT ![depth][v] = new]
    BY <1>4 DEF Declare
  <2>2. Source(new) /\ new.sp = sp
    BY <2>1, <1>d DEF NewDefault, Source, Lptr, MayHold, Addr
  <2>3. QED
    BY <1>4, <2>1, <2>2, BuildStep DEF Declare
<1>5. ASSUME NEW v \in LVar, NEW a \in {NULL} \cup Nameable, DeclareFromAddr(v, a)
      PROVE  IInv'
  <2>1. PICK sp, new :
          /\ sp \in GETSP(lo[depth]) /\ new = NewFrom(a, sp, TRUE)
          /\ lp' = [lp EXCEPT ![depth][v] = new]
    BY <1>5 DEF DeclareFromAddr
  <2>2. Source(new) /\ new.sp = sp
    BY <2>1, <1>a, <1>f
  <2>3. QED
    BY <1>5, <2>1, <2>2, BuildStep DEF DeclareFromAddr
<1>6. ASSUME NEW v \in LVar, NEW d \in 1 .. depth, NEW u \in LVar, DeclareCopy(v, d, u)
      PROVE  IInv'
  <2>1. PICK sp, new :
          /\ sp \in GETSP(lo[depth]) /\ new = NewFrom(lp[d][u].data, sp, TRUE)
          /\ lp' = [lp EXCEPT ![depth][v] = new]
    BY <1>6 DEF DeclareCopy
  <2>2. MayHold(depth, lp[d][u].data)
    BY <1>6, <1>c DEF DeclareCopy, Source
  <2>3. Source(new) /\ new.sp = sp
    BY <2>1, <2>2, <1>f
  <2>4. QED
    BY <1>6, <2>1, <2>3, BuildStep DEF DeclareCopy
<1>7. ASSUME NEW v \in LVar, NEW p \in PVar, DeclareFromPtr(v, p) PROVE IInv'
  <2>0. PICK n \in {0} \cup FrameSizes :
          \E sp \in GETSP(lo[depth] - n) :
            lp' = [lp EXCEPT ![depth][v] = Or1(NewFrom(gp[p], sp, n = 0))]
    BY <1>7 DEF DeclareFromPtr
  <2>1. PICK sp, new :
          /\ sp \in GETSP(lo[depth] - n)
          /\ new = Or1(NewFrom(gp[p], sp, n = 0))
          /\ lp' = [lp EXCEPT ![depth][v] = new]
    BY <2>0
  <2>2. n \in Nat /\ sp \in Int /\ sp <= lo[depth] /\ (n = 0) \in BOOLEAN
    BY <1>0, <2>1 DEF GETSP
  <2>3. Source(new) /\ new.own = (n = 0) /\ new.sp = sp
    BY <1>e, <2>1, <2>2
  <2>4. n = 0 => sp \in GETSP(lo[depth])
    BY <1>0, <2>1, <2>2 DEF GETSP
  <2>5. QED
    BY <1>7, <2>1, <2>3, <2>4, BuildStep DEF DeclareFromPtr
<1>8. ASSUME NEW d \in 1 .. depth, NEW v \in LVar, NEW e \in 1 .. depth, NEW u \in LVar,
             Assign(d, v, e, u)
      PROVE  IInv'
  BY <1>8, <1>c, AssignStep DEF Assign
<1>9. ASSUME NEW d \in 1 .. depth, NEW v \in LVar, NEW a \in {NULL} \cup Nameable,
             AssignAddr(d, v, a)
      PROVE  IInv'
  <2>1. PICK sp \in GETSP(lo[depth]) : AssignFrom(d, v, NewFrom(a, sp, TRUE))
    BY <1>9 DEF AssignAddr
  <2>2. QED
    BY <1>a, <1>f, <2>1, AssignStep
<1>10. ASSUME NEW d \in 1 .. depth, NEW v \in LVar, NEW p \in PVar, AssignFromPtr(d, v, p)
       PROVE  IInv'
  <2>1. PICK sp \in GETSP(lo[depth]) : AssignFrom(d, v, Or1(NewFrom(gp[p], sp, FALSE)))
    BY <1>10 DEF AssignFromPtr
  <2>2. QED
    BY <1>d, <1>e, <2>1, AssignStep
<1>11. ASSUME NEW p \in PVar, NEW d \in 1 .. depth, NEW v \in LVar, PtrFromLptr(p, d, v)
       PROVE  IInv'
  <2>1. CASE notOnStack(lp[d][v])
    <3>1. MayHold(0, lp[d][v].data)
      BY <1>11, <2>1 DEF PtrFromLptr, IInv, FlagContained
    <3>2. aborted' \in BOOLEAN
      BY <1>0, <1>11, <2>1 DEF PtrFromLptr, TypeOK
    <3>3. QED
      BY <1>11, <2>1, <3>1, <3>2, PtrStep DEF PtrFromLptr
  <2>2. CASE ~notOnStack(lp[d][v])
    BY <1>11, <2>2 DEF PtrFromLptr, IInv, TypeOK, Frames, DeadAbove, OwnBound, Contained,
       MayHold, Locals, FlagContained, GETSP
  <2>3. QED
    BY <2>1, <2>2
<1>12. ASSUME NEW p \in PVar, NEW a, MayHold(0, a), gp' = [gp EXCEPT ![p] = a],
              UNCHANGED <<depth, lo, lp, aborted, leaked>>
       PROVE  IInv'
  BY <1>0, <1>12, PtrStep DEF TypeOK
<1>13. ASSUME NEW p \in PVar, NEW q \in PVar, PtrAssign(p, q) PROVE IInv'
  BY <1>12, <1>13 DEF PtrAssign, IInv, Contained
<1>14. ASSUME NEW p \in PVar, NEW a \in HeapAddr, PtrNew(p, a) PROVE IInv'
  BY <1>12, <1>14 DEF PtrNew, MayHold
<1>15. ASSUME NEW p \in PVar, PtrFree(p) PROVE IInv'
  BY <1>12, <1>15 DEF PtrFree, MayHold
<1>16. ASSUME UNCHANGED <<depth, lo, lp, gp, leaked>>, aborted' \in BOOLEAN PROVE IInv'
  BY <1>16 DEF IInv, TypeOK, Frames, DeadAbove, OwnBound, Contained, MayHold, Locals,
     FlagContained, GETSP, notOnStack
<1>17. ASSUME NEW d \in 1 .. depth, NEW v \in LVar, DerefLptr(d, v) PROVE IInv'
  BY <1>16, <1>17 DEF DerefLptr
<1>18. ASSUME NEW p \in PVar, DerefPtr(p) PROVE IInv'
  BY <1>16, <1>18 DEF DerefPtr
<1>19. CASE UNCHANGED vars
  BY <1>0, <1>16, <1>19 DEF vars, TypeOK
<1>20. QED
  BY <1>1, <1>2, <1>3, <1>4, <1>5, <1>6, <1>7, <1>8, <1>9, <1>10, <1>11, <1>13,
     <1>14, <1>15, <1>17, <1>18, <1>19 DEF Next

-----------------------------------------------------------------------------
\* The inductive invariant holds in every state of every program.
THEOREM Invariance == Spec => []IInv
<1>1. Init => IInv
  BY InitIInv
<1>2. IInv /\ [Next]_vars => IInv'
  BY NextStep
<1>3. QED
  BY <1>1, <1>2, PTL DEF Spec

\* Every variable keeps its type.
THEOREM TypeCorrect == Spec => []TypeOK
<1>1. IInv => TypeOK
  BY DEF IInv
<1>2. QED
  BY <1>1, Invariance, PTL

\* Lifetime containment: operator= and return by value are the only ways a
\* stack address gets beyond the lifetime of its frame.
THEOREM Containment == Spec => []Contained
<1>1. IInv => Contained
  BY DEF IInv
<1>2. QED
  BY <1>1, Invariance, PTL

\* tb ^ 1 is tb itself or the next word.
LEMMA Xor1Word ==
  ASSUME NEW l \in Lptr
  PROVE  Word(Xor1(l)) \in l.sp .. l.sp + 1
  BY DEF Lptr, Word, Xor1

LEMMA IInvSeparates == IInv => BoundSeparates
<1> SUFFICES ASSUME IInv,
                    NEW d \in 1 .. depth, NEW v \in LVar, lp[d][v].live, lp[d][v].own,
                    NEW e \in 1 .. depth, NEW a \in Locals(e)
             PROVE  /\ e > d => ~can_accept(lp[d][v], a)
                    /\ e <= d /\ a # lp[d][v].sp => can_accept(lp[d][v], a)
  BY DEF BoundSeparates
<1>1. /\ d \in 0 .. depth /\ e \in 0 .. depth /\ e - 1 \in 0 .. depth
      /\ d \in 1 .. MaxDepth /\ depth \in Nat /\ 0 .. depth \subseteq 0 .. MaxDepth
      /\ Header \in Nat
  BY LayoutAssumption DEF IInv, TypeOK
<1>2. /\ lo[d] \in Int /\ lo[e] \in Int /\ lo[e - 1] \in Int /\ lp[d][v] \in Lptr
  BY <1>1 DEF IInv, TypeOK
<1>3. a \in lo[e] .. lo[e - 1] - Header - 1 /\ a # NULL /\ a \in Int
  BY <1>1, <1>2, LocalsBound DEF IInv, Locals
<1>4. PICK b \in Int : b = lp[d][v].sp /\ b >= lo[d] - Header /\ b <= lo[d]
  BY <1>1, <1>2 DEF IInv, OwnBound, GETSP
<1>5. PICK w \in Int : w = Word(Xor1(lp[d][v])) /\ b <= w /\ w <= b + 1
  BY <1>2, <1>4, Xor1Word
<1>6. can_accept(lp[d][v], a) <=> w <= a
  BY <1>3, <1>5 DEF can_accept
<1>7. CASE e > d
  <2>1. lo[e - 1] <= lo[d]
    BY <1>1, <1>2, <1>7 DEF IInv, Frames
  <2>2. QED
    BY <1>1, <1>2, <1>3, <1>4, <1>5, <1>6, <1>7, <2>1
<1>8. CASE e <= d
  <2>1. lo[d] <= lo[e]
    BY <1>1, <1>2, <1>8 DEF IInv, Frames
  <2>2. QED
    BY <1>1, <1>2, <1>3, <1>4, <1>5, <1>6, <1>8, <2>1
<1>9. QED
  BY <1>1, <1>7, <1>8

\* The temporal bound of an lptr built in its own frame separates the frames
\* it may point into from the younger ones.
THEOREM BoundSeparation == Spec => []BoundSeparates
  BY IInvSeparates, Invariance, PTL

\* A store into a live lptr that names a stack address not let go before names
\* a local of the receiver's frame or an older one.
LEMMA StepStoresOlder ==
  ASSUME IInv, Next
  PROVE  StoreIsOlder
<1> SUFFICES ASSUME NEW d \in 1 .. depth, NEW v \in LVar,
                    lp[d][v].live, lp[d][v].own, d <= depth', lp'[d][v].live,
                    lp'[d][v].data # lp[d][v].data, lp'[d][v].data \notin leaked
             PROVE  MayHold(d, lp'[d][v].data)
  BY DEF StoreIsOlder
<1>0. /\ d \in 1 .. MaxDepth /\ depth \in 1 .. MaxDepth /\ depth \in Nat
      /\ lp[d][v] \in Lptr /\ depth \in 1 .. depth
  BY LayoutAssumption DEF IInv, TypeOK
<1>1. ASSUME NEW u \in LVar, ~lp[depth][u].live, NEW new,
             lp' = [lp EXCEPT ![depth][u] = new]
      PROVE  FALSE
  BY <1>0, <1>1 DEF IInv, TypeOK
<1>2. ASSUME lp' = lp
      PROVE  FALSE
  BY <1>2
<1>3. ASSUME depth > 1, depth' = depth - 1, NEW u \in LVar, ~lp[depth - 1][u].live, NEW new,
             lp' = [lp EXCEPT ![depth] = [w \in LVar |-> NoLptr], ![depth - 1][u] = new]
      PROVE  FALSE
  BY <1>0, <1>3 DEF IInv, TypeOK
<1>4. ASSUME depth > 1, depth' = depth - 1,
             lp' = [lp EXCEPT ![depth] = [w \in LVar |-> NoLptr]]
      PROVE  FALSE
  BY <1>0, <1>4 DEF IInv, TypeOK
<1>5. ASSUME NEW e \in 1 .. depth, NEW u \in LVar, NEW other,
             other \in Lptr, MayHold(depth, other.data), other.bit = 1 => MayHold(0, other.data),
             AssignFrom(e, u, other)
      PROVE  MayHold(d, lp'[d][v].data)
  <2>1. /\ AssignOK(lp[d][v], other) /\ e = d /\ u = v
        /\ lp'[d][v] = Assigned(lp[d][v], other)
    <3>1. AssignOK(lp[e][u], other)
      BY <1>2, <1>5 DEF AssignFrom
    <3>2. PICK new : new = Assigned(lp[e][u], other) /\ lp' = [lp EXCEPT ![e][u] = new]
      BY <1>5, <3>1 DEF AssignFrom
    <3>3. e \in 1 .. MaxDepth
      BY LayoutAssumption DEF IInv, TypeOK
    <3>4. lp'[d][v] = IF e = d /\ u = v THEN new ELSE lp[d][v]
      BY <1>0, <3>2, <3>3 DEF IInv, TypeOK
    <3>5. e = d /\ u = v
      BY <3>4
    <3>6. QED
      BY <3>1, <3>2, <3>4, <3>5
  <2>2. lp'[d][v].data = other.data
    <3>1. PICK m : m = [lp[d][v] EXCEPT !.data = other.data]
      OBVIOUS
    <3>2. lp'[d][v] = Or1(m) \/ lp'[d][v] = Xor1(m)
      BY <2>1, <3>1 DEF Assigned
    <3>3. m \in Lptr /\ m.data = other.data
      BY <1>0, <1>5, <3>1 DEF Lptr
    <3>4. QED
      BY <3>2, <3>3 DEF Or1, Xor1, Lptr
  <2>3. CASE other.data = NULL \/ other.bit = 1
    BY <1>5, <2>2, <2>3 DEF MayHold
  <2>4. CASE other.data # NULL /\ other.bit # 1
    <3>1. can_accept(lp[d][v], other.data)
      BY <2>1, <2>4 DEF AssignOK
    <3>2. CASE other.data \in HeapAddr \cup {NULL} \cup leaked
      BY <2>2, <3>2 DEF MayHold
    <3>3. ASSUME NEW f \in 1 .. depth, other.data \in Locals(f)
          PROVE  MayHold(d, other.data)
      <4>1. ~(f > d)
        BY <3>1, <3>3, IInvSeparates DEF BoundSeparates
      <4>2. f \in 1 .. d
        BY <1>0, <4>1
      <4>3. QED
        BY <3>3, <4>2 DEF MayHold
    <3>4. QED
      BY <1>5, <2>2, <3>2, <3>3 DEF MayHold
  <2>5. QED
    BY <2>3, <2>4
<1>6. /\ lo[depth] \in Int /\ Header \in Nat /\ TypeOK /\ Frames
  BY <1>0, LayoutAssumption DEF IInv, TypeOK
<1>7. ASSUME NEW e \in 1 .. depth, NEW u \in LVar, lp[e][u].live PROVE Source(lp[e][u])
  <2>1. e \in 1 .. MaxDepth /\ lp[e][u] \in Lptr /\ 1 .. e \subseteq 1 .. depth
    BY LayoutAssumption DEF IInv, TypeOK
  <2>2. MayHold(depth, lp[e][u].data)
    BY <1>7, <2>1 DEF IInv, Contained, MayHold
  <2>3. QED
    BY <1>7, <2>1, <2>2 DEF IInv, FlagContained, Source, notOnStack
<1>8. ASSUME NEW sp \in GETSP(lo[depth]), NEW a, MayHold(depth, a), NEW own \in BOOLEAN
      PROVE  Source(NewFrom(a, sp, own))
  BY <1>6, <1>8, NewFromSource DEF GETSP
<1>9. ASSUME NEW e \in 1 .. depth, NEW u \in LVar, NEW a \in {NULL} \cup Nameable,
             AssignAddr(e, u, a)
      PROVE  MayHold(d, lp'[d][v].data)
  <2>1. PICK sp \in GETSP(lo[depth]) : AssignFrom(e, u, NewFrom(a, sp, TRUE))
    BY <1>9 DEF AssignAddr
  <2>2. MayHold(depth, a)
    BY DEF Nameable, LiveLocals, MayHold
  <2>3. QED
    BY <1>5, <1>8, <2>1, <2>2 DEF Source
<1>10. ASSUME NEW e \in 1 .. depth, NEW u \in LVar, NEW p \in PVar, AssignFromPtr(e, u, p)
       PROVE  MayHold(d, lp'[d][v].data)
  <2>1. PICK sp, l : /\ sp \in GETSP(lo[depth]) /\ l = NewFrom(gp[p], sp, FALSE)
                     /\ AssignFrom(e, u, Or1(l))
    BY <1>10 DEF AssignFromPtr
  <2>2. MayHold(0, gp[p]) /\ MayHold(depth, gp[p])
    BY DEF IInv, Contained, MayHold
  <2>3. l \in Lptr /\ l.data = gp[p]
    BY <1>8, <2>1, <2>2 DEF Source, NewFrom
  <2>4. Or1(l) \in Lptr /\ Or1(l).data = gp[p]
    BY <2>3 DEF Or1, Lptr
  <2>5. QED
    BY <1>5, <2>1, <2>2, <2>4
<1>11. ASSUME NEW u \in LVar, NEW p \in PVar, DeclareFromPtr(u, p) PROVE FALSE
  BY <1>1, <1>11 DEF DeclareFromPtr
<1>12. ASSUME NEW u \in LVar, Declare(u) PROVE FALSE
  BY <1>1, <1>12 DEF Declare
<1>13. ASSUME NEW u \in LVar, NEW a, DeclareFromAddr(u, a) PROVE FALSE
  BY <1>1, <1>13 DEF DeclareFromAddr
<1>14. ASSUME NEW u \in LVar, NEW e \in 1 .. depth, NEW w \in LVar, DeclareCopy(u, e, w) PROVE FALSE
  BY <1>1, <1>14 DEF DeclareCopy
<1>15. ASSUME NEW w \in LVar, NEW u \in LVar, ReturnLptr(w, u) PROVE FALSE
  BY <1>3, <1>15 DEF ReturnLptr
<1>16. ASSUME NEW e \in 1 .. depth, NEW u \in LVar, NEW f \in 1 .. depth, NEW w \in LVar,
              Assign(e, u, f, w)
       PROVE  MayHold(d, lp'[d][v].data)
  BY <1>5, <1>7, <1>16 DEF Assign, Source
<1>17. ASSUME Return PROVE FALSE
  BY <1>4, <1>17 DEF Return
<1>18. QED
  BY <1>2, <1>9, <1>10, <1>11, <1>12, <1>13, <1>14, <1>15, <1>16, <1>17
     DEF Next, Call, PtrFromLptr, DerefLptr, PtrAssign, PtrNew, PtrFree, DerefPtr

\* The check of operator= is sound for every program (CheckedAssign).
THEOREM CheckedAssignment == Spec => CheckedAssign
<1>1. IInv /\ [Next]_vars => [StoreIsOlder]_vars
  BY StepStoresOlder
<1>2. QED
  BY <1>1, Invariance, PTL DEF Spec, CheckedAssign
=============================================================================
