-------------------------- MODULE LocalArrayProofs --------------------------
(***************************************************************************)
(* Proofs about LocalArray, for every stack layout, header size, array in  *)
(* the heap and number of frames and variables.                            *)
(***************************************************************************)
EXTENDS LocalArray, TLAPS

LaptrType == [live : BOOLEAN, at : SliceType, sp : 0 .. StackTop, bit : {0, 1}, own : BOOLEAN]

(***************************************************************************)
(* An laptr value that the running function can copy from.                 *)
(***************************************************************************)
Source(l) == l \in LaptrType /\ MayDescribe(depth, l.at)

-----------------------------------------------------------------------------
(***************************************************************************)
(* Slices and arrays.                                                      *)
(***************************************************************************)

\* Out changes the history field alone.
LEMMA OutFields ==
  ASSUME NEW s \in SliceType, NEW c \in BOOLEAN
  PROVE  /\ Out(s, c) \in SliceType
         /\ Out(s, c).data = s.data /\ Out(s, c).size = s.size /\ Out(s, c).index = s.index
         /\ Out(s, c).out = (s.out \/ (c /\ OnStack(s)))
BY DEF Out, SliceType

\* What describes an array that may be described still does after Out.
LEMMA OutDescribes ==
  ASSUME NEW s \in SliceType, NEW c \in BOOLEAN, NEW d, MayDescribe(d, s)
  PROVE  MayDescribe(d, Out(s, c))
<1>1. Covered(Out(s, c)) = Covered(s)
  BY OutFields DEF Covered
<1>2. s.out => Out(s, c).out
  BY OutFields
<1>3. QED
  BY <1>1, <1>2, OutFields DEF MayDescribe

\* The arrays of the frames that exist, and the other one.
LEMMA Layout ==
  ASSUME TypeOK, Frames, NEW d \in 0 .. depth
  PROVE  /\ Base(d) \in HeapBase .. StackTop /\ Base(d) # NULL
         /\ ARRAY_N(d) \in 1 .. StackTop
         /\ d = 0 => Base(d) + ARRAY_N(d) <= StackLimit
         /\ d # 0 => /\ Base(d) = lo[d] /\ Base(d) >= StackLimit /\ lo[d] >= lo[depth]
                     /\ Base(d) + ARRAY_N(d) = lo[d - 1] - Header
<1>1. depth \in Nat /\ d \in 0 .. MaxDepth /\ 0 \in 0 .. depth /\ depth \in 0 .. depth
      /\ 0 .. depth \subseteq 0 .. MaxDepth /\ StackTop \in Nat /\ StackLimit \in Nat
      /\ Header \in Nat \ {0} /\ HeapBase \in Nat \ {0} /\ HeapLen \in Nat \ {0}
  BY LocalArrayAssumption DEF TypeOK
<1>2. CASE d = 0
  BY <1>1, <1>2, LocalArrayAssumption DEF Base, ARRAY_N, NULL
<1>3. CASE d # 0
  <2>1. d - 1 \in 0 .. depth /\ d \in 1 .. depth /\ d - 1 < d
    BY <1>1, <1>3
  <2>2. lo[d] \in Nat /\ lo[d - 1] \in Nat /\ lo[depth] \in Nat /\ lo[0] = StackTop
    <3>1. 0 .. StackTop \subseteq Nat
      BY <1>1
    <3>2. lo[d] \in 0 .. StackTop /\ lo[d - 1] \in 0 .. StackTop /\ lo[depth] \in 0 .. StackTop
      BY <1>1, <2>1 DEF TypeOK
    <3>3. QED
      BY <3>1, <3>2 DEF Frames
  <2>3. lo[d] + Header < lo[d - 1] /\ lo[d] >= StackLimit + Header
    BY <2>1 DEF Frames
  <2>4. lo[d - 1] <= StackTop
    BY <1>1, <2>1, <2>2 DEF Frames
  <2>5. lo[depth] <= lo[d]
    BY <1>1, <2>1, <2>2 DEF Frames
  <2>6. Base(d) = lo[d] /\ ARRAY_N(d) = lo[d - 1] - Header - lo[d]
    BY <1>3 DEF Base, ARRAY_N
  <2>7. QED
    BY <1>1, <1>3, <2>2, <2>3, <2>4, <2>5, <2>6, LocalArrayAssumption DEF NULL
<1>4. QED
  BY <1>2, <1>3

\* A slice that describes an array, and has not been marked as out although
\* it reaches the stack, describes the array that is not on the stack.
LEMMA OffStack ==
  ASSUME TypeOK, Frames, NEW s \in SliceType, MayDescribe(depth, s)
  PROVE  MayDescribe(0, Out(s, TRUE))
<1>1. Covered(Out(s, TRUE)) = Covered(s)
  BY OutFields DEF Covered
<1>a. 0 \in 0 .. 0
  OBVIOUS
<1>2. CASE s.data = NULL \/ s.out \/ OnStack(s)
  BY <1>2, OutFields DEF MayDescribe
<1>3. CASE ~(s.data = NULL \/ s.out \/ OnStack(s))
  <2>1. PICK e \in 0 .. depth : Covered(s) \subseteq Cells(e)
    BY <1>3 DEF MayDescribe
  <2>2. CASE e = 0
    BY <1>1, <1>a, <2>1, <2>2 DEF MayDescribe
  <2>3. CASE e # 0
    <3>1. \A a \in Cells(e) : a >= StackLimit
      <4>1. Base(e) \in Nat /\ Base(e) >= StackLimit
        BY <2>3, Layout, LocalArrayAssumption
      <4>2. QED
        BY <4>1, LocalArrayAssumption DEF Cells
    <3>2. Covered(s) = {}
      BY <1>3, <2>1, <3>1 DEF OnStack
    <3>3. QED
      BY <1>1, <1>a, <3>2 DEF MayDescribe
  <2>4. QED
    BY <2>2, <2>3
<1>4. QED
  BY <1>2, <1>3

\* What any frame may describe, the running one may.
LEMMA DescribeUp ==
  ASSUME TypeOK, NEW d \in 0 .. depth, NEW s, MayDescribe(d, s)
  PROVE  MayDescribe(depth, s)
<1>1. depth \in Nat
  BY DEF TypeOK
<1>2. 0 .. d \subseteq 0 .. depth
  BY <1>1
<1>3. QED
  BY <1>2 DEF MayDescribe

\* The slice of an array that exists.
LEMMA ArraySlice ==
  ASSUME TypeOK, Frames, NEW d \in 0 .. depth, NEW i \in 0 .. MaxIndex
  PROVE  /\ Slice(Base(d), ARRAY_N(d), i) \in SliceType
         /\ MayDescribe(depth, Slice(Base(d), ARRAY_N(d), i))
<1>1. Base(d) \in HeapBase .. StackTop /\ ARRAY_N(d) \in 0 .. StackTop /\ i \in Index
  BY Layout, LocalArrayAssumption DEF Index
<1>2. Slice(Base(d), ARRAY_N(d), i) \in SliceType
  BY <1>1 DEF Slice, SliceType
<1>3. Covered(Slice(Base(d), ARRAY_N(d), i)) \subseteq Cells(d)
  BY DEF Slice, Covered, Cells
<1>4. QED
  BY <1>2, <1>3 DEF MayDescribe

LEMMA NullSlice ==
  /\ NoSlice \in SliceType /\ NoSlice.data = NULL
  /\ NoLaptr \in LaptrType /\ ~NoLaptr.live
<1>1. NoSlice \in SliceType /\ NoSlice.data = NULL
  BY LocalArrayAssumption DEF NoSlice, Slice, SliceType, Index, NULL
<1>2. QED
  BY <1>1, LocalArrayAssumption DEF NoLaptr, LaptrType

\* A constructor reads a stack pointer at or below that of the running frame,
\* within the header when it runs in that frame.
LEMMA ReadsSP ==
  ASSUME TypeOK, NEW n \in Below, NEW sp \in GETSP(n)
  PROVE  /\ sp \in 0 .. StackTop /\ sp <= lo[depth] /\ lo[depth] \in Nat
         /\ n = 0 => sp \in lo[depth] - Header .. lo[depth]
<1>1. lo[depth] \in 0 .. StackTop /\ StackTop \in Nat /\ Header \in Nat /\ StackLimit \in Nat
  BY LocalArrayAssumption DEF TypeOK
<1>2. n \in Nat
  BY LocalArrayAssumption DEF Below
<1>3. sp \in lo[depth] - n - Header .. lo[depth] - n /\ sp >= StackLimit
  BY DEF GETSP
<1>4. QED
  BY <1>1, <1>2, <1>3

LEMMA ReadsOwn ==
  ASSUME TypeOK, NEW sp \in GETSP(0)
  PROVE  sp \in 0 .. StackTop /\ sp \in lo[depth] - Header .. lo[depth]
<1>1. 0 \in Below
  BY DEF Below
<1>2. QED
  BY <1>1, ReadsSP

-----------------------------------------------------------------------------
(***************************************************************************)
(* What one assignment to a variable does.                                 *)
(***************************************************************************)

\* One laptr variable of a live frame changes: the new slice may be described
\* by that frame, and the bound of an object built there is its own.
LEMMA StoreStep ==
  ASSUME IInv, NEW d \in 1 .. depth, NEW v \in LVar, NEW new \in LaptrType,
         la' = [la EXCEPT ![d][v] = new],
         UNCHANGED <<depth, lo, ga>>, aborted' \in BOOLEAN,
         MayDescribe(d, new.at),
         new.own => new.sp \in lo[d] - Header .. lo[d]
  PROVE  IInv'
<1> USE DEF IInv
<1>0. depth \in Nat /\ 1 .. depth \subseteq 1 .. MaxDepth /\ d \in 1 .. MaxDepth
      /\ depth + 1 .. MaxDepth \subseteq 1 .. MaxDepth /\ d \notin depth + 1 .. MaxDepth
  BY LocalArrayAssumption DEF TypeOK
<1>a. \A e \in 1 .. MaxDepth, u \in LVar :
        la'[e][u] = IF e = d /\ u = v THEN new ELSE la[e][u]
  BY <1>0 DEF TypeOK
<1>b. \A e, s : MayDescribe(e, s)' = MayDescribe(e, s)
  BY DEF MayDescribe, Covered, Cells, Base, ARRAY_N
<1>1. TypeOK'
  BY <1>0 DEF TypeOK, LaptrType
<1>2. Frames'
  BY DEF Frames
<1>3. DeadAbove'
  BY <1>0, <1>a DEF DeadAbove
<1>4. OwnBound'
  BY <1>0, <1>a DEF OwnBound
<1>5. Contained'
  BY <1>0, <1>a, <1>b DEF Contained
<1>6. QED
  BY <1>1, <1>2, <1>3, <1>4, <1>5

\* One aptr variable changes: the new slice describes no array on the stack.
LEMMA AptrStep ==
  ASSUME IInv, NEW p \in AVar, NEW s \in SliceType,
         ga' = [ga EXCEPT ![p] = s],
         UNCHANGED <<depth, lo, la>>, aborted' \in BOOLEAN,
         MayDescribe(0, s)
  PROVE  IInv'
<1> USE DEF IInv
<1>a. \A e, t : MayDescribe(e, t)' = MayDescribe(e, t)
  BY DEF MayDescribe, Covered, Cells, Base, ARRAY_N
<1>1. TypeOK'
  BY DEF TypeOK
<1>2. Frames' /\ DeadAbove' /\ OwnBound'
  BY DEF Frames, DeadAbove, OwnBound
<1>3. Contained'
  <2>1. \A q \in AVar : MayDescribe(0, ga'[q])
    BY DEF Contained, TypeOK
  <2>2. QED
    BY <1>a, <2>1 DEF Contained
<1>4. QED
  BY <1>1, <1>2, <1>3

\* An assert that fails, or an access, changes no pointer.
LEMMA StopStep ==
  ASSUME IInv, UNCHANGED <<depth, lo, la, ga>>, aborted' \in BOOLEAN
  PROVE  IInv'
<1> USE DEF IInv
<1>a. \A e, t : MayDescribe(e, t)' = MayDescribe(e, t)
  BY DEF MayDescribe, Covered, Cells, Base, ARRAY_N
<1>1. TypeOK'
  BY DEF TypeOK
<1>2. Frames' /\ DeadAbove' /\ OwnBound'
  BY DEF Frames, DeadAbove, OwnBound
<1>3. Contained'
  BY <1>a DEF Contained
<1>4. QED
  BY <1>1, <1>2, <1>3

\* A constructor of the running function keeps the invariant.
LEMMA BuildStep ==
  ASSUME IInv, NEW v \in LVar, NEW s \in SliceType, MayDescribe(depth, s),
         NEW n \in Below, NEW sp \in GETSP(n), NEW bit \in {0, 1},
         NewLaptr(v, s, n, sp, bit)
  PROVE  IInv'
<1>1. depth \in 1 .. depth
  BY LocalArrayAssumption DEF IInv, TypeOK
<1>2. PICK new : new = Laptr(s, sp, bit, n = 0)
  OBVIOUS
<1>3. new \in LaptrType /\ new.at = s /\ new.sp = sp /\ new.own = (n = 0)
  BY <1>2, ReadsSP DEF IInv, Laptr, LaptrType
<1>4. new.own => new.sp \in lo[depth] - Header .. lo[depth]
  BY <1>3, ReadsSP DEF IInv
<1>5. la' = [la EXCEPT ![depth][v] = new] /\ UNCHANGED <<depth, lo, ga>> /\ aborted' \in BOOLEAN
  BY <1>2 DEF NewLaptr, IInv, TypeOK
<1>6. QED
  BY <1>1, <1>3, <1>4, <1>5, StoreStep

\* laptr::operator= keeps the invariant whatever object it copies from.
LEMMA AssignStep ==
  ASSUME IInv, NEW d \in 1 .. depth, NEW v \in LVar, NEW other, Source(other),
         AssignFrom(d, v, other)
  PROVE  IInv'
<1> USE DEF IInv
<1>0. /\ depth \in Nat /\ d \in 1 .. MaxDepth /\ d \in 0 .. depth /\ Header \in Nat
      /\ 0 .. depth \subseteq 0 .. MaxDepth
  BY LocalArrayAssumption DEF TypeOK
<1>a. la[d][v] \in LaptrType /\ other.at \in SliceType /\ other.bit \in {0, 1}
  BY <1>0 DEF TypeOK, LaptrType, Source
<1>1. CASE ~AssignOK(la[d][v], other)
  BY <1>1, StopStep DEF AssignFrom, TypeOK
<1>2. CASE AssignOK(la[d][v], other)
  <2>1. PICK new : new = Assigned(la[d][v], other)
    OBVIOUS
  <2>2. PICK thru : thru = Through(other)
    OBVIOUS
  <2>3. /\ thru \in SliceType /\ MayDescribe(depth, thru)
        /\ thru.data = other.at.data /\ thru.size = other.at.size
        /\ other.bit = 1 => MayDescribe(0, thru)
    <3>1. thru = Out(other.at, other.bit = 1)
      BY <2>2 DEF Through
    <3>2. other.bit = 1 => thru = Out(other.at, TRUE)
      BY <3>1
    <3>3. MayDescribe(depth, other.at)
      BY DEF Source
    <3>4. QED
      BY <1>a, <3>1, <3>2, <3>3, OutFields, OutDescribes, OffStack
  <2>4. /\ new \in LaptrType /\ new.at = Out(thru, ~la[d][v].own)
        /\ new.sp = la[d][v].sp /\ new.own = la[d][v].own
    <3>1. new = [la[d][v] EXCEPT !.at = Out(thru, ~la[d][v].own), !.bit = 1]
      BY <2>1, <2>2 DEF Assigned
    <3>2. Out(thru, ~la[d][v].own) \in SliceType
      BY <1>a, <2>3, OutFields DEF LaptrType
    <3>3. QED
      BY <1>a, <3>1, <3>2 DEF LaptrType
  <2>5. MayDescribe(d, new.at)
    <3>1. CASE ~la[d][v].own
      <4>1. MayDescribe(0, Out(thru, TRUE)) /\ new.at = Out(thru, TRUE)
        BY <2>3, <2>4, <3>1, OffStack
      <4>2. 0 .. 0 \subseteq 0 .. d
        BY <1>0
      <4>3. QED
        BY <4>1, <4>2 DEF MayDescribe
    <3>2. CASE la[d][v].own
      <4>1. MayDescribe(d, thru)
        <5>1. CASE other.bit = 1
          <6>1. 0 .. 0 \subseteq 0 .. d
            BY <1>0
          <6>2. QED
            BY <2>3, <5>1, <6>1 DEF MayDescribe
        <5>2. CASE other.bit = 0 /\ ~(thru.data = NULL \/ thru.out)
          <6>1. la[d][v].sp <= thru.data
            <7>1. la[d][v].sp + (1 - la[d][v].bit) <= thru.data
              BY <1>2, <2>3, <5>2 DEF AssignOK
            <7>2. la[d][v].sp \in Nat /\ la[d][v].bit \in {0, 1} /\ thru.data \in Int
              BY <1>a, <2>3, LocalArrayAssumption DEF LaptrType, SliceType, NULL
            <7>3. QED
              BY <7>1, <7>2
          <6>2. la[d][v].sp >= lo[d] - Header /\ la[d][v].sp \in Int /\ lo[d] \in Nat
            <7>1. la[d][v].live
              BY DEF AssignFrom
            <7>2. lo[d] \in Nat
              BY <1>0, LocalArrayAssumption DEF TypeOK
            <7>3. QED
              BY <3>2, <7>1, <7>2, <1>0 DEF OwnBound
          <6>3. PICK e \in 0 .. depth : Covered(thru) \subseteq Cells(e)
            BY <2>3, <5>2 DEF MayDescribe
          <6>4. CASE e \in 0 .. d
            BY <6>3, <6>4 DEF MayDescribe
          <6>5. CASE e > d
            <7>1. e - 1 \in 0 .. depth /\ e # 0 /\ d <= e - 1
              BY <1>0, <6>5
            <7>2. lo[e - 1] <= lo[d] /\ lo[e - 1] \in Nat
              <8>1. lo[e - 1] \in Nat
                BY <1>0, <7>1, LocalArrayAssumption DEF TypeOK
              <8>2. QED
                BY <1>0, <6>2, <7>1, <8>1 DEF Frames
            <7>3. \A a \in Cells(e) : a < lo[e - 1] - Header
              <8>1. Base(e) \in Nat /\ Base(e) + ARRAY_N(e) = lo[e - 1] - Header
                BY <7>1, Layout, LocalArrayAssumption
              <8>2. ARRAY_N(e) \in Nat
                BY Layout, LocalArrayAssumption
              <8>3. QED
                BY <8>1, <8>2 DEF Cells
            <7>4. Covered(thru) = {}
              <8>1. thru.size \in Nat /\ thru.data \in Int
                BY <2>3, LocalArrayAssumption DEF SliceType, NULL
              <8>2. thru.data \notin Covered(thru)
                BY <1>0, <6>1, <6>2, <6>3, <7>2, <7>3, <8>1
              <8>3. QED
                BY <5>2, <8>1, <8>2 DEF Covered
            <7>5. 0 \in 0 .. d
              BY <1>0
            <7>6. QED
              BY <7>4, <7>5 DEF MayDescribe
          <6>6. QED
            BY <1>0, <6>4, <6>5
        <5>3. CASE thru.data = NULL \/ thru.out
          BY <5>3 DEF MayDescribe
        <5>4. QED
          BY <1>a, <5>1, <5>2, <5>3
      <4>2. QED
        BY <1>a, <2>3, <2>4, <4>1, OutDescribes DEF LaptrType
    <3>3. QED
      BY <3>1, <3>2
  <2>6. new.own => new.sp \in lo[d] - Header .. lo[d]
    BY <2>4 DEF OwnBound, AssignFrom
  <2>7. /\ la' = [la EXCEPT ![d][v] = new]
        /\ UNCHANGED <<depth, lo, ga>> /\ aborted' \in BOOLEAN
    BY <1>2, <2>1 DEF AssignFrom, TypeOK
  <2>8. QED
    BY <2>4, <2>5, <2>6, <2>7, StoreStep
<1>3. QED
  BY <1>1, <1>2

-----------------------------------------------------------------------------
(***************************************************************************)
(* Frames.                                                                 *)
(***************************************************************************)

\* What describes an array of the frames up to d is not affected by a frame
\* that comes or goes below them.
LEMMA SameArrays ==
  ASSUME NEW d \in Nat, \A e \in 0 .. d : lo'[e] = lo[e]
  PROVE  \A e \in 0 .. d : \A s : MayDescribe(e, s)' = MayDescribe(e, s)
<1>1. ASSUME NEW e \in 0 .. d PROVE Cells(e)' = Cells(e)
  <2>1. CASE e = 0
    BY <2>1 DEF Cells, Base, ARRAY_N
  <2>2. CASE e # 0
    <3>1. e - 1 \in 0 .. d
      BY <2>2
    <3>2. lo'[e] = lo[e] /\ lo'[e - 1] = lo[e - 1]
      BY <3>1
    <3>3. QED
      BY <2>2, <3>2 DEF Cells, Base, ARRAY_N
  <2>3. QED
    BY <2>1, <2>2
<1>2. \A e \in 0 .. d : 0 .. e \subseteq 0 .. d
  OBVIOUS
<1>3. ASSUME NEW e \in 0 .. d, NEW s PROVE MayDescribe(e, s)' = MayDescribe(e, s)
  <2>1. Covered(s)' = Covered(s)
    BY DEF Covered
  <2>2. QED
    BY <1>1, <1>2, <2>1 DEF MayDescribe
<1>4. QED
  BY <1>3

LEMMA CallStep ==
  ASSUME IInv, NEW n \in FrameSizes, Call(n)
  PROVE  IInv'
<1> USE DEF IInv
<1>0. /\ depth \in Nat /\ depth' = depth + 1 /\ depth' \in 1 .. MaxDepth
      /\ n \in Nat /\ n > Header /\ Header \in Nat /\ StackTop \in Nat
      /\ 0 .. depth \subseteq 0 .. MaxDepth /\ lo[depth] \in Nat
      /\ lo[depth] - n \in 0 .. StackTop
  <2>1. depth \in Nat /\ depth \in 0 .. MaxDepth /\ StackTop \in Nat /\ StackLimit \in Nat
    BY LocalArrayAssumption DEF TypeOK
  <2>2. lo[depth] \in 0 .. StackTop
    BY <2>1 DEF TypeOK
  <2>3. QED
    BY <2>1, <2>2, LocalArrayAssumption DEF TypeOK, Call
<1>a. \A e \in 0 .. MaxDepth : lo'[e] = IF e = depth' THEN lo[depth] - n ELSE lo[e]
  BY <1>0 DEF TypeOK, Call
<1>b. \A e \in 0 .. depth : lo'[e] = lo[e]
  BY <1>0, <1>a
<1>c. \A e \in 0 .. depth : \A s : MayDescribe(e, s)' = MayDescribe(e, s)
  BY <1>0, <1>b, SameArrays
<1>d. la' = la /\ ga' = ga /\ aborted' = aborted
  BY DEF Call
<1>e. \A v \in LVar : ~la[depth'][v].live
  BY <1>0 DEF DeadAbove
<1>f. \A e \in 1 .. depth' : e = depth' \/ e \in 1 .. depth
  BY <1>0
<1>1. TypeOK'
  BY <1>0, <1>d DEF TypeOK, Call
<1>2. Frames'
  <2>1. lo'[0] = StackTop
    BY <1>0, <1>b DEF Frames
  <2>2. \A d \in 1 .. depth' : lo'[d] >= StackLimit + Header
    BY <1>0, <1>a, <1>b, <1>f DEF Frames, Call
  <2>3. ASSUME NEW d \in 0 .. depth', NEW e \in 0 .. depth', d < e
        PROVE  lo'[e] + Header < lo'[d]
    <3>1. d \in 0 .. depth /\ lo'[d] = lo[d] /\ lo[d] \in Nat
      <4>1. d \in 0 .. depth
        BY <1>0, <2>3
      <4>2. QED
        BY <1>0, <1>b, <4>1, LocalArrayAssumption DEF TypeOK
    <3>2. CASE e = depth'
      <4>1. lo'[e] = lo[depth] - n
        BY <1>0, <1>a, <3>2
      <4>2. lo[depth] <= lo[d]
        BY <1>0, <3>1 DEF Frames
      <4>3. QED
        BY <1>0, <3>1, <4>1, <4>2
    <3>3. CASE e \in 0 .. depth
      BY <1>0, <1>b, <2>3, <3>1, <3>3 DEF Frames
    <3>4. QED
      BY <1>0, <3>2, <3>3
  <2>4. QED
    BY <2>1, <2>2, <2>3 DEF Frames
<1>3. DeadAbove'
  BY <1>0, <1>d DEF DeadAbove
<1>4. OwnBound'
  BY <1>0, <1>b, <1>d, <1>e, <1>f DEF OwnBound
<1>5. Contained'
  BY <1>0, <1>c, <1>d, <1>e, <1>f DEF Contained
<1>6. QED
  BY <1>1, <1>2, <1>3, <1>4, <1>5

\* Popping the running frame keeps the invariant.
LEMMA ReturnStep ==
  ASSUME IInv, depth > 1, depth' = depth - 1,
         lo' = [lo EXCEPT ![depth] = 0],
         la' = [la EXCEPT ![depth] = [v \in LVar |-> NoLaptr]],
         UNCHANGED <<ga, aborted>>
  PROVE  IInv'
<1> USE DEF IInv
<1>0. /\ depth \in Nat /\ depth \in 1 .. MaxDepth /\ 1 .. depth' \subseteq 1 .. depth
      /\ 0 .. depth' \subseteq 0 .. depth /\ depth \notin 0 .. depth' /\ depth' \in Nat
      /\ 0 .. depth' \subseteq 0 .. MaxDepth /\ 1 .. depth' \subseteq 1 .. MaxDepth
      /\ 0 \in 0 .. StackTop /\ 1 .. depth' \subseteq 0 .. depth' /\ 0 \in 0 .. depth'
  BY LocalArrayAssumption DEF TypeOK
<1>a. \A e \in 0 .. depth' : lo'[e] = lo[e]
  BY <1>0 DEF TypeOK
<1>b. \A e \in 1 .. depth' : la'[e] = la[e]
  BY <1>0 DEF TypeOK
<1>c. \A e \in 0 .. depth' : \A s : MayDescribe(e, s)' = MayDescribe(e, s)
  BY <1>0, <1>a, SameArrays
<1>1. TypeOK'
  BY <1>0, NullSlice DEF TypeOK, LaptrType
<1>2. Frames'
  BY <1>0, <1>a DEF Frames
<1>3. DeadAbove'
  <2>1. \A e \in depth' + 1 .. MaxDepth : e = depth \/ e \in depth + 1 .. MaxDepth
    BY <1>0
  <2>2. \A e \in 1 .. MaxDepth, v \in LVar :
          la'[e][v] = IF e = depth THEN NoLaptr ELSE la[e][v]
    BY <1>0 DEF TypeOK
  <2>3. \A e \in depth' + 1 .. MaxDepth : e \in 1 .. MaxDepth
    BY <1>0
  <2>4. QED
    BY <2>1, <2>2, <2>3, NullSlice DEF DeadAbove
<1>4. OwnBound'
  BY <1>0, <1>a, <1>b DEF OwnBound
<1>5. Contained'
  BY <1>0, <1>b, <1>c DEF Contained
<1>6. QED
  BY <1>1, <1>2, <1>3, <1>4, <1>5

\* The frame is popped while the value goes to a variable of the caller: this
\* is a Return and a constructor that did not run in the caller's frame.
LEMMA ReturnLaptrStep ==
  ASSUME IInv, NEW v \in LVar, NEW u \in LVar, ReturnLaptr(v, u)
  PROVE  IInv'
<1> USE DEF IInv
<1>0. /\ depth \in Nat /\ depth > 1 /\ depth' = depth - 1 /\ depth' \in 1 .. depth'
      /\ depth \in 1 .. MaxDepth /\ 1 .. depth' \subseteq 1 .. depth
      /\ 0 .. depth' \subseteq 0 .. depth /\ depth \notin 0 .. depth' /\ depth' \in Nat
      /\ 0 .. depth' \subseteq 0 .. MaxDepth /\ 1 .. depth' \subseteq 1 .. MaxDepth
      /\ 0 \in 0 .. StackTop /\ 1 .. depth' \subseteq 0 .. depth' /\ 0 \in 0 .. depth'
      /\ depth \in 1 .. depth /\ depth' \in 1 .. MaxDepth
  BY LocalArrayAssumption DEF TypeOK, ReturnLaptr
<1>s. PICK s : s = Out(la[depth][v].at, TRUE)
  OBVIOUS
<1>t. s \in SliceType /\ MayDescribe(0, s)
  <2>1. la[depth][v].at \in SliceType
    BY <1>0 DEF TypeOK
  <2>2. MayDescribe(depth, la[depth][v].at)
    BY <1>0 DEF Contained, ReturnLaptr
  <2>3. QED
    BY <1>s, <2>1, <2>2, OutFields, OffStack
<1>p. PICK sp \in GETSP(0) :
        la' = [la EXCEPT ![depth] = [w \in LVar |-> NoLaptr],
                         ![depth - 1][u] = Laptr(Out(la[depth][v].at, TRUE), sp, 0, FALSE)]
  BY DEF ReturnLaptr
<1>n. PICK new : new = Laptr(s, sp, 0, FALSE)
  OBVIOUS
<1>q. new \in LaptrType /\ new.at = s /\ ~new.own
  BY <1>n, <1>t, ReadsOwn DEF Laptr, LaptrType
<1>a. \A e \in 1 .. MaxDepth, w \in LVar :
        la'[e][w] = IF e = depth THEN NoLaptr
                    ELSE IF e = depth' /\ w = u THEN new ELSE la[e][w]
  BY <1>0, <1>p, <1>s, <1>n DEF TypeOK
<1>b. \A e \in 0 .. depth' : lo'[e] = lo[e]
  BY <1>0 DEF TypeOK, ReturnLaptr
<1>c. \A e \in 0 .. depth' : \A r : MayDescribe(e, r)' = MayDescribe(e, r)
  BY <1>0, <1>b, SameArrays
<1>1. TypeOK'
  <2>1. la' \in [1 .. MaxDepth -> [LVar -> LaptrType]]
    BY <1>0, <1>p, <1>s, <1>n, <1>q, NullSlice DEF TypeOK, LaptrType
  <2>2. QED
    BY <1>0, <2>1 DEF TypeOK, LaptrType, ReturnLaptr
<1>2. Frames'
  BY <1>0, <1>b DEF Frames
<1>3. DeadAbove'
  <2>1. \A e \in depth' + 1 .. MaxDepth :
          e \in 1 .. MaxDepth /\ e # depth' /\ (e = depth \/ e \in depth + 1 .. MaxDepth)
    BY <1>0
  <2>2. QED
    BY <1>a, <2>1, NullSlice DEF DeadAbove
<1>4. OwnBound'
  BY <1>0, <1>a, <1>b, <1>q DEF OwnBound
<1>5. Contained'
  <2>1. MayDescribe(depth', s)
    <3>1. 0 .. 0 \subseteq 0 .. depth'
      BY <1>0
    <3>2. QED
      BY <1>t, <3>1 DEF MayDescribe
  <2>2. \A e \in 1 .. depth', w \in LVar : la'[e][w].live => MayDescribe(e, la'[e][w].at)
    BY <1>0, <1>a, <1>q, <2>1 DEF Contained
  <2>3. \A p \in AVar : MayDescribe(0, ga'[p])
    BY DEF Contained, ReturnLaptr
  <2>4. QED
    BY <1>0, <1>c, <2>2, <2>3 DEF Contained
<1>6. QED
  BY <1>1, <1>2, <1>3, <1>4, <1>5

-----------------------------------------------------------------------------
LEMMA InitIInv == Init => IInv
<1> SUFFICES ASSUME Init PROVE IInv
  OBVIOUS
<1>1. PICK n \in FrameSizes :
        /\ StackTop - n >= StackLimit + Header
        /\ lo = [d \in 0 .. MaxDepth |-> CASE d = 0 -> StackTop
                                           [] d = 1 -> StackTop - n
                                           [] OTHER -> 0]
  BY DEF Init
<1>2. n \in Nat /\ n > Header /\ Header \in Nat
  BY LocalArrayAssumption
<1>3. lo[0] = StackTop /\ lo[1] = StackTop - n /\ depth = 1
  <2>1. 0 \in 0 .. MaxDepth /\ 1 \in 0 .. MaxDepth
    BY LocalArrayAssumption
  <2>2. QED
    BY <1>1, <2>1 DEF Init
<1>4. TypeOK
  <2>1. lo \in [0 .. MaxDepth -> 0 .. StackTop]
    BY <1>1, <1>2, LocalArrayAssumption
  <2>2. depth \in 1 .. MaxDepth
    BY <1>3, LocalArrayAssumption
  <2>3. QED
    BY <2>1, <2>2, NullSlice DEF TypeOK, Init, LaptrType
<1>5. Frames
  BY <1>1, <1>2, <1>3, LocalArrayAssumption DEF Frames
<1>6. \A d \in 1 .. MaxDepth, v \in LVar : ~la[d][v].live
  BY NullSlice DEF Init
<1>7. 1 .. depth \subseteq 1 .. MaxDepth /\ depth + 1 .. MaxDepth \subseteq 1 .. MaxDepth
  BY <1>3, LocalArrayAssumption
<1>8. \A p \in AVar : MayDescribe(0, ga[p])
  BY NullSlice DEF Init, MayDescribe
<1>9. QED
  BY <1>4, <1>5, <1>6, <1>7, <1>8 DEF IInv, DeadAbove, OwnBound, Contained

\* A constructor or assignment from an array: the value that operator laptr
\* builds describes that array.
LEMMA FromArray ==
  ASSUME IInv, NEW d \in 0 .. depth, NEW n \in Below, NEW sp \in GETSP(n)
  PROVE  /\ Source(ArrayLaptr(d, sp))
         /\ ArrayLaptr(d, sp).at \in SliceType /\ MayDescribe(depth, ArrayLaptr(d, sp).at)
         /\ ArrayLaptr(d, sp).bit \in {0, 1}
<1> USE DEF IInv
<1>1. 0 \in 0 .. MaxIndex
  BY LocalArrayAssumption
<1>2. PICK s : s = Slice(Base(d), ARRAY_N(d), 0)
  OBVIOUS
<1>3. s \in SliceType /\ MayDescribe(depth, s)
  BY <1>1, <1>2, ArraySlice
<1>4. PICK b : b = IF dataNotOnStack(Base(d), sp) THEN 1 ELSE 0
  OBVIOUS
<1>5. ArrayLaptr(d, sp) = [live |-> TRUE, at |-> s, sp |-> sp, bit |-> b, own |-> FALSE]
  BY <1>2, <1>4 DEF ArrayLaptr, Laptr
<1>6. b \in {0, 1} /\ sp \in 0 .. StackTop
  BY <1>4, ReadsSP
<1>7. QED
  BY <1>3, <1>5, <1>6 DEF Source, LaptrType

\* getAptr: an array of the stack that passes the check lies at the stack
\* pointer itself, and is out.
LEMMA GetAptrStep ==
  ASSUME IInv, NEW p \in AVar, NEW d \in 0 .. depth, NEW i \in 0 .. MaxIndex, getAptr(p, d, i)
  PROVE  IInv'
<1> USE DEF IInv
<1>a. PICK n \in Below : \E sp \in GETSP(n) :
        SetAptr(p, i < ARRAY_N(d) /\ dataNotOnStack(Base(d), sp),
                Out(Slice(Base(d), ARRAY_N(d), i), Base(d) = sp))
  BY DEF getAptr
<1>1. PICK sp \in GETSP(n) :
        SetAptr(p, i < ARRAY_N(d) /\ dataNotOnStack(Base(d), sp),
                Out(Slice(Base(d), ARRAY_N(d), i), Base(d) = sp))
  BY <1>a
<1>2. PICK s : s = Slice(Base(d), ARRAY_N(d), i)
  OBVIOUS
<1>3. s \in SliceType /\ MayDescribe(depth, s) /\ s.data = Base(d) /\ s.size = ARRAY_N(d)
  BY <1>2, ArraySlice DEF Slice
<1>4. PICK t : t = Out(s, Base(d) = sp)
  OBVIOUS
<1>5. t \in SliceType
  BY <1>3, <1>4, OutFields
<1>6. PICK ok \in BOOLEAN : ok = (i < ARRAY_N(d) /\ dataNotOnStack(Base(d), sp))
  OBVIOUS
<1>7. SetAptr(p, ok, t)
  BY <1>1, <1>2, <1>4, <1>6
<1>8. CASE ~ok
  BY <1>7, <1>8, StopStep DEF SetAptr
<1>9. CASE ok
  <2>1. CASE d = 0
    <3>1. Covered(s) = Cells(0) /\ Covered(t) = Covered(s)
      BY <1>3, <1>4, <2>1, OutFields, Layout DEF Covered, Cells
    <3>2. MayDescribe(0, t)
      BY <3>1 DEF MayDescribe
    <3>3. QED
      BY <1>5, <1>7, <1>9, <3>2, AptrStep DEF SetAptr, TypeOK
  <2>2. CASE d # 0
    <3>1. Base(d) >= lo[depth] /\ sp <= lo[depth] /\ Base(d) <= sp
      BY <1>6, <1>9, <2>2, Layout, ReadsSP DEF dataNotOnStack
    <3>2. Base(d) = sp
      BY <3>1, Layout, ReadsSP, LocalArrayAssumption
    <3>3. MayDescribe(0, Out(s, TRUE)) /\ t = Out(s, TRUE)
      BY <1>3, <1>4, <3>2, OffStack
    <3>4. QED
      BY <1>5, <1>7, <1>9, <3>3, AptrStep DEF SetAptr, TypeOK
  <2>3. QED
    BY <2>1, <2>2
<1>10. QED
  BY <1>8, <1>9

LEMMA NextIInv ==
  ASSUME IInv, [Next]_vars
  PROVE  IInv'
<1> USE DEF IInv
<1>0. depth \in Nat /\ depth \in 0 .. depth /\ 1 .. depth \subseteq 0 .. depth
      /\ depth \in 1 .. depth /\ 1 .. depth \subseteq 1 .. MaxDepth /\ 0 \in 0 .. depth
  BY LocalArrayAssumption DEF TypeOK
<1>a. \A d \in 1 .. depth, v \in LVar :
        la[d][v] \in LaptrType /\ la[d][v].at \in SliceType /\ la[d][v].bit \in {0, 1}
        /\ (la[d][v].live => MayDescribe(depth, la[d][v].at) /\ Source(la[d][v]))
  <2>1. ASSUME NEW d \in 1 .. depth, NEW v \in LVar
        PROVE  la[d][v] \in LaptrType /\ la[d][v].at \in SliceType /\ la[d][v].bit \in {0, 1}
    <3>1. la[d][v] \in LaptrType
      BY <1>0 DEF TypeOK, LaptrType
    <3>2. QED
      BY <3>1 DEF LaptrType
  <2>2. ASSUME NEW d \in 1 .. depth, NEW v \in LVar, la[d][v].live
        PROVE  MayDescribe(depth, la[d][v].at)
    <3>1. MayDescribe(d, la[d][v].at) /\ d \in 0 .. depth
      BY <1>0, <2>2 DEF Contained
    <3>2. QED
      BY <3>1, DescribeUp
  <2>3. QED
    BY <2>1, <2>2 DEF Source
<1>b. \A p \in AVar : ga[p] \in SliceType /\ MayDescribe(0, ga[p]) /\ MayDescribe(depth, ga[p])
  <2>1. \A p \in AVar : ga[p] \in SliceType /\ MayDescribe(0, ga[p])
    BY DEF TypeOK, Contained
  <2>2. QED
    BY <1>0, <2>1, DescribeUp
<1>1. CASE \E n \in FrameSizes : Call(n)
  BY <1>1, CallStep
<1>2. CASE Return
  BY <1>2, ReturnStep DEF Return
<1>3. CASE \E v, u \in LVar : ReturnLaptr(v, u)
  BY <1>3, ReturnLaptrStep
<1>4. ASSUME NEW v \in LVar, Declare(v)
      PROVE  IInv'
  <2>1. 0 \in Below /\ MayDescribe(depth, NoSlice)
    BY NullSlice DEF Below, MayDescribe
  <2>2. QED
    BY <1>4, <2>1, NullSlice, BuildStep DEF Declare
<1>5. ASSUME NEW v \in LVar, NEW d \in 0 .. depth, DeclareFromArray(v, d)
      PROVE  IInv'
  <2>a. PICK n \in Below : \E sp \in GETSP(n) :
          NewLaptr(v, ArrayLaptr(d, sp).at, n, sp, ArrayLaptr(d, sp).bit)
    BY <1>5 DEF DeclareFromArray
  <2>b. PICK sp \in GETSP(n) :
          NewLaptr(v, ArrayLaptr(d, sp).at, n, sp, ArrayLaptr(d, sp).bit)
    BY <2>a
  <2>2. QED
    BY <2>b, FromArray, BuildStep
<1>6. ASSUME NEW v \in LVar, NEW d \in 0 .. depth, NEW i \in 0 .. MaxIndex, DeclarePlus(v, d, i)
      PROVE  IInv'
  <2>a. PICK n \in Below : \E sp \in GETSP(n) :
          NewLaptr(v, Slice(Base(d), ARRAY_N(d), i), n, sp, 0)
    BY <1>6 DEF DeclarePlus
  <2>b. PICK sp \in GETSP(n) :
          NewLaptr(v, Slice(Base(d), ARRAY_N(d), i), n, sp, 0)
    BY <2>a
  <2>2. QED
    BY <2>b, ArraySlice, BuildStep
<1>7. ASSUME NEW v \in LVar, NEW d \in 0 .. depth, NEW i \in 0 .. MaxIndex, DeclareOffset(v, d, i)
      PROVE  IInv'
  <2>1. CASE i < ARRAY_N(d) /\ DeclarePlus(v, d, i)
    BY <1>6, <2>1
  <2>2. CASE UNCHANGED <<depth, lo, la, ga>> /\ aborted' = TRUE
    BY <2>2, StopStep
  <2>3. QED
    BY <1>7, <2>1, <2>2 DEF DeclareOffset
<1>8. ASSUME NEW v \in LVar, NEW p \in AVar, DeclareFromAptr(v, p)
      PROVE  IInv'
  <2>a. PICK n \in Below : \E sp \in GETSP(n) :
          NewLaptr(v, ga[p], n, sp, 1)
    BY <1>8 DEF DeclareFromAptr
  <2>b. PICK sp \in GETSP(n) :
          NewLaptr(v, ga[p], n, sp, 1)
    BY <2>a
  <2>2. QED
    BY <1>b, <2>b, BuildStep
<1>9. ASSUME NEW v \in LVar, NEW d \in 1 .. depth, NEW u \in LVar, NEW k \in {-1, 0, 1},
             DeclareShifted(v, d, u, k)
      PROVE  IInv'
  <2>1. PICK s : s = [la[d][u].at EXCEPT !.index = @ + k]
    OBVIOUS
  <2>2. la[d][u].live /\ la[d][u].at.index + k \in Index
    BY <1>9 DEF DeclareShifted
  <2>3. s \in SliceType /\ MayDescribe(depth, s)
    <3>1. s \in SliceType /\ s.data = la[d][u].at.data /\ s.size = la[d][u].at.size
          /\ s.out = la[d][u].at.out
      BY <1>a, <2>1, <2>2 DEF SliceType
    <3>2. Covered(s) = Covered(la[d][u].at)
      BY <3>1 DEF Covered
    <3>3. QED
      BY <1>a, <2>2, <3>1, <3>2 DEF MayDescribe
  <2>a. PICK n \in Below : \E sp \in GETSP(n) :
          NewLaptr(v, s, n, sp, 0)
    BY <1>9, <2>1 DEF DeclareShifted
  <2>b. PICK sp \in GETSP(n) :
          NewLaptr(v, s, n, sp, 0)
    BY <2>a
  <2>5. QED
    BY <2>3, <2>b, BuildStep
<1>10. ASSUME NEW d \in 1 .. depth, NEW v \in LVar, NEW k \in {-1, 1}, Advance(d, v, k)
       PROVE  IInv'
  <2>1. PICK new : new = [la[d][v] EXCEPT !.at.index = @ + k]
    OBVIOUS
  <2>2. la[d][v].live /\ la[d][v].at.index + k \in Index
    BY <1>10 DEF Advance
  <2>3. /\ new \in LaptrType /\ new.sp = la[d][v].sp /\ new.own = la[d][v].own
        /\ new.at.data = la[d][v].at.data /\ new.at.size = la[d][v].at.size
        /\ new.at.out = la[d][v].at.out
    BY <1>a, <2>1, <2>2 DEF LaptrType, SliceType
  <2>4. MayDescribe(d, new.at)
    <3>1. Covered(new.at) = Covered(la[d][v].at)
      BY <2>3 DEF Covered
    <3>2. QED
      BY <2>2, <2>3, <3>1 DEF MayDescribe, Contained
  <2>5. new.own => new.sp \in lo[d] - Header .. lo[d]
    BY <2>2, <2>3 DEF OwnBound
  <2>6. la' = [la EXCEPT ![d][v] = new] /\ UNCHANGED <<depth, lo, ga>> /\ aborted' \in BOOLEAN
    <3>1. d \in 1 .. MaxDepth
      BY <1>0
    <3>2. QED
      BY <1>10, <2>1, <3>1 DEF Advance, TypeOK
  <2>7. QED
    BY <2>3, <2>4, <2>5, <2>6, StoreStep
<1>11. ASSUME NEW d \in 1 .. depth, NEW v \in LVar, NEW ok \in BOOLEAN, Use(d, v, ok)
       PROVE  IInv'
  BY <1>11, StopStep DEF Use
<1>12. ASSUME NEW d \in 1 .. depth, NEW v \in LVar, Deref(d, v) \/ ToLptr(d, v)
       PROVE  IInv'
  BY <1>11, <1>12 DEF Deref, ToLptr, InBounds
<1>13. ASSUME NEW d \in 1 .. depth, NEW v \in LVar, NEW i \in 0 .. MaxIndex, Subscript(d, v, i)
       PROVE  IInv'
  BY <1>11, <1>13 DEF Subscript
<1>14. ASSUME NEW d \in 1 .. depth, NEW v \in LVar, NEW e \in 1 .. depth, NEW u \in LVar,
              Assign(d, v, e, u)
       PROVE  IInv'
  BY <1>14, <1>a, AssignStep DEF Assign
<1>15. ASSUME NEW d \in 1 .. depth, NEW v \in LVar, NEW e \in 0 .. depth, AssignArray(d, v, e)
       PROVE  IInv'
  BY <1>15, FromArray, AssignStep DEF AssignArray
<1>16. ASSUME NEW d \in 1 .. depth, NEW v \in LVar, NEW p \in AVar, AssignAptr(d, v, p)
       PROVE  IInv'
  <2>1. lo[depth] \in 0 .. StackTop
    <3>1. depth \in 0 .. MaxDepth
      BY <1>0 DEF TypeOK
    <3>2. QED
      BY <3>1 DEF TypeOK
  <2>2. Source(Laptr(ga[p], lo[depth], 1, FALSE))
    BY <1>b, <2>1 DEF Source, Laptr, LaptrType
  <2>3. QED
    BY <1>16, <2>2, AssignStep DEF AssignAptr
<1>17. ASSUME NEW p \in AVar, NEW d \in 1 .. depth, NEW v \in LVar, from_laptr(p, d, v)
       PROVE  IInv'
  <2>1. CASE la[d][v].bit = 1
    <3>1. Through(la[d][v]) = Out(la[d][v].at, TRUE)
      BY <2>1 DEF Through
    <3>2. Through(la[d][v]) \in SliceType /\ MayDescribe(0, Through(la[d][v]))
      BY <1>17, <1>a, <3>1, OutFields, OffStack DEF from_laptr
    <3>3. QED
      BY <1>17, <2>1, <3>2, AptrStep DEF from_laptr, SetAptr, TypeOK
  <2>2. CASE la[d][v].bit # 1
    BY <1>17, <2>2, StopStep DEF from_laptr, SetAptr
  <2>3. QED
    BY <2>1, <2>2
<1>18. ASSUME NEW d \in 0 .. depth, NEW i \in 0 .. MaxIndex, AccessArray(d, i)
       PROVE  IInv'
  BY <1>18, StopStep DEF AccessArray
<1>19. ASSUME NEW p \in AVar, NEW d \in 0 .. depth, NEW i \in 0 .. MaxIndex, getAptr(p, d, i)
       PROVE  IInv'
  BY <1>19, GetAptrStep
<1>20. ASSUME NEW p \in AVar, NEW q \in AVar, AptrAssign(p, q)
       PROVE  IInv'
  BY <1>20, <1>b, AptrStep DEF AptrAssign, SetAptr, TypeOK
<1>21. ASSUME NEW p \in AVar, AptrFree(p)
       PROVE  IInv'
  <2>1. PICK s : s = [ga[p] EXCEPT !.data = NULL]
    OBVIOUS
  <2>2. s \in SliceType /\ s.data = NULL
    BY <1>b, <2>1 DEF SliceType
  <2>3. MayDescribe(0, s)
    BY <2>2 DEF MayDescribe
  <2>4. QED
    BY <1>21, <2>1, <2>2, <2>3, AptrStep DEF AptrFree, SetAptr, TypeOK
<1>22. CASE UNCHANGED vars
  BY <1>22, StopStep DEF vars, TypeOK
<1>23. CASE Operation
  BY <1>23, <1>1, <1>2, <1>3, <1>4, <1>5, <1>6, <1>7, <1>8, <1>9, <1>10, <1>12, <1>13,
     <1>14, <1>15, <1>16, <1>17, <1>18, <1>19, <1>20, <1>21 DEF Operation
<1>24. QED
  BY <1>22, <1>23 DEF Next

LEMMA Invariance == Spec => []IInv
<1>1. Init => IInv
  BY InitIInv
<1>2. IInv /\ [Next]_vars => IInv'
  BY NextIInv
<1>3. QED
  BY <1>1, <1>2, PTL DEF Spec

-----------------------------------------------------------------------------
\* Every variable of the model keeps its type.
THEOREM ArrayTypes == Spec => []TypeOK
<1>1. IInv => TypeOK
  BY DEF IInv
<1>2. QED
  BY <1>1, Invariance, PTL

\* An laptr describes an array of its own or an older frame and an aptr none
\* on the stack, except through the doors that Contained names: a set bit over
\* an array on the stack, a return by value, and an assignment to an laptr
\* that a callee built.
THEOREM ArrayContainment == Spec => []Contained
<1>1. IInv => Contained
  BY DEF IInv
<1>2. QED
  BY <1>1, Invariance, PTL

\* What passes BOUNDS_CHECK or an assert of laptr, and did not get out, is a
\* cell of an array that exists.
THEOREM ArrayAccess == Spec => []AccessSafe
<1>1. ASSUME IInv PROVE AccessSafe
  <2>1. depth \in Nat
    BY <1>1 DEF IInv, TypeOK
  <2>2. ASSUME NEW s \in SliceType, NEW d \in 0 .. depth, MayDescribe(d, s),
               NEW i \in 0 .. MaxIndex, s.data # NULL, ~s.out, InBounds(s, i)
        PROVE  \E e \in 0 .. depth : s.data + s.index + i \in Cells(e)
    <3>1. s.data \in Int /\ s.size \in Int /\ s.index \in Int /\ i \in Int
      BY LocalArrayAssumption DEF SliceType, Index, NULL
    <3>2. s.data + s.index + i \in Covered(s)
      BY <2>2, <3>1 DEF InBounds, Covered
    <3>3. PICK e \in 0 .. d : Covered(s) \subseteq Cells(e)
      BY <2>2 DEF MayDescribe
    <3>4. e \in 0 .. depth
      BY <2>1
    <3>5. QED
      BY <3>2, <3>3, <3>4
  <2>3. ASSUME NEW d \in 1 .. depth, NEW v \in LVar, la[d][v].live
        PROVE  la[d][v].at \in SliceType /\ d \in 0 .. depth /\ MayDescribe(d, la[d][v].at)
    BY <1>1, <2>1, <2>3, LocalArrayAssumption DEF IInv, TypeOK, Contained
  <2>4. ASSUME NEW p \in AVar
        PROVE  ga[p] \in SliceType /\ 0 \in 0 .. depth /\ MayDescribe(0, ga[p])
    BY <1>1, <2>1 DEF IInv, TypeOK, Contained
  <2>5. QED
    BY <2>2, <2>3, <2>4 DEF AccessSafe
<1>2. QED
  BY <1>1, Invariance, PTL
=============================================================================
