---------------------------- MODULE MarkerProofs ----------------------------
(***************************************************************************)
(* Proofs about Marker, for every heap, every shape of its objects and     *)
(* every size of the mark stack, where the macro IS_UNCOLLECTABLE holds of *)
(* the kind UNCOLLECTABLE only and no PRECISE object begins where the mark *)
(* stack ends.                                                             *)
(***************************************************************************)
EXTENDS Marker, TLAPS

Entry == Obj \cup {STATIC}

\* The macro holds of no kind but UNCOLLECTABLE among the kinds in use.
KindsAgree == \A o \in Obj : IS_UNCOLLECTABLE(KindOf[o]) => KindOf[o] = UNCOLLECTABLE

\* GC_mark_from passes over no PRECISE object: none begins where the memory of
\* the mark stack may end.
LimitClear == \A o \in AtLimit \cap Obj : KindOf[o] # PRECISE

\* KindsAgree holds in the build without ATOMIC_UNCOLLECTABLE, and in the default build
\* for a program that has no precise objects.
LEMMA WhenKindsAgree ==
  ASSUME ATOMIC_UNCOLLECTABLE = FALSE \/ \A o \in Obj : KindOf[o] # PRECISE
  PROVE  KindsAgree
<1>1. CASE ATOMIC_UNCOLLECTABLE = FALSE
  BY <1>1 DEF KindsAgree, IS_UNCOLLECTABLE
<1>2. CASE \A o \in Obj : KindOf[o] # PRECISE
  <2>1. \A o \in Obj : KindOf[o] \in {0, 1, 2}
    BY <1>2, HeapAssumption DEF Kind, PTRFREE, NORMAL, UNCOLLECTABLE, PRECISE
  <2>2. (0 \div 2) * 2 = 0 /\ (1 \div 2) * 2 = 0
    OBVIOUS
  <2>3. QED
    BY <2>1, <2>2 DEF KindsAgree, IS_UNCOLLECTABLE, UNCOLLECTABLE
<1>3. QED
  BY <1>1, <1>2

\* The macro holds of UNCOLLECTABLE in every build.
LEMMA MacroHolds == IS_UNCOLLECTABLE(UNCOLLECTABLE)
<1>1. (2 \div 2) * 2 = 2
  OBVIOUS
<1>2. QED
  BY <1>1 DEF IS_UNCOLLECTABLE, UNCOLLECTABLE

\* The blocks and the roots are different nodes.
LEMMA Nodes ==
  /\ STATIC \in Node /\ STACK \in Node /\ STATIC # STACK
  /\ STATIC \notin Obj /\ STACK \notin Obj
  /\ Obj \subseteq Node /\ Entry \subseteq Node /\ Obj \subseteq Int
<1>1. Obj \subseteq Int
  BY HeapAssumption DEF Obj
<1>2. QED
  BY <1>1, HeapAssumption DEF Node, Roots, Entry

\* The mark stack as a sequence.
LEMMA AppendEntry ==
  ASSUME NEW S, NEW s \in Seq(S), NEW x \in S
  PROVE  /\ Append(s, x) \in Seq(S) /\ Len(Append(s, x)) = Len(s) + 1
         /\ {Append(s, x)[i] : i \in 1 .. Len(Append(s, x))} = {s[i] : i \in 1 .. Len(s)} \cup {x}
<1>1. Append(s, x) \in Seq(S) /\ Len(Append(s, x)) = Len(s) + 1 /\ Len(s) \in Nat
  OBVIOUS
<1>2. \A i \in 1 .. Len(s) : Append(s, x)[i] = s[i]
  OBVIOUS
<1>3. Append(s, x)[Len(s) + 1] = x
  OBVIOUS
<1>4. QED
  BY <1>1, <1>2, <1>3

\* A prefix of the mark stack.
LEMMA TakePrefix ==
  ASSUME NEW S, NEW s \in Seq(S), NEW k \in 0 .. Len(s)
  PROVE  /\ SubSeq(s, 1, k) \in Seq(S) /\ Len(SubSeq(s, 1, k)) = k
         /\ \A i \in 1 .. k : SubSeq(s, 1, k)[i] = s[i]
  OBVIOUS

\* The mark stack without its top entry.
LEMMA PopEntry ==
  ASSUME NEW S, NEW s \in Seq(S), s # <<>>
  PROVE  /\ SubSeq(s, 1, Len(s) - 1) \in Seq(S)
         /\ Len(SubSeq(s, 1, Len(s) - 1)) = Len(s) - 1
         /\ s[Len(s)] \in S
         /\ {s[i] : i \in 1 .. Len(s)} =
              {SubSeq(s, 1, Len(s) - 1)[i] : i \in 1 .. Len(SubSeq(s, 1, Len(s) - 1))}
                \cup {s[Len(s)]}
<1>1. Len(s) \in Nat /\ Len(s) # 0 /\ Len(s) - 1 \in 0 .. Len(s) /\ s[Len(s)] \in S
  OBVIOUS
<1>2. /\ SubSeq(s, 1, Len(s) - 1) \in Seq(S)
      /\ Len(SubSeq(s, 1, Len(s) - 1)) = Len(s) - 1
      /\ \A i \in 1 .. Len(s) - 1 : SubSeq(s, 1, Len(s) - 1)[i] = s[i]
  BY <1>1, TakePrefix
<1>3. QED
  BY <1>1, <1>2

\* PUSH_OBJ keeps the stack within its size, and loses no entry unless it
\* says so.
LEMMA PushObj ==
  ASSUME TypeOK, MarksKept, NEW o \in Obj, PUSH_OBJ(o)
  PROVE  /\ mstack' \in Seq(Entry) /\ Len(mstack') <= msize
         /\ mstate' \in {mstate, "MS_INVALID"} /\ too_small' \in BOOLEAN
         /\ Stacked' \subseteq Stacked \cup {o}
         /\ mstate' # "MS_INVALID" =>
              Stacked \subseteq Stacked' /\ (KindOf[o] # PTRFREE => o \in Stacked')
<1>1. mstack \in Seq(Entry) /\ Len(mstack) <= msize /\ o \in Entry /\ too_small \in BOOLEAN
  BY DEF TypeOK, Entry
<1>2. CASE UNCHANGED <<mstack, mstate, too_small>> /\ KindOf[o] = PTRFREE
  BY <1>1, <1>2 DEF Stacked
<1>3. CASE /\ Len(mstack) < msize /\ mstack' = Append(mstack, o)
           /\ UNCHANGED <<mstate, too_small>>
  <2>1. /\ mstack' \in Seq(Entry) /\ Len(mstack') = Len(mstack) + 1
        /\ Stacked' = Stacked \cup {o}
    BY <1>1, <1>3, AppendEntry DEF Stacked
  <2>2. Len(mstack') <= msize
    BY <1>1, <1>3, <2>1 DEF TypeOK
  <2>3. QED
    BY <1>1, <1>3, <2>1, <2>2
<1>4. CASE /\ Len(mstack) >= msize /\ mstate' = "MS_INVALID" /\ too_small' = TRUE
           /\ mstack' = Append(SubSeq(mstack, 1, msize - Discards), o)
  <2> DEFINE t == SubSeq(mstack, 1, msize - Discards)
  <2>1. msize \in Nat /\ Discards \in Nat /\ Discards >= 1 /\ msize - Discards \in 0 .. Len(mstack)
    BY <1>1, <1>4, MarkerAssumption DEF TypeOK, MarksKept
  <2>2. t \in Seq(Entry) /\ Len(t) = msize - Discards
        /\ \A i \in 1 .. msize - Discards : t[i] = mstack[i]
    BY <1>1, <2>1, TakePrefix
  <2>3. {t[i] : i \in 1 .. Len(t)} \subseteq Stacked
    BY <1>1, <2>1, <2>2 DEF Stacked
  <2> HIDE DEF t
  <2>4. /\ mstack' \in Seq(Entry) /\ Len(mstack') = Len(t) + 1
        /\ Stacked' = {t[i] : i \in 1 .. Len(t)} \cup {o}
    BY <1>1, <1>4, <2>2, AppendEntry DEF Stacked, t
  <2>5. QED
    BY <1>4, <2>1, <2>2, <2>3, <2>4
<1>5. QED
  BY <1>2, <1>3, <1>4 DEF PUSH_OBJ

\* PUSH_CONTENTS marks what it is given, and pushes what it marks.
LEMMA PushContents ==
  ASSUME TypeOK, MarksKept, NEW q \in allocated, PUSH_CONTENTS(q)
  PROVE  /\ mstack' \in Seq(Entry) /\ Len(mstack') <= msize
         /\ mstate' \in {mstate, "MS_INVALID"} /\ too_small' \in BOOLEAN
         /\ marked' = marked \cup {q}
         /\ Stacked' \subseteq Stacked \cup {q}
         /\ mstate' # "MS_INVALID" =>
              /\ Stacked \subseteq Stacked'
              /\ q \notin marked /\ KindOf[q] # PTRFREE => q \in Stacked'
<1>1. q \in Obj
  BY DEF TypeOK
<1>2. CASE q \in marked
  BY <1>2 DEF PUSH_CONTENTS, TypeOK, Stacked, Entry
<1>3. CASE q \notin marked
  <2>1. marked' = marked \cup {q} /\ PUSH_OBJ(q)
    BY <1>3 DEF PUSH_CONTENTS
  <2>2. QED
    BY <1>1, <2>1, PushObj
<1>4. QED
  BY <1>2, <1>3

-----------------------------------------------------------------------------
(***************************************************************************)
(* What the parts of GC_mark_from do to coverage.                          *)
(***************************************************************************)

\* Taking an entry moves its pointers from the stack to todo.
LEMMA TakeCovers ==
  ASSUME LimitClear, TypeOK, todo = {}, TakeEntry
  PROVE  /\ mstack' \in Seq(Entry) /\ Len(mstack') <= msize
         /\ Stacked' \subseteq Stacked
         /\ \E e \in Stacked : e \in Entry /\ todo' = points[e]
         /\ \A n \in Node : Covered(n) => Covered(n)'
<1> DEFINE e == mstack[Len(mstack)]
<1>1. mstack \in Seq(Entry) /\ mstack # <<>> /\ Len(mstack) <= msize /\ msize \in Nat
  BY DEF TypeOK, TakeEntry, GC_mark_stack_empty, Entry
<1>2. /\ mstack' = SubSeq(mstack, 1, Len(mstack) - 1)
      /\ todo' = IF PassedOver(e) THEN {} ELSE points[e]
      /\ points' = points /\ marked' = marked
  BY DEF TakeEntry, heap
<1>3. /\ mstack' \in Seq(Entry) /\ Len(mstack') = Len(mstack) - 1
      /\ Stacked = Stacked' \cup {e} /\ e \in Entry
  BY <1>1, <1>2, PopEntry DEF Stacked
<1>4. Len(mstack') <= msize
  BY <1>1, <1>3
<1> HIDE DEF e
<1>5. todo' = points[e]
  <2>1. mslimit \in AtLimit
    BY DEF TypeOK
  <2>2. mslimit \in Int /\ STATIC \notin Int
    BY <2>1, HeapAssumption, MarkerAssumption DEF Roots
  <2>3. ~PassedOver(e)
    BY <1>3, <2>1, <2>2 DEF PassedOver, LimitClear, Entry
  <2>4. QED
    BY <1>2, <2>3
<1>6. ASSUME NEW n \in Node, Covered(n) PROVE Covered(n)'
  <2>1. CASE n \in Stacked'
    BY <2>1 DEF Covered
  <2>2. CASE n = e
    BY <2>2, <1>2, <1>5 DEF Covered
  <2>3. CASE points[n] \subseteq marked \cup todo \cup UNION {points[f] : f \in Stacked}
    BY <2>3, <1>2, <1>3, <1>5 DEF Covered
  <2>4. QED
    BY <1>3, <1>6, <2>1, <2>2, <2>3 DEF Covered
<1>7. QED
  BY <1>2, <1>3, <1>4, <1>6, <1>5

\* Considering a pointer moves it from todo to the marks and the stack.
LEMMA ConsiderCovers ==
  ASSUME TypeOK, NoDangling, MarksKept, NEW q \in todo, PUSH_CONTENTS(q),
         todo' = todo \ {q}, points' = points, mstate' # "MS_INVALID"
  PROVE  /\ \A n \in Node : Covered(n) => Covered(n)'
         /\ q \notin marked => Covered(q)'
<1>1. q \in allocated /\ q \in Obj
  BY DEF NoDangling, TypeOK
<1>2. /\ marked' = marked \cup {q} /\ Stacked \subseteq Stacked'
      /\ q \notin marked /\ KindOf[q] # PTRFREE => q \in Stacked'
  BY <1>1, PushContents
<1>3. ASSUME NEW n \in Node, Covered(n) PROVE Covered(n)'
  BY <1>2, <1>3 DEF Covered
<1>4. ASSUME q \notin marked PROVE Covered(q)'
  <2>1. CASE KindOf[q] # PTRFREE
    BY <1>2, <1>4, <2>1 DEF Covered
  <2>2. CASE KindOf[q] = PTRFREE
    <3>1. points[q] = {}
      BY <1>1, <2>2, Nodes, HeapAssumption DEF NoDangling
    <3>2. QED
      BY <3>1 DEF Covered
  <2>3. QED
    BY <2>1, <2>2
<1>5. QED
  BY <1>3, <1>4

-----------------------------------------------------------------------------
(***************************************************************************)
(* The objects the program can reach.                                      *)
(***************************************************************************)

\* Live is in every closed set that holds the base.
LEMMA LiveLeast ==
  ASSUME TypeOK, NEW S \in SUBSET Obj, Base \subseteq S, Closed(S)
  PROVE  Live \subseteq S
<1>1. S \ Base \in SUBSET (Obj \ Base) /\ Base \cup (S \ Base) = S
  OBVIOUS
<1>2. QED
  BY <1>1 DEF Live

\* What is reachable is allocated.
LEMMA LiveAllocated ==
  ASSUME TypeOK, NoDangling
  PROVE  Live \subseteq allocated
<1>1. Base \subseteq allocated
  BY Nodes DEF Base, NoDangling
<1>2. Closed(allocated)
  BY Nodes DEF Closed, NoDangling, TypeOK
<1>3. QED
  BY <1>1, <1>2, LiveLeast DEF TypeOK

\* Live holds the base, and is closed under the pointers.
LEMMA LiveClosed ==
  ASSUME TypeOK
  PROVE  Base \subseteq Live /\ Live \subseteq Obj /\ Closed(Live)
<1>1. Base \subseteq Live
  BY DEF Live
<1>2. Base \subseteq Obj
  BY Nodes DEF TypeOK, Base
<1>3. Live \subseteq Obj
  BY <1>2 DEF Live
<1>4. ASSUME NEW o \in Live, NEW q \in points[o] PROVE q \in Live
  <2>1. q \in Obj
    BY <1>3, <1>4, Nodes DEF TypeOK
  <2>2. ASSUME q \notin Base, NEW T \in SUBSET (Obj \ Base), Closed(Base \cup T)
        PROVE  q \in T
    <3>1. o \in Base \cup T
      BY <2>2, <1>4 DEF Live
    <3>2. QED
      BY <3>1, <2>2, <1>4 DEF Closed
  <2>3. QED
    BY <2>1, <2>2 DEF Live
<1>5. QED
  BY <1>1, <1>3, <1>4 DEF Closed

-----------------------------------------------------------------------------
(***************************************************************************)
(* The inductive invariant, one lemma for each action.                     *)
(***************************************************************************)

\* A step of the collector that leaves the heap alone keeps pointers from
\* dangling.
LEMMA HeapKept ==
  ASSUME NoDangling, UNCHANGED heap, todo' \subseteq allocated
  PROVE  NoDangling'
  BY DEF NoDangling, heap

\* GC_mark_from takes an entry, in whatever state it was called.
LEMMA TakeEntryKeeps ==
  ASSUME LimitClear, IInv, todo = {}, pc \in {"mark_some", "mark_from"}, TakeEntry
  PROVE  IInv'
<1>1. /\ UNCHANGED <<heap, marked, msize, mslimit, too_small, mstate, scan_ptr>>
      /\ objects_are_marked' = TRUE /\ pc' = "mark_from"
  BY DEF TakeEntry
<1>2. /\ mstack' \in Seq(Entry) /\ Len(mstack') <= msize
      /\ \A n \in Node : Covered(n) => Covered(n)'
  BY TakeCovers DEF IInv
<1>3. PICK e \in Entry : todo' = points[e]
  BY TakeCovers DEF IInv
<1>4. todo' \subseteq allocated /\ todo' \subseteq Obj
  BY <1>3, Nodes DEF IInv, NoDangling, TypeOK
<1>5. marked \cup Roots \subseteq Node
  BY Nodes DEF IInv, TypeOK, Roots
<1>6. TypeOK'
  BY <1>1, <1>2, <1>4 DEF IInv, TypeOK, heap, Entry, PC
<1>7. NoDangling'
  BY <1>1, <1>4, HeapKept DEF IInv
<1>8. MarksKept'
  BY <1>1 DEF IInv, MarksKept, heap
<1>9. Phases'
  BY <1>1 DEF Phases
<1>10. InvariantI'
  BY <1>1, <1>2, <1>5 DEF IInv, InvariantI, AllCovered, Roots
<1>11. QED
  BY <1>1, <1>6, <1>7, <1>8, <1>9, <1>10 DEF IInv

\* GC_mark_from or GC_push_roots considers a pointer.
LEMMA ConsiderPointerKeeps ==
  ASSUME IInv, ConsiderPointer
  PROVE  IInv'
<1>1. PICK q \in todo : PUSH_CONTENTS(q) /\ todo' = todo \ {q}
  BY DEF ConsiderPointer
<1>2. UNCHANGED <<heap, msize, mslimit, scan_ptr, objects_are_marked, pc>>
      /\ pc \in {"mark_from", "push_roots"}
  BY DEF ConsiderPointer
<1>3. q \in allocated /\ q \in Obj
  BY DEF IInv, NoDangling, TypeOK
<1>4. /\ mstack' \in Seq(Entry) /\ Len(mstack') <= msize
      /\ mstate' \in {mstate, "MS_INVALID"} /\ too_small' \in BOOLEAN
      /\ marked' = marked \cup {q}
  BY <1>1, <1>3, PushContents DEF IInv
<1>5. ASSUME mstate' # "MS_INVALID"
      PROVE  (\A n \in Node : Covered(n) => Covered(n)') /\ (q \notin marked => Covered(q)')
  BY <1>1, <1>2, <1>5, ConsiderCovers DEF IInv, heap
<1>6. marked \cup Roots \subseteq Node
  BY Nodes DEF IInv, TypeOK, Roots
<1>7. TypeOK'
  BY <1>1, <1>2, <1>3, <1>4 DEF IInv, TypeOK, heap, Entry, MarkState
<1>8. NoDangling'
  BY <1>1, <1>2, HeapKept DEF IInv, NoDangling
<1>9. MarksKept'
  BY <1>2, <1>3, <1>4 DEF IInv, MarksKept, heap
<1>10. ASSUME mstate' # "MS_INVALID", AllCovered PROVE AllCovered'
  BY <1>4, <1>5, <1>6, <1>10 DEF AllCovered, Roots
<1>11. Phases'
  BY <1>1, <1>2, <1>4, <1>10 DEF IInv, Phases
<1>12. InvariantI'
  BY <1>2, <1>4, <1>5, <1>6, <1>10 DEF IInv, InvariantI
<1>13. QED
  BY <1>2, <1>7, <1>8, <1>9, <1>11, <1>12 DEF IInv

\* Coverage depends on the heap, the marks, the stack and todo only.
LEMMA CoveredSame ==
  ASSUME UNCHANGED <<heap, marked, mstack, todo>>
  PROVE  (\A n \in Node : Covered(n)' <=> Covered(n)) /\ (AllCovered' <=> AllCovered)
<1>1. \A n : Covered(n)' <=> Covered(n)
  BY DEF Covered, Stacked, heap
<1>2. QED
  BY <1>1 DEF AllCovered

\* GC_mark_from returns.
LEMMA MarkFromReturnsKeeps ==
  ASSUME IInv, MarkFromReturns
  PROVE  IInv'
<1>1. UNCHANGED <<heap, marked, mstack, msize, mslimit, too_small, mstate, scan_ptr,
                  objects_are_marked, todo>>
      /\ pc = "mark_from" /\ pc' = "mark_some" /\ todo = {}
  BY DEF MarkFromReturns
<1>2. marked \subseteq Node
  BY Nodes DEF IInv, TypeOK
<1>3. TypeOK' /\ NoDangling' /\ MarksKept'
  BY <1>1 DEF IInv, TypeOK, NoDangling, MarksKept, heap, PC
<1>4. Phases'
  BY <1>1 DEF IInv, Phases
<1>5. InvariantI'
  BY <1>1, <1>2, CoveredSame DEF IInv, InvariantI
<1>6. QED
  BY <1>1, <1>3, <1>4, <1>5 DEF IInv

\* GC_push_roots returns: the roots are covered unless it overflowed.
LEMMA RootsPushedKeeps ==
  ASSUME IInv, RootsPushed
  PROVE  IInv'
<1>1. /\ UNCHANGED <<heap, marked, mstack, msize, mslimit, too_small, scan_ptr, todo>>
      /\ pc = "push_roots" /\ pc' = "mark_some" /\ todo = {} /\ objects_are_marked' = TRUE
      /\ mstate' = IF mstate = "MS_INVALID" THEN mstate ELSE "MS_ROOTS_PUSHED"
  BY DEF RootsPushed
<1>2. TypeOK' /\ NoDangling' /\ MarksKept'
  BY <1>1 DEF IInv, TypeOK, NoDangling, MarksKept, heap, PC, MarkState
<1>3. Phases'
  BY <1>1 DEF Phases
<1>4. mstate # "MS_INVALID" => AllCovered'
  BY <1>1, CoveredSame DEF IInv, Phases
<1>5. InvariantI'
  BY <1>1, <1>4 DEF InvariantI
<1>6. QED
  BY <1>1, <1>2, <1>3, <1>5 DEF IInv

\* A new collection: only marks of uncollectable objects are left.
LEMMA CollectKeeps ==
  ASSUME IInv, KindsAgree, Collect
  PROVE  IInv'
<1>1. /\ marked' = {o \in marked : IS_UNCOLLECTABLE(KindOf[o])} /\ mstack' = <<>>
      /\ objects_are_marked' = FALSE /\ mstate' = "MS_INVALID" /\ scan_ptr' = 0
      /\ pc = "program" /\ pc' = "mark_some" /\ UNCHANGED <<heap, msize, mslimit, too_small, todo>>
  BY DEF Collect
<1>2. \A o \in marked' : KindOf[o] = UNCOLLECTABLE
  BY <1>1 DEF KindsAgree, IInv, TypeOK
<1>3. \A o \in marked : KindOf[o] = UNCOLLECTABLE => o \in marked'
  BY <1>1, MacroHolds
<1>4. 0 \in 0 .. N + 1 /\ Len(<<>>) <= msize /\ <<>> \in Seq(Obj \cup {STATIC})
  BY HeapAssumption DEF IInv, TypeOK
<1>5. TypeOK'
  BY <1>1, <1>4 DEF IInv, TypeOK, heap, PC, MarkState
<1>6. NoDangling' /\ MarksKept'
  BY <1>1, <1>3 DEF IInv, NoDangling, MarksKept, heap
<1>7. Phases'
  BY <1>1, <1>2 DEF IInv, Phases
<1>8. InvariantI'
  BY <1>1 DEF InvariantI
<1>9. QED
  BY <1>1, <1>5, <1>6, <1>7, <1>8 DEF IInv

\* An abandoned phase leaves marks behind, in a state that trusts none of them.
LEMMA AbandonKeeps ==
  ASSUME IInv, Abandon
  PROVE  IInv'
<1>1. /\ mstate' = "MS_INVALID" /\ mstack' = <<>> /\ pc = "mark_some" /\ pc' = "program"
      /\ UNCHANGED <<heap, marked, msize, mslimit, too_small, scan_ptr, objects_are_marked, todo>>
  BY DEF Abandon
<1>2. Len(<<>>) <= msize /\ <<>> \in Seq(Obj \cup {STATIC})
  BY DEF IInv, TypeOK
<1>3. TypeOK' /\ NoDangling' /\ MarksKept'
  BY <1>1, <1>2 DEF IInv, TypeOK, NoDangling, MarksKept, heap, PC, MarkState
<1>4. Phases' /\ InvariantI'
  BY <1>1 DEF IInv, Phases, InvariantI
<1>5. QED
  BY <1>1, <1>3, <1>4 DEF IInv

\* At the end of the phase the marks are closed and hold the base.
LEMMA FinishClosed ==
  ASSUME IInv, pc = "finish"
  PROVE  \A n \in marked \cup Roots : points[n] \subseteq marked
<1>1. todo = {} /\ Stacked = {}
  BY DEF IInv, Phases, Stacked
<1>2. QED
  BY <1>1 DEF IInv, InvariantI, AllCovered, Covered

\* The sweep takes no object that a kept one points to.
LEMMA FinishKeeps ==
  ASSUME IInv, Finish
  PROVE  IInv'
<1> DEFINE D == allocated \ marked
<1>1. /\ allocated' = allocated \ D
      /\ points' = [n \in Node |-> IF n \in D THEN {} ELSE points[n]]
      /\ pc = "finish" /\ pc' = "program"
      /\ UNCHANGED <<marked, mstack, msize, mslimit, too_small, mstate, scan_ptr,
                     objects_are_marked, todo>>
  BY DEF Finish, Reclaim
<1>2. todo = {} /\ mstate = "MS_NONE"
  BY <1>1 DEF IInv, Phases
<1>3. allocated' = marked
  BY <1>1 DEF IInv, MarksKept
<1>4. points' \in [Node -> SUBSET Obj]
  BY <1>1 DEF IInv, TypeOK
<1>5. TypeOK'
  BY <1>1, <1>3, <1>4 DEF IInv, TypeOK, PC
<1>6. NoDangling'
  <2>1. ASSUME NEW n \in Node PROVE points'[n] \subseteq MayPoint[n] \cap marked
    <3>1. CASE n \in marked \cup Roots
      BY <3>1, <1>1, FinishClosed DEF IInv, NoDangling
    <3>2. CASE n \in D
      BY <3>2, <1>1
    <3>3. CASE n \in Obj \ allocated
      BY <3>3, <1>1 DEF IInv, NoDangling
    <3>4. QED
      BY <3>1, <3>2, <3>3 DEF Node
  <2>2. ASSUME NEW o \in Obj \ marked PROVE points'[o] = {}
    BY <2>2, <1>1, Nodes DEF IInv, NoDangling
  <2>3. QED
    BY <1>1, <1>2, <1>3, <2>1, <2>2 DEF NoDangling
<1>7. MarksKept'
  BY <1>1, <1>3 DEF IInv, MarksKept
<1>8. Phases' /\ InvariantI'
  BY <1>1, <1>2 DEF Phases, InvariantI
<1>9. QED
  BY <1>1, <1>5, <1>6, <1>7, <1>8 DEF IInv

\* GC_push_roots on a stack with room covers both roots.
LEMMA PushRootsCovers ==
  ASSUME TypeOK, NoDangling, todo = {}, Len(mstack) < msize, UNCHANGED <<heap, marked>>,
         GC_push_roots
  PROVE  /\ mstack' \in Seq(Entry) /\ Len(mstack') <= msize /\ pc' = "push_roots"
         /\ todo' \subseteq allocated /\ todo' \subseteq Obj
         /\ Stacked' = Stacked \cup {STATIC} /\ todo' = points[STACK]
         /\ \A n \in Node : Covered(n) => Covered(n)'
         /\ \A n \in Roots : Covered(n)'
<1>1. mstack \in Seq(Entry) /\ STATIC \in Entry /\ msize \in Nat
  BY DEF TypeOK, Entry
<1>2. ~(Len(mstack) >= msize)
  BY <1>1
<1>3. mstack' = Append(mstack, STATIC) /\ pc' = "push_roots" /\ todo' = points[STACK]
  BY <1>2 DEF GC_push_roots
<1>4. mstack' \in Seq(Entry) /\ Len(mstack') = Len(mstack) + 1 /\ Stacked' = Stacked \cup {STATIC}
  BY <1>1, <1>3, AppendEntry DEF Stacked
<1>5. Len(mstack') <= msize
  BY <1>1, <1>4
<1>6. todo' \subseteq allocated /\ todo' \subseteq Obj
  BY <1>3, Nodes DEF NoDangling, TypeOK
<1>7. ASSUME NEW n \in Node, Covered(n) PROVE Covered(n)'
  BY <1>3, <1>4, <1>7 DEF Covered, heap
<1>8. Covered(STATIC)' /\ Covered(STACK)'
  BY <1>3, <1>4 DEF Covered, heap
<1>9. QED
  BY <1>3, <1>4, <1>5, <1>6, <1>7, <1>8 DEF Roots

\* The mark stack never shrinks.
LEMMA AllocMarkStack ==
  ASSUME TypeOK, alloc_mark_stack
  PROVE  /\ msize' \in Nat \ {0} /\ msize' >= msize /\ mslimit' \in AtLimit
         /\ too_small' \in BOOLEAN
<1>1. msize \in Nat \ {0} /\ mslimit \in AtLimit
  BY DEF TypeOK
<1>2. too_small' \in BOOLEAN
  BY Zenon DEF alloc_mark_stack
<1>3. msize' = msize \/ msize' = 2 * msize
  BY Zenon DEF alloc_mark_stack
<1>4. mslimit' \in AtLimit
  BY <1>1, Zenon DEF alloc_mark_stack
<1>5. QED
  BY <1>1, <1>2, <1>3, <1>4

\* The scan for marked uncollectable objects, and the roots after it.
LEMMA PushUncollectableKeeps ==
  ASSUME LimitClear, IInv, PushUncollectable
  PROVE  IInv'
<1>1. pc = "mark_some" /\ mstate = "MS_PUSH_UNCOLLECTABLE" /\ todo = {}
  BY DEF PushUncollectable, IInv, Phases
<1>2. marked \subseteq Node /\ marked \subseteq allocated /\ allocated \subseteq Obj
  BY Nodes DEF IInv, TypeOK, MarksKept
<1>3. CASE TakeEntry
  BY <1>1, <1>3, TakeEntryKeeps
<1>4. ASSUME NEW o \in Obj, First({p \in Above : KindOf[p] = UNCOLLECTABLE}, o),
             GC_push_marked(o), UNCHANGED <<heap, marked, msize, mslimit, pc, todo>>
      PROVE  IInv'
  <2>1. /\ o \in allocated /\ KindOf[o] = UNCOLLECTABLE
        /\ \A p \in allocated : p >= scan_ptr /\ KindOf[p] = UNCOLLECTABLE => o <= p
    BY <1>4 DEF First, Above
  <2>2. o \in marked /\ KindOf[o] # PTRFREE
    BY <2>1 DEF IInv, MarksKept, UNCOLLECTABLE, PTRFREE
  <2>3. PUSH_OBJ(o) /\ scan_ptr' = o + 1 /\ objects_are_marked' = TRUE
    BY <1>4, <2>2 DEF GC_push_marked
  <2>4. /\ mstack' \in Seq(Entry) /\ Len(mstack') <= msize
        /\ mstate' \in {mstate, "MS_INVALID"} /\ too_small' \in BOOLEAN
        /\ mstate' # "MS_INVALID" => Stacked \subseteq Stacked' /\ o \in Stacked'
    BY <2>2, <2>3, PushObj DEF IInv
  <2>5. o + 1 \in 0 .. N + 1
    BY HeapAssumption DEF Obj
  <2>6. TypeOK'
    BY <1>4, <2>3, <2>4, <2>5 DEF IInv, TypeOK, heap, Entry, MarkState
  <2>7. NoDangling' /\ MarksKept'
    BY <1>4 DEF IInv, NoDangling, MarksKept, heap
  <2>8. Phases'
    BY <1>1, <1>4, <2>3 DEF Phases
  <2>9. ASSUME mstate' # "MS_INVALID", NEW p \in marked
        PROVE  Covered(p)' \/ (KindOf[p] = UNCOLLECTABLE /\ p >= scan_ptr')
    <3>1. CASE Covered(p)
      BY <3>1, <1>4, <2>4, <2>9 DEF Covered, heap
    <3>2. CASE p = o
      BY <3>2, <2>4, <2>9 DEF Covered
    <3>3. CASE KindOf[p] = UNCOLLECTABLE /\ p >= scan_ptr /\ p # o
      <4>1. o <= p /\ p \in Int /\ o \in Int
        BY <3>3, <1>2, <2>1, Nodes
      <4>2. QED
        BY <4>1, <3>3, <2>3
    <3>4. QED
      BY <1>1, <3>1, <3>2, <3>3 DEF IInv, InvariantI
  <2>10. InvariantI'
    BY <1>1, <1>4, <2>4, <2>9 DEF InvariantI
  <2>11. QED
    BY <1>1, <1>4, <2>6, <2>7, <2>8, <2>10 DEF IInv
<1>5. ASSUME ~NearlyFull, \A p \in Above : KindOf[p] # UNCOLLECTABLE, scan_ptr' = 0,
             GC_push_roots,
             UNCHANGED <<heap, marked, msize, mslimit, too_small, mstate, objects_are_marked>>
      PROVE  IInv'
  <2>1. msize \in Nat \ {0} /\ Len(mstack) \in Nat
    BY DEF IInv, TypeOK
  <2>2. Len(mstack) < msize
    BY <1>5, <2>1 DEF NearlyFull
  <2>3. /\ mstack' \in Seq(Entry) /\ Len(mstack') <= msize /\ pc' = "push_roots"
        /\ todo' \subseteq allocated /\ todo' \subseteq Obj
        /\ \A n \in Node : Covered(n) => Covered(n)'
        /\ \A n \in Roots : Covered(n)'
    BY <1>1, <1>5, <2>2, PushRootsCovers DEF IInv
  <2>4. \A o \in marked : Covered(o)
    BY <1>1, <1>2, <1>5 DEF IInv, InvariantI, Above
  <2>5. AllCovered'
    BY <1>2, <1>5, <2>3, <2>4 DEF AllCovered, Roots
  <2>6. 0 \in 0 .. N + 1
    BY HeapAssumption
  <2>7. TypeOK'
    BY <1>5, <2>3, <2>6 DEF IInv, TypeOK, heap, Entry, PC
  <2>8. NoDangling' /\ MarksKept'
    BY <1>5, <2>3, HeapKept DEF IInv, MarksKept, heap
  <2>9. Phases' /\ InvariantI'
    BY <1>1, <1>5, <2>3, <2>5 DEF Phases, InvariantI, AllCovered
  <2>10. QED
    BY <2>3, <2>7, <2>8, <2>9 DEF IInv
<1>6. QED
  BY <1>3, <1>4, <1>5 DEF PushUncollectable

\* The last part of a phase: when the stack is empty, it is over.
LEMMA DrainRootsKeeps ==
  ASSUME LimitClear, IInv, DrainRoots
  PROVE  IInv'
<1>1. pc = "mark_some" /\ mstate = "MS_ROOTS_PUSHED" /\ todo = {}
  BY DEF DrainRoots, IInv, Phases
<1>2. CASE TakeEntry
  BY <1>1, <1>2, TakeEntryKeeps
<1>3. ASSUME mstack = <<>>, mstate' = "MS_NONE", alloc_mark_stack, pc' = "finish",
             UNCHANGED <<heap, marked, mstack, scan_ptr, objects_are_marked, todo>>
      PROVE  IInv'
  <2>1. msize' \in Nat \ {0} /\ msize' >= msize /\ too_small' \in BOOLEAN /\ mslimit' \in AtLimit
    BY <1>3, AllocMarkStack DEF IInv
  <2>2. Len(mstack') <= msize'
    BY <1>3, <2>1
  <2>3. InitialSize \in Nat /\ msize \in Nat /\ msize >= InitialSize
    BY MarkerAssumption DEF IInv, TypeOK, MarksKept
  <2>4. TypeOK' /\ NoDangling'
    BY <1>3, <2>1, <2>2 DEF IInv, TypeOK, NoDangling, heap, PC, MarkState
  <2>5. msize' >= InitialSize
    BY <2>1, <2>3
  <2>6. MarksKept'
    BY <1>3, <2>5 DEF IInv, MarksKept, heap
  <2>7. AllCovered'
    BY <1>1, <1>3, CoveredSame DEF IInv, InvariantI
  <2>8. Phases' /\ InvariantI'
    BY <1>1, <1>3, <2>7 DEF Phases, InvariantI
  <2>9. QED
    BY <1>3, <2>4, <2>6, <2>8 DEF IInv
<1>4. QED
  BY <1>2, <1>3 DEF DrainRoots, GC_mark_stack_empty

\* The first pass starts with the marks of uncollectable objects only.
LEMMA FirstPassKeeps ==
  ASSUME IInv, FirstPass
  PROVE  IInv'
<1>1. /\ pc = "mark_some" /\ mstate # "MS_PUSH_UNCOLLECTABLE" /\ ~objects_are_marked
      /\ mstate' = "MS_PUSH_UNCOLLECTABLE"
      /\ UNCHANGED <<heap, marked, mstack, msize, mslimit, too_small, scan_ptr,
                     objects_are_marked, pc, todo>>
  BY DEF FirstPass
<1>2. scan_ptr = 0 /\ (\A o \in marked : KindOf[o] = UNCOLLECTABLE) /\ todo = {}
  BY <1>1 DEF IInv, Phases
<1>3. \A o \in marked : o >= 0
  BY HeapAssumption DEF IInv, TypeOK, Obj
<1>4. TypeOK' /\ NoDangling' /\ MarksKept'
  BY <1>1 DEF IInv, TypeOK, NoDangling, MarksKept, heap, MarkState
<1>5. Phases' /\ InvariantI'
  BY <1>1, <1>2, <1>3 DEF Phases, InvariantI
<1>6. QED
  BY <1>1, <1>4, <1>5 DEF IInv

\* The scan after an overflow: what it has passed is covered, and nothing is said
\* of what is above it.
LEMMA RescanKeeps ==
  ASSUME IInv, Rescan
  PROVE  IInv'
<1>1. /\ pc = "mark_some" /\ mstate \in {"MS_INVALID", "MS_PARTIALLY_INVALID"}
      /\ objects_are_marked /\ mstack = <<>> /\ mstate' = ScanState
      /\ UNCHANGED <<heap, marked, objects_are_marked>>
  BY DEF Rescan, GC_mark_stack_empty
<1>2. todo = {} /\ Stacked = {}
  BY <1>1 DEF IInv, Phases, Stacked
<1>3. marked \subseteq Node /\ marked \subseteq allocated /\ allocated \subseteq Obj
  BY Nodes DEF IInv, TypeOK, MarksKept
<1>4. msize' \in Nat \ {0} /\ msize' >= msize /\ too_small' \in BOOLEAN /\ mslimit' \in AtLimit
  <2>1. msize \in Nat \ {0} /\ too_small \in BOOLEAN /\ mslimit \in AtLimit
    BY DEF IInv, TypeOK
  <2>2. CASE alloc_mark_stack
    BY <2>2, AllocMarkStack DEF IInv
  <2>3. CASE UNCHANGED <<msize, mslimit, too_small>>
    BY <2>1, <2>3
  <2>4. QED
    BY <2>2, <2>3, Zenon DEF Rescan
<1>5. InitialSize \in Nat /\ msize \in Nat \ {0} /\ msize >= InitialSize
  BY MarkerAssumption DEF IInv, TypeOK, MarksKept
<1>6. MarksKept'
  <2>1. msize' >= InitialSize
    BY <1>4, <1>5
  <2>2. QED
    BY <1>1, <2>1 DEF IInv, MarksKept, heap
<1>7. mstate' \in {"MS_INVALID", "MS_PARTIALLY_INVALID"}
  BY <1>1 DEF ScanState
\* Below scan_ptr every mark is covered, in the state the scan goes on in.
<1>8. ASSUME mstate' = "MS_PARTIALLY_INVALID", NEW p \in marked, p < scan_ptr
      PROVE  Covered(p)
  <2>1. CASE mstate = "MS_PARTIALLY_INVALID"
    BY <2>1, <1>8 DEF IInv, InvariantI
  <2>2. CASE scan_ptr = 0
    BY <2>2, <1>3, <1>8, HeapAssumption DEF Obj
  <2>3. QED
    BY <1>1, <1>8, <2>1, <2>2 DEF ScanState
<1>9. ASSUME NEW o \in Obj, First(Above, o),
             mstack' = IF o \in marked /\ KindOf[o] # PTRFREE THEN <<o>> ELSE <<>>,
             scan_ptr' = o + 1, UNCHANGED <<pc, todo>>
      PROVE  IInv'
  <2>1. /\ mstack' \in Seq(Entry) /\ Len(mstack') <= 1
        /\ o \in marked /\ KindOf[o] # PTRFREE => o \in Stacked'
    <3>1. CASE o \in marked /\ KindOf[o] # PTRFREE
      <4>1. mstack' = <<o>> /\ o \in Entry
        BY <1>9, <3>1 DEF Entry
      <4>2. mstack' \in Seq(Entry) /\ Len(mstack') = 1 /\ mstack'[1] = o
        BY <4>1
      <4>3. QED
        BY <4>2 DEF Stacked
    <3>2. CASE ~(o \in marked /\ KindOf[o] # PTRFREE)
      <4>1. mstack' = <<>>
        BY <1>9, <3>2
      <4>2. QED
        BY <4>1, <3>2
    <3>3. QED
      BY <3>1, <3>2
  <2>2. Len(mstack') \in Nat /\ Len(mstack') <= msize'
    BY <1>4, <1>5, <2>1
  <2>3. o + 1 \in 0 .. N + 1
    BY HeapAssumption DEF Obj
  <2>4. TypeOK'
    BY <1>1, <1>4, <1>7, <1>9, <2>1, <2>2, <2>3 DEF IInv, TypeOK, heap, Entry, MarkState
  <2>5. NoDangling'
    BY <1>1, <1>9 DEF IInv, NoDangling, heap
  <2>6. Phases'
    BY <1>1, <1>2, <1>9 DEF Phases
  <2>7. ASSUME mstate' = "MS_PARTIALLY_INVALID", NEW p \in marked, p < o + 1
        PROVE  Covered(p)'
    <3>1. CASE p < scan_ptr
      BY <3>1, <1>1, <1>2, <1>8, <1>9, <2>7 DEF Covered, heap
    <3>2. CASE p = o
      <4>1. CASE KindOf[o] # PTRFREE
        BY <4>1, <3>2, <2>1 DEF Covered
      <4>2. CASE KindOf[o] = PTRFREE
        <5>1. points[o] = {}
          BY <4>2, Nodes, HeapAssumption DEF IInv, NoDangling
        <5>2. QED
          BY <5>1, <1>1, <3>2 DEF Covered, heap
      <4>3. QED
        BY <4>1, <4>2
    <3>3. CASE p >= scan_ptr /\ p # o
      <4>1. p \in Above
        BY <3>3, <1>3 DEF Above
      <4>2. o <= p /\ p \in Int /\ o \in Int
        BY <4>1, <1>3, <1>9, Nodes DEF First
      <4>3. QED
        BY <4>2, <3>3, <2>7
    <3>4. scan_ptr \in Int /\ p \in Int
      BY <1>3, Nodes, HeapAssumption DEF IInv, TypeOK
    <3>5. QED
      BY <3>1, <3>2, <3>3, <3>4
  <2>8. InvariantI'
    BY <1>1, <1>7, <1>9, <2>7 DEF InvariantI
  <2>9. QED
    BY <1>1, <1>6, <1>9, <2>4, <2>5, <2>6, <2>8 DEF IInv
<1>10. ASSUME Above = {}, scan_ptr' = 0, ScanState = "MS_PARTIALLY_INVALID", GC_push_roots
       PROVE  IInv'
  <2>1. Len(mstack) < msize
    BY <1>1, <1>5
  <2>2. /\ mstack' \in Seq(Entry) /\ Len(mstack') <= msize /\ pc' = "push_roots"
        /\ todo' \subseteq allocated /\ todo' \subseteq Obj
        /\ \A n \in Node : Covered(n) => Covered(n)'
        /\ \A n \in Roots : Covered(n)'
    BY <1>1, <1>2, <1>10, <2>1, PushRootsCovers DEF IInv
  <2>3. \A p \in marked : p < scan_ptr
    <3>1. scan_ptr \in Int /\ marked \subseteq Int
      BY <1>3, Nodes, HeapAssumption DEF IInv, TypeOK
    <3>2. \A p \in marked : ~(p >= scan_ptr)
      BY <1>3, <1>10 DEF Above
    <3>3. QED
      BY <3>1, <3>2
  <2>4. AllCovered'
    BY <1>1, <1>3, <1>8, <1>10, <2>2, <2>3 DEF AllCovered, Roots
  <2>5. 0 \in 0 .. N + 1 /\ Len(mstack') \in Nat
    BY <2>2, HeapAssumption
  <2>6. Len(mstack') <= msize'
    BY <1>4, <1>5, <2>2, <2>5
  <2>7. TypeOK'
    BY <1>1, <1>4, <1>7, <1>10, <2>2, <2>5, <2>6 DEF IInv, TypeOK, heap, Entry, PC, MarkState
  <2>8. NoDangling'
    BY <1>1, <2>2, HeapKept DEF IInv
  <2>9. Phases' /\ InvariantI'
    BY <1>1, <1>7, <2>2, <2>4 DEF Phases, InvariantI, AllCovered
  <2>10. QED
    BY <1>6, <2>2, <2>7, <2>8, <2>9 DEF IInv
<1>11. ASSUME scan_ptr' = 0, ScanState # "MS_PARTIALLY_INVALID", UNCHANGED <<mstack, pc, todo>>
       PROVE  IInv'
  <2>1. mstate' = "MS_INVALID"
    BY <1>1, <1>7, <1>11
  <2>2. 0 \in 0 .. N + 1 /\ Len(mstack') <= msize'
    BY <1>1, <1>4, <1>11, HeapAssumption
  <2>3. TypeOK' /\ NoDangling'
    BY <1>1, <1>4, <1>11, <2>1, <2>2 DEF IInv, TypeOK, NoDangling, heap, MarkState
  <2>4. Phases' /\ InvariantI'
    BY <1>1, <1>2, <1>11, <2>1 DEF Phases, InvariantI
  <2>5. QED
    BY <1>1, <1>6, <1>11, <2>3, <2>4 DEF IInv
<1>12. QED
  BY <1>9, <1>10, <1>11, Zenon DEF Rescan

\* The program's steps: allocation marks uncollectable objects, and a pointer
\* that is stored is one the program has.
LEMMA ProgramKeeps ==
  ASSUME IInv, KindsAgree, Program
  PROVE  IInv'
<1>1. pc = "program" /\ mstate \in {"MS_NONE", "MS_INVALID"} /\ todo = {}
  BY DEF Program, IInv, Phases
<1>2. ASSUME NEW o \in Obj, Malloc(o) PROVE IInv'
  <2>1. /\ o \notin allocated /\ o \in MayPoint[STACK] /\ allocated' = allocated \cup {o}
        /\ points' = [points EXCEPT ![o] = {}, ![STACK] = @ \cup {o}]
        /\ UNCHANGED <<mstack, msize, mslimit, too_small, mstate, scan_ptr, objects_are_marked, pc, todo>>
    BY <1>2 DEF Malloc, New
  <2>2. /\ marked' \in {marked, marked \cup {o}}
        /\ KindOf[o] = UNCOLLECTABLE => marked' = marked \cup {o}
    BY <1>2 DEF Malloc
  <2>3. /\ points' \in [Node -> SUBSET Obj]
        /\ points'[o] = {} /\ points'[STACK] = points[STACK] \cup {o}
        /\ \A n \in Node \ {o, STACK} : points'[n] = points[n]
    BY <2>1, Nodes DEF IInv, TypeOK
  <2>4. TypeOK'
    BY <2>1, <2>2, <2>3 DEF IInv, TypeOK
  <2>5. NoDangling'
    BY <1>1, <2>1, <2>3, Nodes DEF IInv, NoDangling
  <2>6. MarksKept'
    BY <2>1, <2>2 DEF IInv, MarksKept
  <2>7. Phases' /\ InvariantI'
    BY <1>1, <2>1 DEF Phases, InvariantI
  <2>8. QED
    BY <1>1, <2>1, <2>4, <2>5, <2>6, <2>7 DEF IInv
<1>3. ASSUME NEW n \in Node, NEW q \in Obj, Store(n, q) \/ Clear(n, q), UNCHANGED marker
      PROVE  IInv'
  <2>1. UNCHANGED <<allocated, marked, mstack, msize, mslimit, too_small, mstate, scan_ptr,
                    objects_are_marked, pc, todo>>
    BY <1>3 DEF marker, Store, Clear
  <2>2. n \in allocated \cup Roots
    BY <1>3, LiveAllocated DEF Store, Clear, IInv
  <2>3. /\ points' \in [Node -> SUBSET Obj]
        /\ points'[n] \subseteq MayPoint[n] \cap allocated
        /\ \A m \in Node \ {n} : points'[m] = points[m]
    <3>1. CASE Store(n, q)
      BY <3>1, LiveAllocated DEF Store, IInv, TypeOK, NoDangling
    <3>2. CASE Clear(n, q)
      BY <3>2 DEF Clear, IInv, TypeOK, NoDangling
    <3>3. QED
      BY <1>3, <3>1, <3>2
  <2>4. TypeOK'
    BY <2>1, <2>3 DEF IInv, TypeOK
  <2>5. n \notin Obj \ allocated
    BY <2>2, Nodes DEF Roots
  <2>6. NoDangling'
    BY <2>1, <2>3, <2>5, Nodes DEF IInv, NoDangling
  <2>7. MarksKept' /\ Phases' /\ InvariantI'
    BY <1>1, <2>1 DEF IInv, MarksKept, Phases, InvariantI
  <2>8. QED
    BY <1>1, <2>1, <2>4, <2>6, <2>7 DEF IInv
<1>4. QED
  BY <1>2, <1>3 DEF Program

-----------------------------------------------------------------------------
(***************************************************************************)
(* The theorems.                                                           *)
(***************************************************************************)

\* The program starts without objects.
LEMMA InitKeeps == Init => IInv
<1> SUFFICES ASSUME Init PROVE IInv
  OBVIOUS
<1>1. /\ allocated = {} /\ points = [n \in Node |-> {}] /\ marked = {} /\ mstack = <<>>
      /\ msize = InitialSize /\ mslimit \in AtLimit /\ too_small = FALSE /\ mstate = "MS_NONE" /\ scan_ptr = 0
      /\ objects_are_marked = FALSE /\ pc = "program" /\ todo = {}
  BY DEF Init, HeapInit
<1>2. 0 \in 0 .. N + 1 /\ Len(<<>>) <= InitialSize /\ InitialSize \in Nat \ {0}
  BY HeapAssumption, MarkerAssumption
<1>3. TypeOK
  <2>1. <<>> \in Seq(Obj \cup {STATIC}) /\ points \in [Node -> SUBSET Obj]
    BY <1>1
  <2>2. too_small \in BOOLEAN /\ objects_are_marked \in BOOLEAN
    BY <1>1, Zenon
  <2>3. QED
    BY <1>1, <1>2, <2>1, <2>2 DEF TypeOK, MarkState, PC
<1>4. NoDangling /\ MarksKept /\ Phases /\ InvariantI
  BY <1>1, <1>2, Nodes DEF NoDangling, MarksKept, Phases, InvariantI
<1>5. QED
  BY <1>1, <1>3, <1>4 DEF IInv

\* Every step keeps the invariant.
LEMMA NextKeeps ==
  ASSUME IInv, KindsAgree, LimitClear, [Next]_vars
  PROVE  IInv'
<1>1. CASE Program
  BY <1>1, ProgramKeeps
<1>2. CASE Collect
  BY <1>2, CollectKeeps
<1>3. CASE PushUncollectable
  BY <1>3, PushUncollectableKeeps
<1>4. CASE DrainRoots
  BY <1>4, DrainRootsKeeps
<1>5. CASE FirstPass
  BY <1>5, FirstPassKeeps
<1>6. CASE RescanDrains
  BY <1>6, TakeEntryKeeps DEF RescanDrains, IInv, Phases
<1>7. CASE Rescan
  BY <1>7, RescanKeeps
<1>8. CASE ConsiderPointer
  BY <1>8, ConsiderPointerKeeps
<1>9. CASE NextEntry
  BY <1>9, TakeEntryKeeps DEF NextEntry
<1>10. CASE MarkFromReturns
  BY <1>10, MarkFromReturnsKeeps
<1>11. CASE RootsPushed
  BY <1>11, RootsPushedKeeps
<1>12. CASE Abandon
  BY <1>12, AbandonKeeps
<1>13. CASE Finish
  BY <1>13, FinishKeeps
<1>14. CASE UNCHANGED vars
  <2>1. UNCHANGED <<allocated, points, marked, mstack, msize, mslimit, too_small, mstate, scan_ptr,
                    objects_are_marked, pc, todo>>
    BY <1>14 DEF vars, marker, heap
  <2>2. (\A n \in Node : Covered(n)' <=> Covered(n)) /\ (AllCovered' <=> AllCovered)
    BY <2>1, CoveredSame DEF heap
  <2>3. marked \subseteq Node
    BY Nodes DEF IInv, TypeOK
  <2>4. TypeOK' /\ NoDangling' /\ MarksKept' /\ Phases' /\ InvariantI'
    BY <2>1, <2>2, <2>3 DEF IInv, TypeOK, NoDangling, MarksKept, Phases, InvariantI
  <2>5. QED
    BY <2>1, <2>4 DEF IInv
<1>15. QED
  BY <1>1, <1>2, <1>3, <1>4, <1>5, <1>6, <1>7, <1>8, <1>9, <1>10, <1>11, <1>12, <1>13, <1>14
     DEF Next, Mark, GC_mark_some

\* What the run checks holds of every behaviour, for every heap and every
\* size of the mark stack: the invariant behind GC_mark_some's states.
THEOREM MarkerInvariance == KindsAgree /\ LimitClear /\ Spec => []IInv
<1> DEFINE J == KindsAgree /\ LimitClear /\ IInv
<1>1. KindsAgree /\ LimitClear /\ Init => J
  BY InitKeeps
<1>2. J /\ [Next]_vars => J'
  BY NextKeeps
<1>3. J => IInv
  OBVIOUS
<1> HIDE DEF J
<1>4. QED
  BY <1>1, <1>2, <1>3, PTL DEF Spec

\* Every variable of the collector keeps its type; in particular the mark
\* stack never outgrows GC_mark_stack_size.
THEOREM MarkerTypeCorrect == KindsAgree /\ LimitClear /\ Spec => []TypeOK
<1>1. IInv => TypeOK
  BY DEF IInv
<1>2. QED
  BY <1>1, MarkerInvariance, PTL

\* Each mark state means what the comments of gc_pmark.h say of it.
THEOREM StatesMean == KindsAgree /\ LimitClear /\ Spec => []InvariantI
<1>1. IInv => InvariantI
  BY DEF IInv
<1>2. QED
  BY <1>1, MarkerInvariance, PTL

\* GC_push_roots never meets a full mark stack.
THEOREM NoAbort == KindsAgree /\ LimitClear /\ Spec => []RootsFit
<1>1. IInv => RootsFit
  BY DEF IInv, RootsFit
<1>2. QED
  BY <1>1, MarkerInvariance, PTL

\* At the end of the phase the marks hold every object that is reachable.
LEMMA FinishLive ==
  ASSUME IInv, pc = "finish"
  PROVE  Live \subseteq marked
<1>1. \A n \in marked \cup Roots : points[n] \subseteq marked
  BY FinishClosed
<1>2. Base \subseteq marked
  BY <1>1 DEF Base, Roots, IInv, MarksKept
<1>3. Closed(marked) /\ marked \in SUBSET Obj
  BY <1>1 DEF Closed, IInv, TypeOK
<1>4. QED
  BY <1>2, <1>3, LiveLeast DEF IInv

\* When GC_mark_some reports the end of a mark phase every reachable object
\* is marked.
THEOREM MarkComplete == KindsAgree /\ LimitClear /\ Spec => []LiveMarked
<1>1. IInv => LiveMarked
  BY FinishLive DEF LiveMarked
<1>2. QED
  BY <1>1, MarkerInvariance, PTL

\* What is reachable depends on the heap only.
LEMMA LiveSame ==
  ASSUME UNCHANGED heap
  PROVE  Live' = Live
<1>1. allocated' = allocated /\ points' = points
  BY DEF heap
<1>2. Base' = Base
  BY <1>1 DEF Base
<1>3. \A S : Closed(S)' <=> Closed(S)
  BY <1>1 DEF Closed
<1>4. QED
  BY <1>2, <1>3 DEF Live

\* Every step of the collector and of the program is a step of Collector.
LEMMA StepRefines ==
  ASSUME IInv, [Next]_vars
  PROVE  [HeapNext]_heap
<1>1. CASE Program
  <2>1. ASSUME NEW o \in Obj, Malloc(o) PROVE HeapNext
    BY <2>1 DEF Malloc, HeapNext, Mutate
  <2>2. ASSUME NEW n \in Node, NEW q \in Obj, Store(n, q) \/ Clear(n, q) PROVE HeapNext
    BY <2>2 DEF HeapNext, Mutate
  <2>3. QED
    BY <1>1, <2>1, <2>2 DEF Program
<1>2. CASE Finish
  <2>1. pc = "finish" /\ Reclaim(allocated \ marked)
    BY <1>2 DEF Finish
  <2>2. allocated \ marked \in SUBSET (allocated \ Live)
    BY <2>1, FinishLive
  <2>3. QED
    BY <2>1, <2>2 DEF HeapNext
<1>3. CASE UNCHANGED heap
  BY <1>3
<1>4. Program \/ Finish \/ UNCHANGED heap
  BY DEF Next, vars, Mark, GC_mark_some, Collect, Abandon, ConsiderPointer, NextEntry,
     TakeEntry, MarkFromReturns, RootsPushed, PushUncollectable, DrainRoots, FirstPass,
     RescanDrains, Rescan
<1>5. QED
  BY <1>1, <1>2, <1>3, <1>4

\* The collector keeps its promise to the program: a collection takes back
\* only objects that the program cannot reach.
THEOREM Implements == KindsAgree /\ LimitClear /\ Spec => HeapSpec
<1>1. Init => HeapInit
  BY DEF Init
<1>2. IInv /\ [Next]_vars => [HeapNext]_heap
  BY StepRefines
<1>3. QED
  BY <1>1, <1>2, MarkerInvariance, PTL DEF Spec, HeapSpec

-----------------------------------------------------------------------------
(***************************************************************************)
(* Nothing but what is reachable is marked.                                *)
(***************************************************************************)

\* The pointers of an entry are to live objects if the entry is.
LEMMA EntryLive ==
  ASSUME TypeOK, NEW e \in Live \cup Roots
  PROVE  points[e] \subseteq Live
  BY LiveClosed DEF Closed, Base, Roots

\* Taking an entry keeps LiveOnly.
LEMMA TakeEntryLive ==
  ASSUME LimitClear, IInv, LiveOnly, todo = {}, pc # "program", TakeEntry
  PROVE  LiveOnly'
<1>1. Live' = Live /\ marked' = marked
  BY LiveSame DEF TakeEntry
<1>2. marked \subseteq Live /\ Stacked \subseteq Live \cup {STATIC}
  BY DEF LiveOnly
<1>3. Stacked' \subseteq Stacked
  BY TakeCovers DEF IInv
<1>4. PICK e \in Stacked : todo' = points[e]
  BY TakeCovers DEF IInv
<1>5. todo' \subseteq Live
  BY <1>2, <1>4, EntryLive DEF IInv, Roots
<1>6. QED
  BY <1>1, <1>2, <1>3, <1>5 DEF LiveOnly

\* Pushing the roots keeps LiveOnly.
LEMMA PushRootsLive ==
  ASSUME IInv, LiveOnly, todo = {}, pc # "program", Len(mstack) < msize,
         UNCHANGED <<heap, marked>>, GC_push_roots
  PROVE  LiveOnly'
<1>1. Stacked' = Stacked \cup {STATIC} /\ todo' = points[STACK]
  BY PushRootsCovers DEF IInv
<1>2. Live' = Live
  BY LiveSame
<1>3. todo' \subseteq Live
  BY <1>1, EntryLive DEF IInv, Roots
<1>4. QED
  BY <1>1, <1>2, <1>3 DEF LiveOnly

\* Every step keeps LiveOnly.
LEMMA NextLive ==
  ASSUME IInv, KindsAgree, LimitClear, LiveOnly, [Next]_vars
  PROVE  LiveOnly'
<1>1. CASE Program
  <2>1. pc' = "program"
    BY <1>1 DEF Program, Malloc, marker
  <2>2. QED
    BY <2>1 DEF LiveOnly
<1>2. CASE Collect
  <2>1. /\ marked' = {o \in marked : IS_UNCOLLECTABLE(KindOf[o])} /\ mstack' = <<>>
        /\ pc = "program" /\ UNCHANGED heap /\ todo' = todo
    BY <1>2 DEF Collect
  <2>2. todo' = {} /\ Stacked' = {}
    BY <2>1 DEF IInv, Phases, Stacked
  <2>3. marked' \subseteq Base
    BY <2>1 DEF KindsAgree, Base, IInv, MarksKept, TypeOK
  <2>4. marked' \subseteq Live'
    BY <2>1, <2>3, LiveSame, LiveClosed DEF IInv
  <2>5. QED
    BY <2>2, <2>4 DEF LiveOnly
<1>3. CASE PushUncollectable
  <2>1. pc = "mark_some" /\ todo = {}
    BY <1>3 DEF PushUncollectable, IInv, Phases
  <2>2. CASE TakeEntry
    BY <2>1, <2>2, TakeEntryLive
  <2>3. ASSUME NEW o \in Obj, GC_push_marked(o), UNCHANGED <<heap, marked, msize, mslimit, pc, todo>>
        PROVE  LiveOnly'
    <3>1. Stacked' \subseteq Stacked \cup marked
      <4>1. CASE o \in marked
        BY <4>1, <2>3, PushObj DEF GC_push_marked, IInv
      <4>2. CASE o \notin marked
        BY <4>2, <2>3 DEF GC_push_marked, Stacked
      <4>3. QED
        BY <4>1, <4>2
    <3>2. QED
      BY <2>3, <3>1, LiveSame DEF LiveOnly
  <2>4. ASSUME ~NearlyFull, GC_push_roots, UNCHANGED <<heap, marked>>
        PROVE  LiveOnly'
    <3>1. msize \in Nat \ {0} /\ Len(mstack) \in Nat
      BY DEF IInv, TypeOK
    <3>2. Len(mstack) < msize
      BY <2>4, <3>1 DEF NearlyFull
    <3>3. QED
      BY <2>1, <2>4, <3>2, PushRootsLive
  <2>5. QED
    BY <1>3, <2>2, <2>3, <2>4 DEF PushUncollectable
<1>4. CASE DrainRoots
  <2>1. pc = "mark_some" /\ todo = {}
    BY <1>4 DEF DrainRoots, IInv, Phases
  <2>2. CASE TakeEntry
    BY <2>1, <2>2, TakeEntryLive
  <2>3. CASE UNCHANGED <<heap, marked, mstack, todo>>
    BY <2>1, <2>3, LiveSame DEF LiveOnly, Stacked
  <2>4. QED
    BY <1>4, <2>2, <2>3 DEF DrainRoots
<1>5. CASE FirstPass \/ MarkFromReturns \/ RootsPushed
  <2>1. pc # "program" /\ UNCHANGED <<heap, marked, mstack, todo>>
    BY <1>5 DEF FirstPass, MarkFromReturns, RootsPushed
  <2>2. QED
    BY <2>1, LiveSame DEF LiveOnly, Stacked
<1>6. CASE RescanDrains \/ NextEntry
  <2>1. pc # "program" /\ todo = {} /\ TakeEntry
    BY <1>6 DEF RescanDrains, NextEntry, IInv, Phases
  <2>2. QED
    BY <2>1, TakeEntryLive
<1>7. CASE Rescan
  <2>1. pc = "mark_some" /\ todo = {} /\ mstack = <<>> /\ UNCHANGED <<heap, marked>>
    BY <1>7 DEF Rescan, IInv, Phases, GC_mark_stack_empty
  <2>2. CASE GC_push_roots
    <3>1. Len(mstack) < msize
      BY <2>1 DEF IInv, TypeOK
    <3>2. QED
      BY <2>1, <2>2, <3>1, PushRootsLive
  <2>3. ASSUME NEW o \in Obj, todo' = todo,
               mstack' = IF o \in marked /\ KindOf[o] # PTRFREE THEN <<o>> ELSE <<>>
        PROVE  LiveOnly'
    <3>1. Stacked' \subseteq marked
      BY <2>3 DEF Stacked
    <3>2. QED
      BY <2>1, <2>3, <3>1, LiveSame DEF LiveOnly
  <2>4. CASE UNCHANGED <<mstack, todo>>
    BY <2>1, <2>4, LiveSame DEF LiveOnly, Stacked
  <2>5. QED
    BY <1>7, <2>2, <2>3, <2>4 DEF Rescan
<1>8. CASE ConsiderPointer
  <2>1. PICK q \in todo : PUSH_CONTENTS(q) /\ todo' = todo \ {q}
    BY <1>8 DEF ConsiderPointer
  <2>2. UNCHANGED heap /\ pc # "program"
    BY <1>8 DEF ConsiderPointer
  <2>3. q \in allocated
    BY DEF IInv, NoDangling
  <2>4. marked' = marked \cup {q} /\ Stacked' \subseteq Stacked \cup {q}
    BY <2>1, <2>3, PushContents DEF IInv
  <2>5. QED
    BY <2>1, <2>2, <2>4, LiveSame DEF LiveOnly
<1>9. CASE Abandon \/ Finish
  BY <1>9 DEF Abandon, Finish, LiveOnly
<1>10. CASE UNCHANGED vars
  <2>1. UNCHANGED heap /\ UNCHANGED <<marked, mstack, pc, todo>>
    BY <1>10 DEF vars, marker
  <2>2. QED
    BY <2>1, LiveSame DEF LiveOnly, Stacked
<1>11. QED
  BY <1>1, <1>2, <1>3, <1>4, <1>5, <1>6, <1>7, <1>8, <1>9, <1>10
     DEF Next, Mark, GC_mark_some

\* When GC_mark_some reports the end of a mark phase nothing but reachable
\* objects is marked: where the kinds agree, a collection takes back all the
\* garbage.
THEOREM MarkSound == KindsAgree /\ LimitClear /\ Spec => []OnlyLiveMarked
<1> DEFINE J == KindsAgree /\ LimitClear /\ LiveOnly
<1>1. KindsAgree /\ LimitClear /\ Init => J
  BY DEF Init, LiveOnly
<1>2. IInv /\ J /\ [Next]_vars => J'
  BY NextLive
<1>3. J => OnlyLiveMarked
  BY DEF LiveOnly, OnlyLiveMarked
<1> HIDE DEF J
<1>4. QED
  BY <1>1, <1>2, <1>3, MarkerInvariance, PTL DEF Spec
=============================================================================
