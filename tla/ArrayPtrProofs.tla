--------------------------- MODULE ArrayPtrProofs ---------------------------
(***************************************************************************)
(* Proofs about ArrayPtr, for every word size, element size, block and     *)
(* number of variables.                                                    *)
(***************************************************************************)
EXTENDS ArrayPtr, TLAPS

(***************************************************************************)
(* Arithmetic.                                                             *)
(***************************************************************************)

\* A remainder is below the divisor, and a number below it is its own.
LEMMA ModRange ==
  ASSUME NEW n \in Int, NEW m \in Nat \ {0}
  PROVE  n % m \in 0 .. m - 1
  OBVIOUS

LEMMA ModSmall ==
  ASSUME NEW m \in Nat \ {0}, NEW n \in 0 .. m - 1
  PROVE  n % m = n
  OBVIOUS

\* Multiplication by a size is monotone and does not shrink.
LEMMA ProductOrder ==
  ASSUME NEW a \in Nat, NEW b \in Nat, NEW c \in Nat, a <= b
  PROVE  a * c \in Nat /\ a * c <= b * c
  OBVIOUS

LEMMA ProductGrows ==
  ASSUME NEW a \in Nat, NEW e \in Nat \ {0}
  PROVE  a <= a * e
  OBVIOUS

\* Rounding down to whole elements (the size that a cast computes).
LEMMA RoundDown ==
  ASSUME NEW n \in Nat, NEW e \in Nat \ {0}
  PROVE  n \div e \in Nat /\ (n \div e) * e <= n
  OBVIOUS

\* A whole number of elements is not rounded.
LEMMA Whole ==
  ASSUME NEW n \in Nat, NEW e \in Nat \ {0}, n % e = 0
  PROVE  n \div e \in Nat /\ (n \div e) * e = n
  OBVIOUS

\* The long that a sum wraps to, and the cases in which it does not wrap.
LEMMA ToLongRange ==
  ASSUME NEW n \in Int
  PROVE  ToLong(n) \in LONG
  BY ModRange, ArrayAssumption DEF ToLong, LONG

LEMMA ToLongSame ==
  ASSUME NEW n \in LONG
  PROVE  ToLong(n) = n
<1>1. n + Half \in 0 .. (2 * Half) - 1 /\ 2 * Half \in Nat \ {0} /\ Half \in Nat /\ n \in Int
  BY ArrayAssumption DEF LONG
<1>2. (n + Half) % (2 * Half) = n + Half
  BY <1>1, ModSmall
<1>3. QED
  BY <1>1, <1>2 DEF ToLong

LEMMA ToSizeSame ==
  ASSUME NEW n \in SIZE_T
  PROVE  ToSize(n) = n
<1>1. n \in 0 .. (2 * Half) - 1 /\ 2 * Half \in Nat \ {0}
  BY ArrayAssumption DEF SIZE_T
<1>2. QED
  BY <1>1, ModSmall DEF ToSize

\* Element sizes.
LEMMA EltNat ==
  ASSUME NEW v \in AVar
  PROVE  EltOf[v] \in Nat \ {0} /\ EltOf[v] \in Elts /\ EltOf[v] \in Int
  BY ArrayAssumption DEF Elts

\* Blocks and the fields of an aptr are numbers.
LEMMA BlockNat ==
  ASSUME IInv, NEW b \in Bases
  PROVE  b \in Int /\ b # NULL /\ len[b] \in Int /\ len[b] >= 0
<1>1. b \in Nat \ {0}
  BY ArrayAssumption
<1>2. len[b] \in 0 .. MaxLen /\ MaxLen \in Int
  BY ArrayAssumption DEF IInv, TypeOK
<1>3. QED
  BY <1>1, <1>2 DEF NULL

LEMMA FieldTypes ==
  ASSUME IInv, NEW v \in AVar
  PROVE  /\ ap[v] \in Aptr
         /\ ap[v].data \in {NULL} \cup Bases /\ ap[v].data \in Int
         /\ ap[v].index \in LONG /\ ap[v].index \in Int
<1>1. ap[v] \in Aptr
  BY DEF IInv, TypeOK
<1>2. ap[v].data \in {NULL} \cup Bases /\ ap[v].index \in LONG
  BY <1>1 DEF Aptr
<1>3. ap[v].data \in Int
  BY <1>2, BlockNat DEF NULL
<1>4. ap[v].index \in Int
  BY <1>2, ArrayAssumption DEF LONG
<1>5. QED
  BY <1>1, <1>2, <1>3, <1>4

(***************************************************************************)
(* The value a of an aptr with elements of e bytes describes its block.    *)
(***************************************************************************)
Describes(a, e) ==
  /\ a \in Aptr
  /\ a.size * e <= MaxLen
  /\ a.data # NULL => len[a.data] # 0 /\ a.size * e <= len[a.data]

\* Every variable holds such a value.
LEMMA VariablesDescribe ==
  ASSUME IInv, NEW v \in AVar
  PROVE  Describes(ap[v], EltOf[v])
  BY DEF IInv, TypeOK, SizeFits, Described, Describes

\* Moving the index changes nothing of it.
LEMMA MovedDescribes ==
  ASSUME NEW a, NEW e, Describes(a, e), NEW n \in Int
  PROVE  Describes([a EXCEPT !.index = ToLong(n)], e)
  BY ToLongRange DEF Describes, Aptr

\* An operation that gives v such a value keeps the invariant.
LEMMA SetAptrKeeps ==
  ASSUME IInv, NEW v \in AVar, NEW a, Describes(a, EltOf[v]), SetAptr(v, a)
  PROVE  IInv'
<1>1. ap' = [ap EXCEPT ![v] = a] /\ len' = len /\ pv' = pv /\ aborted' = aborted
  BY DEF SetAptr
<1>2. TypeOK'
  BY <1>1 DEF IInv, TypeOK, Describes
<1>3. \A u \in AVar : ap'[u] = IF u = v THEN a ELSE ap[u]
  BY <1>1 DEF IInv, TypeOK
<1>4. SizeFits' /\ Described'
  BY <1>1, <1>3 DEF IInv, SizeFits, Described, Describes
<1>5. Pointed'
  BY <1>1 DEF IInv, Pointed
<1>6. QED
  BY <1>2, <1>4, <1>5 DEF IInv

\* NewArray takes an unused address, which no pointer that counts names.
LEMMA NewArrayKeeps ==
  ASSUME IInv, NEW v \in AVar, NEW b \in Bases, NEW n \in 0 .. MaxLen, NewArray(v, b, n)
  PROVE  IInv'
<1> DEFINE e == EltOf[v]
           bytes == IF n = 0 THEN 1 ELSE n * e
           a == [data |-> b, index |-> 0, size |-> n]
<1>1. /\ len[b] = 0 /\ n * e <= MaxLen
      /\ len' = [len EXCEPT ![b] = bytes] /\ ap' = [ap EXCEPT ![v] = a]
      /\ pv' = pv /\ aborted' = aborted
  BY DEF NewArray
<1>2. n \in Nat /\ MaxLen \in Nat /\ MaxLen >= 1 /\ b \in Nat /\ b # NULL
  BY ArrayAssumption DEF NULL
<1>3. n * e \in Nat /\ (n # 0 => n * e >= 1)
  BY <1>2, EltNat, ProductOrder, ProductGrows
<1>4. bytes \in 1 .. MaxLen /\ n * e <= bytes
  <2>1. CASE n = 0
    BY <2>1, <1>2, EltNat
  <2>2. CASE n # 0
    BY <2>2, <1>1, <1>2, <1>3
  <2>3. QED
    BY <2>1, <2>2
<1>5. a \in Aptr
  BY <1>2, ArrayAssumption DEF Aptr, LONG
<1>6. \A u \in AVar : ap'[u] = IF u = v THEN a ELSE ap[u]
  BY <1>1 DEF IInv, TypeOK
<1>7. \A c \in Bases : len'[c] = IF c = b THEN bytes ELSE len[c]
  BY <1>1 DEF IInv, TypeOK
<1>8. TypeOK'
  BY <1>1, <1>4, <1>5 DEF IInv, TypeOK
<1>9. SizeFits'
  BY <1>1, <1>6 DEF IInv, SizeFits
<1>10. Described'
  <2> SUFFICES ASSUME NEW u \in AVar, ap'[u].data # NULL
               PROVE  len'[ap'[u].data] # 0 /\ ap'[u].size * EltOf[u] <= len'[ap'[u].data]
    BY DEF Described
  <2>1. CASE u = v
    BY <2>1, <1>4, <1>6, <1>7
  <2>2. CASE u # v
    <3>1. ap'[u] = ap[u] /\ ap[u].data \in Bases
      BY <2>2, <1>6 DEF IInv, TypeOK, Aptr
    <3>2. len[ap[u].data] # 0 /\ ap[u].size * EltOf[u] <= len[ap[u].data]
      BY <3>1 DEF IInv, Described
    <3>3. ap[u].data # b
      BY <3>2, <1>1
    <3>4. QED
      BY <3>1, <3>2, <3>3, <1>7
  <2>3. QED
    BY <2>1, <2>2
<1>11. Pointed'
  <2> SUFFICES ASSUME NEW p \in PVar, ~pv[p].wild, pv[p].elt # 0
               PROVE  \E c \in Bases : c <= pv[p].addr /\ pv[p].addr + pv[p].elt <= c + len'[c]
    BY <1>1 DEF Pointed
  <2>1. PICK c \in Bases : c <= pv[p].addr /\ pv[p].addr + pv[p].elt <= c + len[c]
    BY DEF IInv, Pointed
  <2>2. pv[p].addr \in Int /\ pv[p].elt \in Nat /\ c \in Int
    BY EltNat, ArrayAssumption DEF IInv, TypeOK, Ptr, Elts
  <2>3. c # b
    BY <2>1, <2>2, <1>1
  <2>4. QED
    BY <2>1, <2>3, <1>7
<1>12. QED
  BY <1>8, <1>9, <1>10, <1>11 DEF IInv

\* A cast rounds the size down to whole elements of the new type.
LEMMA CastKeeps ==
  ASSUME IInv, NEW v \in AVar, NEW u \in AVar, Cast(v, u)
  PROVE  IInv'
<1> DEFINE bytes == ap[u].size * EltOf[u]
           a == [ap[u] EXCEPT !.size = CastSize(v, u)]
<1>1. Describes(ap[u], EltOf[u])
  BY VariablesDescribe
<1>2. ap[u].size \in Nat /\ bytes \in Nat /\ MaxLen \in Nat
  BY <1>1, EltNat, ProductOrder, ArrayAssumption DEF Describes, Aptr
<1>3. bytes \in SIZE_T
  BY <1>1, <1>2, ArrayAssumption DEF Describes, SIZE_T
<1>4. CastSize(v, u) = bytes \div EltOf[v]
  BY <1>3, ToSizeSame DEF CastSize
<1>5. CastSize(v, u) \in Nat /\ CastSize(v, u) * EltOf[v] <= bytes
  BY <1>2, <1>4, EltNat, RoundDown
<1>6. CastSize(v, u) <= CastSize(v, u) * EltOf[v] /\ CastSize(v, u) * EltOf[v] \in Nat
  BY <1>5, EltNat, ProductGrows, ProductOrder
<1>7. bytes <= MaxLen /\ (ap[u].data # NULL => len[ap[u].data] # 0 /\ bytes <= len[ap[u].data])
  BY <1>1 DEF Describes
<1>8. a \in Aptr /\ a.data = ap[u].data /\ a.size = CastSize(v, u)
  BY <1>1, <1>2, <1>5, <1>6, <1>7 DEF Describes, Aptr
<1>9. ap[u].data # NULL => len[ap[u].data] \in Nat
  BY <1>1 DEF Describes, Aptr, IInv, TypeOK
<1>10. Describes(a, EltOf[v])
  BY <1>2, <1>5, <1>6, <1>7, <1>8, <1>9 DEF Describes
<1>11. QED
  BY <1>10, SetAptrKeeps DEF Cast

\* The element at an index within the size lies in the block.
LEMMA ElementInBlock ==
  ASSUME IInv, NEW v \in AVar, ap[v].data # NULL, NEW k \in Nat, k < ap[v].size
  PROVE  /\ ap[v].data \in Bases
         /\ k * EltOf[v] \in Nat
         /\ (k + 1) * EltOf[v] = k * EltOf[v] + EltOf[v]
         /\ k * EltOf[v] + EltOf[v] <= len[ap[v].data]
<1>1. Describes(ap[v], EltOf[v])
  BY VariablesDescribe
<1>2. ap[v].data \in Bases /\ ap[v].size \in Nat /\ k + 1 <= ap[v].size /\ k + 1 \in Nat
  BY <1>1, ArrayAssumption DEF Describes, Aptr
<1>3. EltOf[v] \in Nat
  BY EltNat
<1>4. (k + 1) * EltOf[v] <= ap[v].size * EltOf[v] /\ k * EltOf[v] \in Nat
      /\ (k + 1) * EltOf[v] \in Nat /\ ap[v].size * EltOf[v] \in Nat
  BY <1>2, <1>3, ProductOrder
<1>5. (k + 1) * EltOf[v] = k * EltOf[v] + EltOf[v]
  BY <1>3
<1>6. ap[v].size * EltOf[v] <= len[ap[v].data] /\ len[ap[v].data] \in Nat
  BY <1>1, <1>2 DEF Describes, IInv, TypeOK
<1>7. QED
  BY <1>2, <1>4, <1>5, <1>6

\* A conversion that is not refused names such an element.
LEMMA ToPtrKeeps ==
  ASSUME IInv, NEW v \in AVar, NEW p \in PVar, ToPtr(p, v)
  PROVE  IInv'
<1> DEFINE k == ap[v].index
           q == [addr |-> ap[v].data + k * EltOf[v], elt |-> EltOf[v],
                 wild |-> ap[v].data = NULL]
<1>1. len' = len /\ ap' = ap
  BY DEF ToPtr
<1>2. SizeFits' /\ Described'
  BY <1>1 DEF IInv, SizeFits, Described
<1>3. CASE pv' = pv /\ aborted' = TRUE
  <2>1. TypeOK' /\ Pointed'
    BY <1>1, <1>3 DEF IInv, TypeOK, Pointed
  <2>2. QED
    BY <1>2, <2>1 DEF IInv
<1>4. CASE /\ ~(ap[v].data # NULL /\ ~BOUNDS_CHECK_INDEX(ap[v], 0))
           /\ pv' = [pv EXCEPT ![p] = q] /\ aborted' = aborted
  <2>1. ap[v] \in Aptr /\ k \in LONG /\ k \in Int /\ EltOf[v] \in Int /\ ap[v].data \in Int
    BY EltNat, FieldTypes
  <2>2. q \in Ptr
    BY <2>1, EltNat DEF Ptr
  <2>3. TypeOK'
    BY <1>1, <1>4, <2>2 DEF IInv, TypeOK
  <2>4. Pointed'
    <3> SUFFICES ASSUME NEW r \in PVar, ~pv'[r].wild, pv'[r].elt # 0
                 PROVE  \E b \in Bases :
                          b <= pv'[r].addr /\ pv'[r].addr + pv'[r].elt <= b + len[b]
      BY <1>1 DEF Pointed
    <3>1. CASE r # p
      BY <3>1, <1>4 DEF IInv, TypeOK, Pointed
    <3>2. CASE r = p
      <4>1. pv'[r] = q
        BY <3>2, <1>4 DEF IInv, TypeOK
      <4>2. ap[v].data # NULL
        <5>1. q.wild = (ap[v].data = NULL)
          OBVIOUS
        <5>2. QED
          BY <4>1, <5>1, Zenon
      <4>3. ToLong(k + 0) = k
        BY <2>1, ToLongSame
      <4>4. k >= 0 /\ k < ap[v].size
        BY <4>2, <4>3, <1>4 DEF BOUNDS_CHECK_INDEX
      <4>5. k \in Nat
        BY <4>4, <2>1
      <4>6. /\ ap[v].data \in Bases
            /\ k * EltOf[v] \in Nat
            /\ k * EltOf[v] + EltOf[v] <= len[ap[v].data]
        BY <4>2, <4>4, <4>5, ElementInBlock
      <4>7. len[ap[v].data] \in Int
        BY <4>6 DEF IInv, TypeOK
      <4>8. QED
        BY <4>1, <4>6, <4>7, <2>1
    <3>3. QED
      BY <3>1, <3>2
  <2>5. QED
    BY <1>2, <2>3, <2>4 DEF IInv
<1>5. QED
  BY <1>3, <1>4 DEF ToPtr

\* The collector takes only blocks that no pointer keeps.
LEMMA CollectKeeps ==
  ASSUME IInv, NEW b \in Bases, Collect(b)
  PROVE  IInv'
<1>1. ap' = ap /\ pv' = pv /\ aborted' = aborted /\ len' = [len EXCEPT ![b] = 0]
  BY DEF Collect
<1>2. \A c \in Bases : len'[c] = IF c = b THEN 0 ELSE len[c]
  BY <1>1 DEF IInv, TypeOK
<1>3. TypeOK' /\ SizeFits'
  BY <1>1, ArrayAssumption DEF IInv, TypeOK, SizeFits
<1>4. Described'
  BY <1>1, <1>2 DEF Collect, IInv, TypeOK, Aptr, Described
<1>5. Pointed'
  <2> SUFFICES ASSUME NEW p \in PVar, ~pv[p].wild, pv[p].elt # 0
               PROVE  \E c \in Bases : c <= pv[p].addr /\ pv[p].addr + pv[p].elt <= c + len'[c]
    BY <1>1 DEF Pointed
  <2>1. PICK c \in Bases : c <= pv[p].addr /\ pv[p].addr + pv[p].elt <= c + len[c]
    BY DEF IInv, Pointed
  <2>2. pv[p].addr \in Int /\ pv[p].elt \in Nat /\ c \in Int /\ len[c] \in Int
    BY EltNat, BlockNat DEF IInv, TypeOK, Ptr, Elts
  <2>3. pv[p].addr \in Block(c)
    <3>1. c <= pv[p].addr /\ pv[p].addr <= c + len[c] - 1
      BY <2>1, <2>2
    <3>2. QED
      BY <3>1, <2>2 DEF Block
  <2>4. c # b
    BY <2>3 DEF Collect
  <2>5. QED
    BY <2>1, <2>4, <1>2
<1>6. QED
  BY <1>3, <1>4, <1>5 DEF IInv

-----------------------------------------------------------------------------
\* The invariant holds initially.
LEMMA InitIInv == Init => IInv
<1> SUFFICES ASSUME Init PROVE IInv
  OBVIOUS
<1>1. Null \in Aptr /\ Null.size = 0 /\ Null.data = NULL
  BY ArrayAssumption DEF Null, Aptr, LONG, NULL
<1>2. \A v \in AVar : ap[v] = Null
  BY DEF Init
<1>3. TypeOK
  <2>1. len \in [Bases -> 0 .. MaxLen]
    BY ArrayAssumption DEF Init
  <2>2. [addr |-> NULL, elt |-> 0, wild |-> FALSE] \in Ptr
    BY DEF Ptr, NULL
  <2>3. ap \in [AVar -> Aptr] /\ pv \in [PVar -> Ptr] /\ aborted \in BOOLEAN
    BY <1>1, <2>2 DEF Init
  <2>4. QED
    BY <2>1, <2>3 DEF TypeOK
<1>4. SizeFits
  BY <1>1, <1>2, EltNat, ArrayAssumption DEF SizeFits
<1>5. Described /\ Pointed
  BY <1>1, <1>2 DEF Init, Described, Pointed
<1>6. QED
  BY <1>3, <1>4, <1>5 DEF IInv

\* And every step keeps it.
LEMMA NextIInv == IInv /\ [Next]_vars => IInv'
<1> SUFFICES ASSUME IInv, [Next]_vars PROVE IInv'
  OBVIOUS
<1>1. ASSUME NEW v \in AVar, NEW b \in Bases, NEW n \in 0 .. MaxLen, NewArray(v, b, n)
      PROVE  IInv'
  BY <1>1, NewArrayKeeps
<1>2. ASSUME NEW v \in AVar, AssignNull(v) PROVE IInv'
  <2>1. Describes(Null, EltOf[v])
    BY EltNat, ArrayAssumption DEF Describes, Null, Aptr, LONG, NULL
  <2>2. QED
    BY <1>2, <2>1, SetAptrKeeps DEF AssignNull
<1>3. ASSUME NEW v \in AVar, Free(v) PROVE IInv'
  <2>1. Describes([ap[v] EXCEPT !.data = NULL], EltOf[v])
    BY VariablesDescribe DEF Describes, Aptr
  <2>2. QED
    BY <1>3, <2>1, SetAptrKeeps DEF Free
<1>4. ASSUME NEW v \in AVar, NEW k \in Ints, Advance(v, k) PROVE IInv'
  <2>1. ap[v].index + k \in Int
    BY ArrayAssumption DEF IInv, TypeOK, Aptr, LONG
  <2>2. Describes([ap[v] EXCEPT !.index = ToLong(ap[v].index + k)], EltOf[v])
    BY <2>1, VariablesDescribe, MovedDescribes
  <2>3. QED
    BY <1>4, <2>2, SetAptrKeeps DEF Advance
<1>5. ASSUME NEW v \in AVar, NEW k \in Ints, Access(v, k) PROVE IInv'
  BY <1>5 DEF Access, IInv, TypeOK, SizeFits, Described, Pointed, BOUNDS_CHECK_INDEX
<1>6. ASSUME NEW v \in AVar, NEW u \in AVar, Copy(v, u) PROVE IInv'
  BY <1>6, VariablesDescribe, SetAptrKeeps DEF Copy
<1>7. ASSUME NEW v \in AVar, NEW u \in AVar, Cast(v, u) PROVE IInv'
  BY <1>7, CastKeeps
<1>8. ASSUME NEW v \in AVar, NEW u \in AVar, NEW d \in SIZE_T, Plus(v, u, d) PROVE IInv'
  <2>1. ap[u].index + d \in Int
    BY ArrayAssumption DEF IInv, TypeOK, Aptr, LONG, SIZE_T
  <2>2. Describes([ap[u] EXCEPT !.index = ToLong(ap[u].index + d)], EltOf[u])
    BY <2>1, VariablesDescribe, MovedDescribes
  <2>3. QED
    BY <1>8, <2>2, SetAptrKeeps DEF Plus
<1>9. ASSUME NEW v \in AVar, NEW u \in AVar, NEW d \in SIZE_T, Minus(v, u, d) PROVE IInv'
  <2>1. ap[u].index - d \in Int
    BY ArrayAssumption DEF IInv, TypeOK, Aptr, LONG, SIZE_T
  <2>2. Describes([ap[u] EXCEPT !.index = ToLong(ap[u].index - d)], EltOf[u])
    BY <2>1, VariablesDescribe, MovedDescribes
  <2>3. QED
    BY <1>9, <2>2, SetAptrKeeps DEF Minus
<1>10. ASSUME NEW v \in AVar, NEW p \in PVar, ToPtr(p, v) PROVE IInv'
  BY <1>10, ToPtrKeeps
<1>11. ASSUME NEW b \in Bases, Collect(b) PROVE IInv'
  BY <1>11, CollectKeeps
<1>12. CASE UNCHANGED vars
  BY <1>12 DEF vars, IInv, TypeOK, SizeFits, Described, Pointed
<1>13. QED
  BY <1>1, <1>2, <1>3, <1>4, <1>5, <1>6, <1>7, <1>8, <1>9, <1>10, <1>11, <1>12 DEF Next

\* The inductive invariant of aptr: what every operation of aptr.hpp keeps.
THEOREM ArrayInvariance == Spec => []IInv
  BY InitIInv, NextIInv, PTL DEF Spec

\* The fields of every aptr and ptr keep their types, through wrapping
\* arithmetic and casts.
THEOREM ArrayTypeCorrect == Spec => []TypeOK
<1>1. IInv => TypeOK
  BY DEF IInv
<1>2. QED
  BY <1>1, ArrayInvariance, PTL

\* Every aptr that has data describes no more than its live block
\* (aptr.hpp, casts.hpp, util.hpp).
THEOREM ArrayDescribed == Spec => []Described
<1>1. IInv => Described
  BY DEF IInv
<1>2. QED
  BY <1>1, ArrayInvariance, PTL

\* An access that passes BOUNDS_CHECK_INDEX touches a live block only, whatever
\* the word size and however often the index wrapped.
THEOREM SpatialSafety == Spec => []AccessSafe
<1>1. IInv => AccessSafe
  <2> SUFFICES ASSUME IInv, NEW v \in AVar, NEW i \in LONG, ap[v].data # NULL,
                      BOUNDS_CHECK_INDEX(ap[v], i),
                      NEW x \in ElementOf(v, ToLong(ap[v].index + i))
               PROVE  x \in LiveBytes
    BY DEF AccessSafe
  <2> DEFINE k == ToLong(ap[v].index + i)
  <2>1. ap[v].index + i \in Int
    BY ArrayAssumption DEF IInv, TypeOK, Aptr, LONG
  <2>2. k \in Int
    BY <2>1, ToLongRange DEF LONG
  <2>3. k \in Nat /\ k < ap[v].size
    BY <2>2 DEF BOUNDS_CHECK_INDEX
  <2> HIDE DEF k
  <2>4. /\ ap[v].data \in Bases
        /\ k * EltOf[v] \in Nat
        /\ (k + 1) * EltOf[v] = k * EltOf[v] + EltOf[v]
        /\ k * EltOf[v] + EltOf[v] <= len[ap[v].data]
    BY <2>3, ElementInBlock
  <2>5. x \in ap[v].data + k * EltOf[v] .. ap[v].data + (k + 1) * EltOf[v] - 1
    BY DEF ElementOf, k
  <2>6. ap[v].data \in Int /\ len[ap[v].data] \in Int /\ EltOf[v] \in Int
    BY <2>4, EltNat, BlockNat
  <2>7. x \in Block(ap[v].data)
    BY <2>4, <2>5, <2>6 DEF Block
  <2>8. QED
    BY <2>4, <2>7 DEF LiveBytes
<1>2. QED
  BY <1>1, ArrayInvariance, PTL

\* A ptr that operator ptr() made of an aptr with data keeps naming a whole
\* element of a live block.
THEOREM SingletonSafety == Spec => []SingletonSafe
<1>1. IInv => SingletonSafe
  <2> SUFFICES ASSUME IInv, NEW p \in PVar, ~pv[p].wild,
                      NEW x \in pv[p].addr .. pv[p].addr + pv[p].elt - 1
               PROVE  x \in LiveBytes
    BY DEF SingletonSafe
  <2>1. pv[p].addr \in Int /\ pv[p].elt \in Nat
    BY EltNat DEF IInv, TypeOK, Ptr, Elts
  <2>2. pv[p].elt # 0
    BY <2>1
  <2>3. PICK b \in Bases : b <= pv[p].addr /\ pv[p].addr + pv[p].elt <= b + len[b]
    BY <2>2 DEF IInv, Pointed
  <2>4. b \in Int /\ len[b] \in Int
    BY <2>3, ArrayAssumption DEF IInv, TypeOK
  <2>5. x \in Block(b)
    BY <2>1, <2>3, <2>4 DEF Block
  <2>6. QED
    BY <2>5 DEF LiveBytes
<1>2. QED
  BY <1>1, ArrayInvariance, PTL

\* What spatialCheck does guarantee holds for every word and element size.
THEOREM SpatialCheckSound == Spec => []SpatialSound
<1>1. IInv => SpatialSound
  <2> SUFFICES ASSUME IInv, NEW v \in AVar, NEW n \in SIZE_T,
                      ap[v].data # NULL, ap[v].index >= 0,
                      n % EltOf[v] = 0, n \div EltOf[v] < Half, spatialCheck(v, n),
                      NEW k \in 0 .. n - 1
               PROVE  ap[v].data + ap[v].index * EltOf[v] + k \in LiveBytes
    BY DEF SpatialSound
  <2> DEFINE e == EltOf[v]
             m == n \div e
             i == ap[v].index
             b == ap[v].data
  <2>1. n \in Nat /\ e \in Nat \ {0} /\ Half \in Nat
    BY EltNat, ArrayAssumption DEF SIZE_T
  <2>2. m \in Nat /\ m * e = n
    BY <2>1, Whole
  <2>3. Describes(ap[v], e)
    BY VariablesDescribe
  <2>4. i \in Nat /\ i < Half /\ ap[v].size \in Nat /\ ap[v].size < Half /\ b \in Bases
    BY <2>3, <2>1, ArrayAssumption DEF Describes, Aptr, LONG
  <2>5. i + m \in SIZE_T /\ ap[v].size \in SIZE_T
    BY <2>1, <2>2, <2>4 DEF SIZE_T
  <2>6. i + m <= ap[v].size
    BY <2>5, ToSizeSame DEF spatialCheck
  <2>7. (i + m) * e <= ap[v].size * e /\ i * e \in Nat /\ (i + m) * e \in Nat
        /\ ap[v].size * e \in Nat
    BY <2>1, <2>2, <2>4, <2>6, ProductOrder
  <2>8. (i + m) * e = i * e + n
    <3>1. (i + m) * e = i * e + m * e
      BY <2>1, <2>2, <2>4
    <3>2. QED
      BY <3>1, <2>2
  <2>9. ap[v].size * e <= len[b] /\ len[b] \in Int /\ b \in Int
    <3>1. len[b] \in Int /\ b \in Int /\ b # NULL
      BY <2>4, BlockNat
    <3>2. QED
      BY <2>3, <3>1 DEF Describes
  <2> HIDE DEF e, m, i, b
  <2>10. b + i * e + k \in Block(b)
    BY <2>1, <2>7, <2>8, <2>9 DEF Block
  <2>11. QED
    BY <2>4, <2>10 DEF LiveBytes, e, i, b
<1>2. QED
  BY <1>1, ArrayInvariance, PTL
=============================================================================
