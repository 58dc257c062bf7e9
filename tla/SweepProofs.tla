----------------------------- MODULE SweepProofs -----------------------------
(***************************************************************************)
(* Proofs about Sweep, for every heap, size of blocks, set of threads and  *)
(* assignment to blocks of kinds that GC_n_kinds counts.                   *)
(***************************************************************************)
EXTENDS Sweep, TLAPS, FiniteSetTheorems, SequenceTheorems, WellFoundedInduction

(***************************************************************************)
(* Lists.                                                                  *)
(***************************************************************************)

\* A nonempty set of numbers has a least one.
LEMMA Least ==
  ASSUME NEW S, S \subseteq Nat, S # {}
  PROVE  \E n \in S : \A m \in S : n <= m
<1> DEFINE R == {ss \in Nat \X Nat : ss[1] < ss[2]}
<1>1. IsWellFoundedOn(R, Nat)
  BY NatLessThanWellFounded DEF OpToRel
<1>2. \E n \in S : \A m \in S : <<m, n>> \notin R
  <2> HIDE DEF R
  <2> QED
    BY <1>1, WFMin
<1>3. PICK n \in S : \A m \in S : <<m, n>> \notin R
  BY <1>2
<1>4. \A m \in S : ~(m < n)
  BY <1>3
<1> QED
  BY <1>4

Ordered(T) == \E s \in [1 .. Cardinality(T) -> T] : Descends(s)

\* A finite set of addresses can be run through from the highest down: the
\* smallest one that could not would lose its lowest member.
LEMMA HasOrder ==
  ASSUME NEW S \in SUBSET Nat, IsFiniteSet(S)
  PROVE  Ordered(S)
<1> DEFINE Bad == {n \in Nat : \E T \in SUBSET Nat : IsFiniteSet(T) /\ Cardinality(T) = n /\ ~Ordered(T)}
<1>1. SUFFICES ASSUME Bad # {} PROVE FALSE
  <2>1. Cardinality(S) \in Nat
    BY FS_CardinalityType
  <2>2. QED
    BY <2>1
<1>2. PICK n \in Bad : \A m \in Bad : n <= m
  <2>1. Bad \subseteq Nat
    OBVIOUS
  <2> HIDE DEF Bad
  <2> QED
    BY <1>1, <2>1, Least
<1>3. PICK T \in SUBSET Nat : IsFiniteSet(T) /\ Cardinality(T) = n /\ ~Ordered(T)
  BY <1>2
<1>4. CASE T = {}
  <2>1. Cardinality(T) = 0
    BY <1>4, FS_EmptySet
  <2>2. <<>> \in [1 .. 0 -> T] /\ Descends(<<>>)
    BY DEF Descends
  <2>3. QED
    BY <1>3, <2>1, <2>2 DEF Ordered
<1>5. CASE T # {}
  <2>1. PICK m \in T : \A x \in T : m <= x
    BY <1>5, Least
  <2>2. PICK U : U = T \ {m}
    OBVIOUS
  <2>3. IsFiniteSet(U) /\ Cardinality(U) = n - 1 /\ U \in SUBSET Nat
    BY <1>3, <2>1, <2>2, FS_RemoveElement
  <2>4. n \in Nat /\ n - 1 \in Nat
    BY <1>2, <2>3, FS_CardinalityType
  <2>5. Ordered(U)
    <3>1. n - 1 \notin Bad
      BY <1>2, <2>4
    <3>2. QED
      BY <2>3, <2>4, <3>1
  <2>6. PICK s \in [1 .. n - 1 -> U] : Descends(s)
    BY <2>3, <2>5 DEF Ordered
  <2>7. PICK t : t = [i \in 1 .. n |-> IF i = n THEN m ELSE s[i]]
    OBVIOUS
  <2>8. t \in [1 .. n -> T]
    BY <2>1, <2>2, <2>4, <2>6, <2>7
  <2>9. Descends(t)
    <3>1. ASSUME NEW i \in 1 .. n, NEW j \in 1 .. n, i < j PROVE t[i] > t[j]
      <4>1. i \in 1 .. n - 1 /\ t[i] = s[i] /\ s[i] \in U
        BY <2>4, <2>6, <2>7, <3>1
      <4>2. CASE j = n
        <5>1. t[j] = m /\ s[i] \in T /\ s[i] # m
          BY <2>2, <2>7, <3>1, <4>1, <4>2
        <5>2. m <= s[i] /\ m \in Nat /\ s[i] \in Nat
          BY <1>3, <2>1, <5>1
        <5>3. QED
          BY <4>1, <5>1, <5>2
      <4>3. CASE j # n
        BY <2>4, <2>6, <2>7, <3>1, <4>1, <4>3 DEF Descends
      <4>4. QED
        BY <4>2, <4>3
    <3>2. QED
      BY <2>8, <3>1 DEF Descends
  <2>10. QED
    BY <1>3, <2>8, <2>9 DEF Ordered
<1>6. QED
  BY <1>4, <1>5

\* The list before it is concatenated.
LEMMA Enumerates ==
  ASSUME NEW S \in SUBSET Nat, IsFiniteSet(S), NEW s,
         s = CHOOSE r \in [1 .. Cardinality(S) -> S] : Descends(r)
  PROVE  s \in Seq(S) /\ IsInjective(s) /\ Range(s) = S
<1>1. s \in [1 .. Cardinality(S) -> S] /\ Descends(s)
  BY HasOrder DEF Ordered
<1>2. Cardinality(S) \in Nat
  BY FS_CardinalityType
<1>3. s \in Seq(S)
  BY <1>1, <1>2
<1>4. IsInjective(s)
  <2>1. \A i \in DOMAIN s : s[i] \in Nat
    BY <1>1
  <2>2. \A i, j \in DOMAIN s : i < j \/ j < i \/ i = j
    BY <1>1, <1>2
  <2>3. ASSUME NEW i \in DOMAIN s, NEW j \in DOMAIN s, s[i] = s[j] PROVE i = j
    <3>a. s[i] \in Nat /\ s[j] \in Nat /\ ~(s[i] > s[j]) /\ ~(s[j] > s[i])
      BY <2>1, <2>3
    <3>1. ~(i < j) /\ ~(j < i)
      BY <1>1, <3>a DEF Descends
    <3>2. QED
      BY <2>2, <3>1
  <2>4. QED
    BY <2>3 DEF IsInjective
<1>5. Range(s) = S
  <2>1. IsFiniteSet(1 .. Cardinality(S)) /\ Cardinality(1 .. Cardinality(S)) = Cardinality(S)
    BY <1>2, FS_Interval
  <2>2. s \in Injection(1 .. Cardinality(S), S)
    BY <1>1, <1>4 DEF Injection
  <2>3. s \in Surjection(1 .. Cardinality(S), S)
    BY <2>1, <2>2, FS_Injection
  <2>4. QED
    BY <1>1, <2>3 DEF Surjection, Range
<1>6. QED
  BY <1>3, <1>4, <1>5

\* Concatenation of lists without a common member.
LEMMA ConcatLists ==
  ASSUME NEW T, NEW s \in Seq(T), NEW t \in Seq(T)
  PROVE  /\ s \o t \in Seq(T) /\ Range(s \o t) = Range(s) \cup Range(t)
         /\ IsInjective(s) /\ IsInjective(t) /\ Range(s) \cap Range(t) = {} => IsInjective(s \o t)
<1>1. /\ s \o t \in Seq(T) /\ Len(s) \in Nat /\ Len(t) \in Nat
      /\ Len(s \o t) = Len(s) + Len(t)
      /\ DOMAIN s = 1 .. Len(s) /\ DOMAIN t = 1 .. Len(t)
      /\ DOMAIN (s \o t) = 1 .. Len(s) + Len(t)
  OBVIOUS
<1>2. \A i \in 1 .. Len(s) + Len(t) :
        (s \o t)[i] = IF i <= Len(s) THEN s[i] ELSE t[i - Len(s)]
  BY ConcatProperties
<1>3. Range(s \o t) = Range(s) \cup Range(t)
  <2>1. \A i \in 1 .. Len(s) + Len(t) :
          (s \o t)[i] \in Range(s) \cup Range(t)
    BY <1>1, <1>2 DEF Range
  <2>2. \A i \in 1 .. Len(s) : i \in 1 .. Len(s) + Len(t) /\ (s \o t)[i] = s[i]
    BY <1>1, <1>2
  <2>3. \A i \in 1 .. Len(t) : i + Len(s) \in 1 .. Len(s) + Len(t) /\ (s \o t)[i + Len(s)] = t[i]
    BY <1>1, <1>2
  <2>4. Range(s \o t) \subseteq Range(s) \cup Range(t)
    BY <1>1, <2>1 DEF Range
  <2>5. Range(s) \subseteq Range(s \o t)
    BY <1>1, <2>2 DEF Range
  <2>6. Range(t) \subseteq Range(s \o t)
    BY <1>1, <2>3 DEF Range
  <2>7. QED
    BY <2>4, <2>5, <2>6
<1>4. ASSUME IsInjective(s), IsInjective(t), Range(s) \cap Range(t) = {}
      PROVE  IsInjective(s \o t)
  <2>1. ASSUME NEW i \in 1 .. Len(s) + Len(t), NEW j \in 1 .. Len(s) + Len(t),
               (s \o t)[i] = (s \o t)[j]
        PROVE  i = j
    <3>1. CASE i <= Len(s) /\ j <= Len(s)
      BY <1>1, <1>2, <1>4, <2>1, <3>1 DEF IsInjective
    <3>2. CASE i > Len(s) /\ j > Len(s)
      <4>1. i - Len(s) \in 1 .. Len(t) /\ j - Len(s) \in 1 .. Len(t)
        BY <1>1, <3>2
      <4>2. t[i - Len(s)] = t[j - Len(s)]
        BY <1>1, <1>2, <2>1, <3>2
      <4>3. i - Len(s) = j - Len(s)
        BY <1>1, <1>4, <4>1, <4>2 DEF IsInjective
      <4>4. QED
        BY <1>1, <4>3
    <3>3. CASE i <= Len(s) /\ j > Len(s)
      <4>1. (s \o t)[i] \in Range(s) /\ (s \o t)[j] \in Range(t)
        BY <1>1, <1>2, <3>3 DEF Range
      <4>2. QED
        BY <1>4, <2>1, <4>1
    <3>4. CASE i > Len(s) /\ j <= Len(s)
      <4>1. (s \o t)[j] \in Range(s) /\ (s \o t)[i] \in Range(t)
        BY <1>1, <1>2, <3>4 DEF Range
      <4>2. QED
        BY <1>4, <2>1, <4>1
    <3>5. QED
      BY <1>1, <3>1, <3>2, <3>3, <3>4
  <2>2. QED
    BY <1>1, <2>1 DEF IsInjective
<1>5. QED
  BY <1>1, <1>3, <1>4

\* What Linked returns.
LEMMA LinkedIs ==
  ASSUME NEW T \in SUBSET Nat, NEW S \in SUBSET T, IsFiniteSet(S), NEW list \in Seq(T)
  PROVE  /\ Linked(S, list) \in Seq(T) /\ Range(Linked(S, list)) = S \cup Range(list)
         /\ IsInjective(list) /\ S \cap Range(list) = {} => IsInjective(Linked(S, list))
<1>1. PICK s : s = CHOOSE r \in [1 .. Cardinality(S) -> S] : Descends(r)
  OBVIOUS
<1>2. s \in Seq(S) /\ IsInjective(s) /\ Range(s) = S
  BY <1>1, Enumerates
<1>3. s \in Seq(T)
  BY <1>2, SeqMonotonic
<1>4. Linked(S, list) = s \o list
  BY <1>1 DEF Linked
<1>5. QED
  BY <1>2, <1>3, <1>4, ConcatLists

\* A list without its first member.
LEMMA TakeFirst ==
  ASSUME NEW T, NEW s \in Seq(T), s # <<>>, IsInjective(s)
  PROVE  /\ Head(s) \in T /\ Head(s) \in Range(s)
         /\ Tail(s) \in Seq(T) /\ IsInjective(Tail(s))
         /\ Range(Tail(s)) = Range(s) \ {Head(s)}
<1>1. /\ Len(s) \in Nat \ {0} /\ DOMAIN s = 1 .. Len(s) /\ Tail(s) \in Seq(T)
      /\ DOMAIN Tail(s) = 1 .. Len(s) - 1 /\ Head(s) = s[1] /\ s[1] \in T
  OBVIOUS
<1>2. \A i \in 1 .. Len(s) - 1 : i + 1 \in 1 .. Len(s) /\ Tail(s)[i] = s[i + 1] /\ i + 1 # 1
  BY <1>1, HeadTailProperties
<1>3. IsInjective(Tail(s))
  <2>1. ASSUME NEW i \in 1 .. Len(s) - 1, NEW j \in 1 .. Len(s) - 1, Tail(s)[i] = Tail(s)[j]
        PROVE  i = j
    <3>1. i + 1 = j + 1
      BY <1>1, <1>2, <2>1 DEF IsInjective
    <3>2. QED
      BY <3>1
  <2>2. QED
    BY <1>1, <2>1 DEF IsInjective
<1>4. \A i \in 1 .. Len(s) : i # 1 => i - 1 \in 1 .. Len(s) - 1 /\ Tail(s)[i - 1] = s[i]
  BY <1>1, <1>2
<1>5. 1 \in 1 .. Len(s)
  BY <1>1
<1>6. Range(Tail(s)) = Range(s) \ {Head(s)}
  <2>1. ASSUME NEW x \in Range(Tail(s)) PROVE x \in Range(s) /\ x # Head(s)
    <3>1. PICK i \in 1 .. Len(s) - 1 : x = Tail(s)[i]
      BY <1>1 DEF Range
    <3>2. x = s[i + 1] /\ i + 1 \in 1 .. Len(s) /\ i + 1 # 1
      BY <1>2, <3>1
    <3>3. QED
      BY <1>1, <1>5, <3>2 DEF Range, IsInjective
  <2>2. ASSUME NEW x \in Range(s), x # Head(s) PROVE x \in Range(Tail(s))
    <3>1. PICK i \in 1 .. Len(s) : x = s[i]
      BY <1>1 DEF Range
    <3>2. i # 1
      BY <1>1, <2>2, <3>1
    <3>3. QED
      BY <1>1, <1>4, <3>1, <3>2 DEF Range
  <2>3. QED
    BY <2>1, <2>2
<1>7. QED
  BY <1>1, <1>3, <1>5, <1>6 DEF Range

\* A list cut in two.
LEMMA CutList ==
  ASSUME NEW T, NEW s \in Seq(T), IsInjective(s), NEW n \in 0 .. Len(s)
  PROVE  /\ SubSeq(s, 1, n) \in Seq(T) /\ IsInjective(SubSeq(s, 1, n))
         /\ SubSeq(s, n + 1, Len(s)) \in Seq(T) /\ IsInjective(SubSeq(s, n + 1, Len(s)))
         /\ Range(SubSeq(s, 1, n)) \cup Range(SubSeq(s, n + 1, Len(s))) = Range(s)
         /\ Range(SubSeq(s, 1, n)) \cap Range(SubSeq(s, n + 1, Len(s))) = {}
<1>1. Len(s) \in Nat /\ n \in Nat /\ n <= Len(s) /\ DOMAIN s = 1 .. Len(s)
  OBVIOUS
<1>a. PICK u : u = SubSeq(s, 1, n)
  OBVIOUS
<1>b. PICK v : v = SubSeq(s, n + 1, Len(s))
  OBVIOUS
<1>2. u \in Seq(T) /\ DOMAIN u = 1 .. n /\ \A i \in 1 .. n : u[i] = s[i] /\ i \in 1 .. Len(s)
  BY <1>1, <1>a
<1>3. /\ v \in Seq(T) /\ DOMAIN v = 1 .. Len(s) - n
      /\ \A i \in 1 .. Len(s) - n : v[i] = s[i + n] /\ i + n \in 1 .. Len(s) /\ i + n > n
  BY <1>1, <1>b
<1>4. IsInjective(u)
  BY <1>1, <1>2 DEF IsInjective
<1>5. IsInjective(v)
  <2>1. ASSUME NEW i \in 1 .. Len(s) - n, NEW j \in 1 .. Len(s) - n, v[i] = v[j]
        PROVE  i = j
    <3>1. i + n = j + n
      BY <1>1, <1>3, <2>1 DEF IsInjective
    <3>2. QED
      BY <1>1, <3>1
  <2>2. QED
    BY <1>3, <2>1 DEF IsInjective
<1>6. \A i \in 1 .. Len(s) : i \in 1 .. n \/ (i - n \in 1 .. Len(s) - n /\ v[i - n] = s[i])
  BY <1>1, <1>3
<1>7. Range(u) \cup Range(v) = Range(s)
  <2>1. Range(u) \subseteq Range(s)
    BY <1>1, <1>2 DEF Range
  <2>2. Range(v) \subseteq Range(s)
    BY <1>1, <1>3 DEF Range
  <2>3. ASSUME NEW x \in Range(s) PROVE x \in Range(u) \cup Range(v)
    <3>1. PICK i \in 1 .. Len(s) : x = s[i]
      BY <1>1 DEF Range
    <3>2. CASE i \in 1 .. n
      BY <1>2, <3>1, <3>2 DEF Range
    <3>3. CASE i - n \in 1 .. Len(s) - n /\ v[i - n] = s[i]
      BY <1>3, <3>1, <3>3 DEF Range
    <3>4. QED
      BY <1>6, <3>2, <3>3
  <2>4. QED
    BY <2>1, <2>2, <2>3
<1>8. Range(u) \cap Range(v) = {}
  <2>1. ASSUME NEW x \in Range(u), x \in Range(v) PROVE FALSE
    <3>1. PICK i \in 1 .. n : x = s[i] /\ i \in 1 .. Len(s)
      BY <1>2 DEF Range
    <3>2. PICK j \in 1 .. Len(s) - n : x = s[j + n] /\ j + n \in 1 .. Len(s) /\ j + n > n
      BY <1>3, <2>1 DEF Range
    <3>3. i = j + n
      BY <1>1, <3>1, <3>2 DEF IsInjective
    <3>4. QED
      BY <3>2, <3>3, <1>1
  <2>2. QED
    BY <2>1
<1>9. QED
  BY <1>a, <1>b, <1>2, <1>3, <1>4, <1>5, <1>7, <1>8

\* A list of one member, and none.
LEMMA ShortLists ==
  ASSUME NEW T, NEW x \in T
  PROVE  /\ <<>> \in Seq(T) /\ IsInjective(<<>>) /\ Range(<<>>) = {}
         /\ <<x>> \in Seq(T) /\ IsInjective(<<x>>) /\ Range(<<x>>) = {x}
BY DEF IsInjective, Range

-----------------------------------------------------------------------------
(***************************************************************************)
(* The heap and the places of the lists.                                   *)
(***************************************************************************)

LEMMA Layout ==
  /\ Obj = 1 .. N /\ Obj \subseteq Nat /\ IsFiniteSet(Obj)
  /\ Node = Obj \cup {STATIC, STACK} /\ STATIC # STACK /\ STATIC \notin Obj /\ STACK \notin Obj
  /\ Block \subseteq Nat /\ IsFiniteSet(Block)
  /\ Kind = {0, 1, 2, 3} /\ Tiny = {0, 1}
  /\ PTRFREE = 0 /\ NORMAL = 1 /\ UNCOLLECTABLE = 2
<1>1. N \in Nat /\ Obj = 1 .. N
  BY SweepAssumption DEF Obj, Heap!Obj
<1>2. IsFiniteSet(1 .. N)
  BY <1>1, FS_Interval
<1>3. N \div PerBlock \in Int
  BY SweepAssumption
<1>4. IsFiniteSet(Block) /\ Block \subseteq Nat
  BY <1>3, FS_Interval DEF Block
<1>5. Node = Obj \cup {STATIC, STACK}
  BY DEF Node, Obj, Heap!Node, Heap!Roots
<1>6. STATIC \notin Obj /\ STACK \notin Obj /\ STATIC # STACK
  BY <1>1, SweepAssumption
<1>7. QED
  BY <1>1, <1>2, <1>4, <1>5, <1>6 DEF Kind, Tiny, PTRFREE, NORMAL, UNCOLLECTABLE,
     Heap!Kind, Heap!PTRFREE, Heap!NORMAL, Heap!UNCOLLECTABLE, Heap!PRECISE

\* The program has objects of the kinds only that the collection's loops reach:
\* no PRECISE ones in the build that has three kinds.
KindsCounted == \A o \in Obj : KindOf[o] < GC_n_kinds

\* Blocks have no object in common, and objects of one kind.
LEMMA Blocks ==
  /\ \A b \in Block : Objs(b) \in SUBSET Obj /\ IsFiniteSet(Objs(b))
  /\ \A b, c \in Block : b # c => Objs(b) \cap Objs(c) = {}
  /\ \A b \in Block : \A o \in Objs(b) : KindOf[o] = BlockKind(b)
<1>1. \A b \in Block : Objs(b) \in SUBSET Obj
  BY DEF Objs
<1>2. \A b \in Block : IsFiniteSet(Objs(b))
  BY <1>1, Layout, FS_Subset
<1>3. \A b, c \in Block : b # c => Objs(b) \cap Objs(c) = {}
  BY DEF Objs
<1>4. QED
  BY <1>1, <1>2, <1>3, SweepAssumption

\* The lists of the kinds that are not counted stay empty.
LEMMA NotCounted ==
  ASSUME KindsCounted, TypeOK, NEW k \in Kind \ Counted
  PROVE  fl[k] = <<>> /\ rlist[k] = <<>>
<1>1. k \in Kind /\ ~(k < GC_n_kinds)
  BY DEF Counted
<1>2. fl[k] \in Seq({o \in Obj : KindOf[o] = k}) /\ rlist[k] \in Seq({b \in Block : BlockKind(b) = k})
  BY <1>1 DEF TypeOK
<1>3. {o \in Obj : KindOf[o] = k} = {}
  BY <1>1 DEF KindsCounted
<1>4. ASSUME NEW b \in Block PROVE (b - 1) * PerBlock + 1 \in Obj
  <2>1. N \in Nat /\ PerBlock \in Nat \ {0} /\ b \in 1 .. N \div PerBlock /\ N % PerBlock = 0
    BY SweepAssumption DEF Block
  <2>2. PICK m \in Int : m = N \div PerBlock
    BY <2>1
  <2>3. m * PerBlock = N
    BY <2>1, <2>2
  <2>4. PICK c \in Nat : c = b - 1 /\ c + 1 <= m
    BY <2>1, <2>2
  <2>5. c * PerBlock \in Nat /\ (c + 1) * PerBlock = c * PerBlock + PerBlock
    BY <2>1
  <2>6. (c + 1) * PerBlock <= m * PerBlock
    BY <2>1, <2>4, SMTT(30)
  <2>7. c * PerBlock + 1 \in 1 .. N
    BY <2>1, <2>3, <2>5, <2>6
  <2>8. QED
    BY <2>4, <2>7, Layout
<1>5. {b \in Block : BlockKind(b) = k} = {}
  BY <1>1, <1>4 DEF KindsCounted, BlockKind
<1>6. QED
  BY <1>2, <1>3, <1>5

LEMMA Places ==
  /\ \A k \in Kind : /\ <<none, k>> \in Place
                     /\ List(<<none, k>>) = fl[k] /\ List(<<none, k>>)' = fl'[k]
  /\ \A t \in Thread, k \in Tiny : /\ <<t, k>> \in Place
                                   /\ List(<<t, k>>) = tl[t][k] /\ List(<<t, k>>)' = tl'[t][k]
  /\ \A p \in Place : \/ \E k \in Kind : p = <<none, k>>
                      \/ \E t \in Thread, k \in Tiny : p = <<t, k>>
  /\ \A t \in Thread, k \in Tiny, j \in Kind : <<t, k>> # <<none, j>>
  /\ Tiny \subseteq Kind
BY SweepAssumption, Layout DEF Place, List

\* The members of the lists.
LEMMA OnListIs ==
  /\ OnList = UNION {Range(List(p)) : p \in Place}
  /\ OnList' = UNION {Range(List(p)') : p \in Place}
BY DEF OnList, Lists

LEMMA LocalListsAre ==
  /\ LocalLists \subseteq OnList /\ LocalLists' \subseteq OnList'
  /\ \A t \in Thread, k \in Tiny : Range(List(<<t, k>>)) \subseteq LocalLists
  /\ \A k \in Kind : Range(fl[k]) \subseteq OnList
  /\ \A x \in OnList : x \in LocalLists \/ \E k \in Kind : x \in Range(fl[k])
<1>a. LocalLists = UNION {Range(tl[t][k]) : t \in Thread, k \in Tiny}
  BY DEF LocalLists
<1>b. LocalLists' = UNION {Range(tl'[t][k]) : t \in Thread, k \in Tiny}
  BY DEF LocalLists
<1>c. \A t \in Thread, k \in Tiny : Range(tl[t][k]) \subseteq OnList
  <2>1. ASSUME NEW t \in Thread, NEW k \in Tiny PROVE Range(tl[t][k]) \subseteq OnList
    <3>1. <<t, k>> \in Place /\ List(<<t, k>>) = tl[t][k]
      BY Places
    <3>2. QED
      BY <3>1, OnListIs
  <2>2. QED
    BY <2>1
<1>d. \A t \in Thread, k \in Tiny : Range(tl'[t][k]) \subseteq OnList'
  <2>1. ASSUME NEW t \in Thread, NEW k \in Tiny PROVE Range(tl'[t][k]) \subseteq OnList'
    <3>1. <<t, k>> \in Place /\ List(<<t, k>>)' = tl'[t][k]
      BY Places
    <3>2. QED
      BY <3>1, OnListIs
  <2>2. QED
    BY <2>1
<1>1. LocalLists \subseteq OnList
  BY <1>a, <1>c
<1>2. LocalLists' \subseteq OnList'
  BY <1>b, <1>d
<1>3. ASSUME NEW t \in Thread, NEW k \in Tiny PROVE Range(List(<<t, k>>)) \subseteq LocalLists
  <2>1. List(<<t, k>>) = tl[t][k]
    BY Places
  <2>2. QED
    BY <1>a, <2>1
<1>4. \A k \in Kind : Range(fl[k]) \subseteq OnList
  BY Places, OnListIs
<1>5. ASSUME NEW x \in OnList PROVE x \in LocalLists \/ \E k \in Kind : x \in Range(fl[k])
  <2>1. PICK p \in Place : x \in Range(List(p))
    BY OnListIs
  <2>2. CASE \E k \in Kind : p = <<none, k>>
    BY <2>1, <2>2, Places
  <2>3. CASE \E t \in Thread, k \in Tiny : p = <<t, k>>
    BY <2>1, <2>3, Places DEF LocalLists
  <2>4. QED
    BY <2>2, <2>3, Places
<1>6. QED
  BY <1>1, <1>2, <1>3, <1>4, <1>5

LEMMA ListTypes ==
  ASSUME TypeOK
  PROVE  /\ \A p \in Place : List(p) \in Seq({o \in Obj : KindOf[o] = p[2]}) /\ List(p) \in Seq(Obj)
         /\ OnList \subseteq Obj
<1>1. ASSUME NEW p \in Place
      PROVE  List(p) \in Seq({o \in Obj : KindOf[o] = p[2]}) /\ List(p) \in Seq(Obj)
                /\ Range(List(p)) \subseteq Obj
  <2>1. List(p) \in Seq({o \in Obj : KindOf[o] = p[2]})
    <3>1. ASSUME NEW k \in Kind, p = <<none, k>>
          PROVE  List(p) \in Seq({o \in Obj : KindOf[o] = p[2]})
      <4>1. List(p) = fl[k] /\ p[2] = k
        BY <3>1, Places
      <4>2. fl[k] \in Seq({o \in Obj : KindOf[o] = k})
        BY DEF TypeOK
      <4>3. QED
        BY <4>1, <4>2
    <3>2. ASSUME NEW t \in Thread, NEW k \in Tiny, p = <<t, k>>
          PROVE  List(p) \in Seq({o \in Obj : KindOf[o] = p[2]})
      <4>1. List(p) = tl[t][k] /\ p[2] = k
        BY <3>2, Places
      <4>2. tl[t][k] \in Seq({o \in Obj : KindOf[o] = k})
        BY DEF TypeOK
      <4>3. QED
        BY <4>1, <4>2
    <3>3. QED
      BY <3>1, <3>2, Places
  <2>2. List(p) \in Seq(Obj)
    BY <2>1, SeqMonotonic
  <2>3. QED
    BY <2>1, <2>2 DEF Range
<1>2. QED
  BY <1>1, OnListIs

Separate ==
  /\ \A p \in Place : IsInjective(List(p))
  /\ \A p, q \in Place : p # q => Range(List(p)) \cap Range(List(q)) = {}

\* One list changes, and what is new on it was on none.
LEMMA OneListChanges ==
  ASSUME Separate, NEW p0 \in Place, NEW new, List(p0)' = new, IsInjective(new),
         \A p \in Place : p # p0 => List(p)' = List(p),
         \A x \in Range(new) : x \in Range(List(p0)) \/ x \notin OnList
  PROVE  Separate' /\ OnList' = (OnList \ Range(List(p0))) \cup Range(new)
<1>1. \A p \in Place : p # p0 => Range(List(p)) \cap Range(new) = {}
  <2>1. ASSUME NEW p \in Place, p # p0, NEW x \in Range(List(p)), x \in Range(new)
        PROVE  FALSE
    <3>1. x \in OnList
      BY <2>1, OnListIs
    <3>2. x \in Range(List(p0))
      BY <2>1, <3>1
    <3>3. QED
      BY <2>1, <3>2 DEF Separate
  <2>2. QED
    BY <2>1
<1>2. \A p \in Place : Range(List(p)') = IF p = p0 THEN Range(new) ELSE Range(List(p))
  OBVIOUS
<1>3. \A p \in Place : IsInjective(List(p)')
  BY DEF Separate
<1>4. \A p, q \in Place : p # q => Range(List(p)') \cap Range(List(q)') = {}
  BY <1>1, <1>2 DEF Separate
<1>5. Separate'
  BY <1>3, <1>4 DEF Separate
<1>6. \A p \in Place : p # p0 => Range(List(p)) \cap Range(List(p0)) = {}
  BY DEF Separate
<1>7. OnList' = (OnList \ Range(List(p0))) \cup Range(new)
  BY <1>2, <1>6, OnListIs
<1>8. QED
  BY <1>5, <1>7

\* Members of one list move to another, whose members are lost.
LEMMA TwoListsChange ==
  ASSUME Separate, NEW p0 \in Place, NEW p1 \in Place, p0 # p1,
         NEW rest, List(p0)' = rest, IsInjective(rest),
         NEW moved, List(p1)' = moved, IsInjective(moved),
         Range(rest) \cup Range(moved) \subseteq Range(List(p0)),
         Range(rest) \cap Range(moved) = {},
         \A p \in Place : p # p0 /\ p # p1 => List(p)' = List(p)
  PROVE  Separate' /\ OnList' \subseteq OnList
<1>1. \A p \in Place : Range(List(p)') =
        IF p = p0 THEN Range(rest) ELSE IF p = p1 THEN Range(moved) ELSE Range(List(p))
  OBVIOUS
<1>2. \A p \in Place : p # p0 => Range(List(p)) \cap Range(List(p0)) = {}
  BY DEF Separate
<1>3. \A p \in Place : IsInjective(List(p)')
  BY DEF Separate
<1>4. \A p, q \in Place : p # q => Range(List(p)') \cap Range(List(q)') = {}
  BY <1>1, <1>2 DEF Separate
<1>5. Separate'
  BY <1>3, <1>4 DEF Separate
<1>6. OnList' \subseteq OnList
  BY <1>1, OnListIs
<1>7. QED
  BY <1>5, <1>6

-----------------------------------------------------------------------------
(***************************************************************************)
(* What the steps have in common.                                          *)
(***************************************************************************)

ListsOK ==
  /\ DOMAIN fl = Kind /\ \A k \in Kind : fl[k] \in Seq({o \in Obj : KindOf[o] = k})
  /\ DOMAIN tl = Thread
  /\ \A t \in Thread :
       DOMAIN tl[t] = Tiny /\ \A k \in Tiny : tl[t][k] \in Seq({o \in Obj : KindOf[o] = k})

QueuesOK ==
  DOMAIN rlist = Kind /\ \A k \in Kind : rlist[k] \in Seq({b \in Block : BlockKind(b) = k})

HolderOK ==
  /\ allocd \in BOOLEAN /\ pc \in PC
  /\ call \in [thread : Thread \cup {none}, what : {"none", "malloc", "many", "gcollect"},
               kind : Kind, retry : BOOLEAN, stop : BOOLEAN]
  /\ CallOK

LEMMA TypeParts ==
  TypeOK /\ CallOK <=>
    /\ held \subseteq Obj /\ contents \in [Node -> SUBSET Obj]
    /\ used \subseteq Block /\ marked \subseteq Obj
    /\ ListsOK /\ QueuesOK /\ HolderOK
BY DEF TypeOK, ListsOK, QueuesOK, HolderOK

\* Lists lose members or exchange some, and nothing else changes.
LEMMA KeepStep ==
  ASSUME IInv, UNCHANGED <<held, contents, used, marked, rlist>>,
         Separate', OnList' \subseteq OnList, ListsOK', HolderOK',
         pc = "finish" <=> pc' = "finish",
         pc = "finish" => LocalLists' \subseteq LocalLists
  PROVE  IInv'
<1> USE DEF IInv
<1>1. TypeOK' /\ CallOK'
  BY TypeParts DEF TypeOK, ListsOK, QueuesOK, HolderOK
<1>2. OneOwner'
  BY DEF OneOwner, Separate, InUse
<1>3. SweepSafe'
  BY DEF SweepSafe
<1>4. UncollectableMarked'
  BY DEF UncollectableMarked
<1>5. NoDangling' /\ QueuedOnce'
  BY DEF NoDangling, QueuedOnce
<1>6. Cleared'
  BY DEF Cleared, InUse
<1>7. MarksClosed'
  BY DEF MarksClosed
<1>8. QED
  BY <1>1, <1>2, <1>3, <1>4, <1>5, <1>6, <1>7

\* The program gets the first object of a list.
LEMMA DeliverStep ==
  ASSUME IInv, NEW p0 \in Place, NEW o, List(p0) # <<>>, o = Head(List(p0)),
         List(p0)' = Tail(List(p0)), \A p \in Place : p # p0 => List(p)' = List(p),
         Deliver(o), UNCHANGED <<used, marked, rlist>>, ListsOK', HolderOK',
         pc = "finish" <=> pc' = "finish",
         pc = "finish" => o \in LocalLists /\ LocalLists' \subseteq LocalLists
  PROVE  IInv'
<1> USE DEF IInv
<1>1. PICK list : list = List(p0)
  OBVIOUS
<1>2. /\ o \in Obj /\ o \in Range(list) /\ IsInjective(Tail(list))
      /\ Range(Tail(list)) = Range(list) \ {o}
  BY <1>1, ListTypes, TakeFirst DEF OneOwner
<1>3. Separate' /\ OnList' = (OnList \ Range(list)) \cup (Range(list) \ {o})
  <2>1. \A x \in Range(Tail(list)) : x \in Range(List(p0))
    BY <1>1, <1>2
  <2>2. Separate
    BY DEF Separate, OneOwner
  <2>3. List(p0)' = Tail(list)
    BY <1>1
  <2>4. QED
    BY <1>1, <1>2, <2>1, <2>2, <2>3, OneListChanges
<1>4. o \in OnList /\ OnList' = OnList \ {o}
  BY <1>1, <1>2, <1>3, OnListIs
<1>5. /\ held' = held \cup {o} /\ contents' \in [Node -> SUBSET Obj]
      /\ contents'[STACK] = contents[STACK] \cup {o}
      /\ \A n \in Node : n # STACK => contents'[n] = contents[n]
  BY <1>2, Layout DEF Deliver, TypeOK
<1>6. contents[o] = {} /\ o \notin held /\ o \in InUse
  BY <1>2, <1>4 DEF Cleared, OneOwner
<1>7. TypeOK' /\ CallOK'
  BY <1>2, <1>5, TypeParts DEF TypeOK, ListsOK, QueuesOK, HolderOK
<1>8. OneOwner'
  BY <1>3, <1>4, <1>5, <1>6 DEF OneOwner, Separate, InUse
<1>9. SweepSafe'
  BY <1>4, <1>5 DEF SweepSafe
<1>10. UncollectableMarked'
  BY <1>4, <1>5 DEF UncollectableMarked
<1>11. NoDangling'
  BY <1>2, <1>5, <1>6, Layout DEF NoDangling, TypeOK
<1>12. QueuedOnce'
  BY DEF QueuedOnce
<1>13. Cleared'
  BY <1>4, <1>5, Layout DEF Cleared, InUse
<1>14. MarksClosed'
  <2>1. ASSUME pc = "finish"
        PROVE  /\ LocalLists' \subseteq marked
               /\ contents'[STATIC] \cup contents'[STACK] \subseteq marked
               /\ \A x \in held' \cap marked : contents'[x] \subseteq marked
    <3>1. /\ LocalLists \subseteq marked /\ contents[STATIC] \cup contents[STACK] \subseteq marked
          /\ \A x \in held \cap marked : contents[x] \subseteq marked
          /\ o \in LocalLists /\ LocalLists' \subseteq LocalLists
      BY <2>1 DEF MarksClosed
    <3>2. STATIC \in Node /\ STATIC # STACK /\ contents'[STATIC] = contents[STATIC]
      BY <1>5, Layout
    <3>3. \A x \in held' : x \in Node /\ x # STACK /\ contents'[x] = contents[x]
      BY <1>2, <1>5, Layout DEF TypeOK
    <3>4. \A x \in held' \cap marked : contents'[x] \subseteq marked
      BY <1>5, <1>6, <3>1, <3>3
    <3>5. QED
      BY <1>5, <3>1, <3>2, <3>4
  <2>2. QED
    BY <2>1 DEF MarksClosed
<1>15. QED
  BY <1>7, <1>8, <1>9, <1>10, <1>11, <1>12, <1>13, <1>14

\* A block leaves its queue; what is not marked in it may go on a list.
LEMMA SweepStep ==
  ASSUME IInv, pc # "finish", pc' # "finish", NEW k \in Kind, NEW b,
         rlist[k] # <<>>, b = Head(rlist[k]), rlist' = [rlist EXCEPT ![k] = Tail(@)],
         GC_reclaim_generic(b), UNCHANGED <<held, used>>,
         Separate', OnList' \subseteq OnList \cup Garbage(b), ListsOK', HolderOK'
  PROVE  IInv'
<1> USE DEF IInv
<1>1. /\ rlist[k] \in Seq({c \in Block : BlockKind(c) = k}) /\ IsInjective(rlist[k])
      /\ DOMAIN rlist = Kind
  BY DEF TypeOK, QueuedOnce
<1>2. /\ b \in Block /\ BlockKind(b) = k /\ b \in Range(rlist[k])
      /\ Tail(rlist[k]) \in Seq({c \in Block : BlockKind(c) = k})
      /\ IsInjective(Tail(rlist[k])) /\ Range(Tail(rlist[k])) = Range(rlist[k]) \ {b}
  BY <1>1, TakeFirst
<1>3. b \in used /\ Objs(b) \cap (held \cup OnList) \subseteq marked
  BY <1>2 DEF SweepSafe
<1>4. /\ Garbage(b) \subseteq Objs(b) /\ Objs(b) \subseteq Obj
      /\ Garbage(b) \cap (held \cup OnList) = {} /\ Objs(b) \subseteq InUse
      /\ \A o \in Garbage(b) : KindOf[o] = k
  BY <1>2, <1>3, Blocks DEF Garbage, InUse
<1>5. /\ contents' \in [Node -> SUBSET Obj]
      /\ \A n \in Node : contents'[n] = IF n \in Garbage(b) THEN {} ELSE contents[n]
      /\ marked \subseteq marked' /\ marked' \subseteq Obj
      /\ k = UNCOLLECTABLE => Garbage(b) \subseteq marked'
  BY <1>2, <1>4 DEF GC_reclaim_generic, TypeOK, IS_UNCOLLECTABLE
<1>6. \A j \in Kind : rlist'[j] = IF j = k THEN Tail(rlist[k]) ELSE rlist[j]
  BY <1>1
<1>7. TypeOK' /\ CallOK'
  <2>1. QueuesOK'
    BY <1>1, <1>2, <1>6 DEF QueuesOK, TypeOK
  <2>2. QED
    BY <1>5, <2>1, TypeParts DEF TypeOK, ListsOK, QueuesOK, HolderOK
<1>8. OneOwner'
  BY <1>4 DEF OneOwner, Separate, InUse
<1>9. SweepSafe'
  <2>1. ASSUME NEW j \in Kind, NEW c \in Range(rlist'[j])
        PROVE  c \in Range(rlist[j]) /\ c \in Block /\ c # b
    <3>1. CASE j = k
      BY <1>1, <1>2, <1>6, <2>1, <3>1 DEF Range
    <3>2. CASE j # k
      <4>1. rlist[j] \in Seq({d \in Block : BlockKind(d) = j}) /\ c \in Range(rlist[j])
        BY <1>6, <2>1, <3>2 DEF TypeOK
      <4>2. c \in Block /\ BlockKind(c) = j
        BY <4>1 DEF Range
      <4>3. QED
        BY <1>2, <3>2, <4>1, <4>2
    <3>3. QED
      BY <3>1, <3>2
  <2>2. ASSUME NEW j \in Kind, NEW c \in Range(rlist'[j])
        PROVE  c \in used /\ Objs(c) \cap (held \cup OnList') \subseteq marked'
    <3>1. c \in used /\ Objs(c) \cap (held \cup OnList) \subseteq marked
      BY <2>1, <2>2 DEF SweepSafe
    <3>2. Objs(c) \cap Objs(b) = {}
      BY <1>2, <2>1, <2>2, Blocks
    <3>3. QED
      BY <1>4, <1>5, <3>1, <3>2
  <2>3. QED
    BY <2>2 DEF SweepSafe
<1>10. UncollectableMarked'
  BY <1>4, <1>5 DEF UncollectableMarked
<1>11. NoDangling'
  BY <1>5, Layout DEF NoDangling, TypeOK
<1>12. QueuedOnce'
  BY <1>2, <1>6 DEF QueuedOnce
<1>13. Cleared'
  BY <1>4, <1>5, Layout DEF Cleared, InUse
<1>14. MarksClosed'
  BY DEF MarksClosed
<1>15. QED
  BY <1>7, <1>8, <1>9, <1>10, <1>11, <1>12, <1>13, <1>14

\* A block comes into use, and its objects go on a list.
LEMMA NewBlockStep ==
  ASSUME IInv, pc # "finish", pc' # "finish", NEW k \in Kind, NEW b,
         GC_allochblk(b, k), UNCHANGED <<held, contents, rlist>>,
         Separate', OnList' \subseteq OnList \cup Objs(b), ListsOK', HolderOK'
  PROVE  IInv'
<1> USE DEF IInv
<1>1. /\ b \in Block /\ b \notin used /\ BlockKind(b) = k /\ used' = used \cup {b}
      /\ Objs(b) \subseteq Obj /\ \A o \in Objs(b) : KindOf[o] = k
  BY Blocks DEF GC_allochblk
<1>2. Objs(b) \cap InUse = {} /\ InUse' = InUse \cup Objs(b)
  BY <1>1, Blocks DEF InUse, TypeOK
<1>3. /\ marked' \subseteq Obj /\ marked \subseteq marked' \cup Objs(b)
      /\ k = UNCOLLECTABLE => Objs(b) \subseteq marked'
  BY <1>1 DEF GC_allochblk, IS_UNCOLLECTABLE, TypeOK
<1>4. held \cup OnList \subseteq InUse
  BY DEF OneOwner
<1>5. TypeOK' /\ CallOK'
  BY <1>1, <1>3, TypeParts DEF TypeOK, ListsOK, QueuesOK, HolderOK
<1>6. OneOwner'
  BY <1>2, <1>4 DEF OneOwner, Separate
<1>7. SweepSafe'
  <2>1. ASSUME NEW j \in Kind, NEW c \in Range(rlist[j])
        PROVE  c \in used' /\ Objs(c) \cap (held \cup OnList') \subseteq marked'
    <3>1. c \in used /\ Objs(c) \cap (held \cup OnList) \subseteq marked
      BY DEF SweepSafe
    <3>2. Objs(c) \cap Objs(b) = {}
      BY <1>1, <3>1, Blocks DEF TypeOK
    <3>3. QED
      BY <1>1, <1>3, <3>1, <3>2
  <2>2. QED
    BY <2>1 DEF SweepSafe
<1>8. UncollectableMarked'
  BY <1>1, <1>2, <1>3, <1>4 DEF UncollectableMarked
<1>9. NoDangling' /\ QueuedOnce' /\ MarksClosed'
  BY DEF NoDangling, QueuedOnce, MarksClosed
<1>10. Cleared'
  <2>1. \A o \in Objs(b) : contents[o] = {}
    BY <1>1, <1>2 DEF Cleared
  <2>2. QED
    BY <1>2, <2>1 DEF Cleared
<1>11. QED
  BY <1>5, <1>6, <1>7, <1>8, <1>9, <1>10

-----------------------------------------------------------------------------
(***************************************************************************)
(* The program's steps.                                                    *)
(***************************************************************************)

Typed(k) == {o \in Obj : KindOf[o] = k}

LEMMA FlChange ==
  ASSUME TypeOK, NEW k \in Kind, NEW new \in Seq(Typed(k)),
         fl' = [fl EXCEPT ![k] = new], UNCHANGED tl
  PROVE  /\ ListsOK' /\ <<none, k>> \in Place /\ LocalLists' = LocalLists
         /\ List(<<none, k>>) = fl[k] /\ List(<<none, k>>)' = new
         /\ \A p \in Place : p # <<none, k>> => List(p)' = List(p)
<1>1. DOMAIN fl = Kind
  BY DEF TypeOK
<1>2. \A j \in Kind : fl'[j] = IF j = k THEN new ELSE fl[j]
  BY <1>1
<1>3. ListsOK'
  <2>1. DOMAIN fl' = Kind
    BY <1>1
  <2>2. \A j \in Kind : fl'[j] \in Seq(Typed(j))
    BY <1>2 DEF TypeOK, Typed
  <2>3. QED
    BY <2>1, <2>2 DEF ListsOK, TypeOK, Typed
<1>4. ASSUME NEW p \in Place, p # <<none, k>> PROVE List(p)' = List(p)
  <2>1. ASSUME NEW j \in Kind, p = <<none, j>> PROVE List(p)' = List(p)
    BY <1>2, <1>4, <2>1, Places
  <2>2. ASSUME NEW t \in Thread, NEW j \in Tiny, p = <<t, j>> PROVE List(p)' = List(p)
    BY <2>2, Places
  <2>3. QED
    BY <2>1, <2>2, Places
<1>5. LocalLists' = LocalLists
  BY DEF LocalLists
<1>6. QED
  BY <1>2, <1>3, <1>4, <1>5, Places

LEMMA TlChange ==
  ASSUME TypeOK, NEW t \in Thread, NEW k \in Tiny, NEW new \in Seq(Typed(k)),
         tl' = [tl EXCEPT ![t][k] = new]
  PROVE  /\ DOMAIN tl' = Thread
         /\ \A u \in Thread : DOMAIN tl'[u] = Tiny /\ \A j \in Tiny : tl'[u][j] \in Seq(Typed(j))
         /\ <<t, k>> \in Place /\ List(<<t, k>>) = tl[t][k] /\ List(<<t, k>>)' = new
         /\ \A u \in Thread, j \in Tiny : <<u, j>> # <<t, k>> => tl'[u][j] = tl[u][j]
         /\ LocalLists' \subseteq LocalLists \cup Range(new)
<1>1. DOMAIN tl = Thread /\ \A u \in Thread : DOMAIN tl[u] = Tiny
  BY DEF TypeOK
<1>2. \A u \in Thread : \A j \in Tiny :
        tl'[u][j] = IF u = t /\ j = k THEN new ELSE tl[u][j]
  BY <1>1
<1>3. DOMAIN tl' = Thread /\ \A u \in Thread : DOMAIN tl'[u] = Tiny
  BY <1>1
<1>4. \A u \in Thread : \A j \in Tiny : tl'[u][j] \in Seq(Typed(j))
  BY <1>2 DEF TypeOK, Typed
<1>5. LocalLists' \subseteq LocalLists \cup Range(new)
  <2>1. \A u \in Thread, j \in Tiny : Range(tl'[u][j]) \subseteq LocalLists \cup Range(new)
    BY <1>2 DEF LocalLists
  <2>2. LocalLists' = UNION {Range(tl'[u][j]) : u \in Thread, j \in Tiny}
    BY DEF LocalLists
  <2>3. QED
    BY <2>1, <2>2
<1>6. QED
  BY <1>2, <1>3, <1>4, <1>5, Places

\* With the lists of the process as they were.
LEMMA TlChanges ==
  ASSUME TypeOK, NEW t \in Thread, NEW k \in Tiny, NEW new \in Seq(Typed(k)),
         tl' = [tl EXCEPT ![t][k] = new], UNCHANGED fl
  PROVE  ListsOK' /\ \A p \in Place : p # <<t, k>> => List(p)' = List(p)
<1>1. ASSUME NEW p \in Place, p # <<t, k>> PROVE List(p)' = List(p)
  <2>1. ASSUME NEW j \in Kind, p = <<none, j>> PROVE List(p)' = List(p)
    BY <2>1, Places
  <2>2. ASSUME NEW u \in Thread, NEW j \in Tiny, p = <<u, j>> PROVE List(p)' = List(p)
    <3>1. tl'[u][j] = tl[u][j]
      BY <1>1, <2>2, TlChange
    <3>2. QED
      BY <2>2, <3>1, Places
  <2>3. QED
    BY <2>1, <2>2, Places
<1>2. ListsOK'
  BY TlChange DEF ListsOK, TypeOK, Typed
<1>3. QED
  BY <1>1, <1>2

\* And with one of them changed.
LEMMA BothChange ==
  ASSUME TypeOK, NEW t \in Thread, NEW k \in Tiny,
         NEW new \in Seq(Typed(k)), NEW rest \in Seq(Typed(k)),
         tl' = [tl EXCEPT ![t][k] = new], fl' = [fl EXCEPT ![k] = rest]
  PROVE  /\ ListsOK' /\ <<none, k>> \in Place /\ List(<<none, k>>) = fl[k]
         /\ List(<<none, k>>)' = rest
         /\ \A p \in Place : p # <<none, k>> /\ p # <<t, k>> => List(p)' = List(p)
<1>1. DOMAIN fl = Kind /\ k \in Kind
  BY Places DEF TypeOK
<1>2. \A j \in Kind : fl'[j] = IF j = k THEN rest ELSE fl[j]
  BY <1>1
<1>3. ASSUME NEW p \in Place, p # <<none, k>>, p # <<t, k>> PROVE List(p)' = List(p)
  <2>1. ASSUME NEW j \in Kind, p = <<none, j>> PROVE List(p)' = List(p)
    BY <1>2, <1>3, <2>1, Places
  <2>2. ASSUME NEW u \in Thread, NEW j \in Tiny, p = <<u, j>> PROVE List(p)' = List(p)
    <3>1. tl'[u][j] = tl[u][j]
      BY <1>3, <2>2, TlChange
    <3>2. QED
      BY <2>2, <3>1, Places
  <2>3. QED
    BY <2>1, <2>2, Places
<1>4. \A j \in Kind : fl'[j] \in Seq(Typed(j))
  BY <1>2 DEF TypeOK, Typed
<1>5. DOMAIN fl' = Kind
  BY <1>1
<1>6. ListsOK'
  BY <1>4, <1>5, TlChange DEF ListsOK, Typed
<1>7. QED
  BY <1>1, <1>2, <1>3, <1>6, Places

LEMMA LocalMallocStep ==
  ASSUME IInv, NEW t \in Thread, NEW k \in Tiny, LocalMalloc(t, k)
  PROVE  IInv'
<1> USE DEF IInv
<1>1. PICK list : list = tl[t][k]
  OBVIOUS
<1>2. list \in Seq(Typed(k)) /\ list # <<>> /\ List(<<t, k>>) = list /\ <<t, k>> \in Place
  BY <1>1, Places DEF LocalMalloc, TypeOK, Typed
<1>3. /\ Tail(list) \in Seq(Typed(k)) /\ Head(list) \in Range(list)
      /\ Range(Tail(list)) \subseteq Range(list)
  BY <1>2, TakeFirst DEF OneOwner
<1>4. tl' = [tl EXCEPT ![t][k] = Tail(list)] /\ UNCHANGED fl
  BY <1>1 DEF LocalMalloc
<1>5. /\ ListsOK' /\ List(<<t, k>>)' = Tail(list)
      /\ \A p \in Place : p # <<t, k>> => List(p)' = List(p)
      /\ LocalLists' \subseteq LocalLists \cup Range(Tail(list))
  <2>1. TypeOK
    OBVIOUS
  <2> HIDE DEF IInv
  <2>2. ListsOK' /\ \A p \in Place : p # <<t, k>> => List(p)' = List(p)
    BY <1>3, <1>4, <2>1, TlChanges
  <2>3. /\ List(<<t, k>>)' = Tail(list)
        /\ LocalLists' \subseteq LocalLists \cup Range(Tail(list))
    BY <1>3, <1>4, <2>1, TlChange
  <2>4. QED
    BY <2>2, <2>3
<1>6. Range(list) \subseteq LocalLists
  BY <1>2, LocalListsAre
<1>7. HolderOK'
  BY DEF LocalMalloc, HolderOK, TypeOK, CallOK
<1>8. QED
  BY <1>1, <1>2, <1>3, <1>5, <1>6, <1>7, DeliverStep DEF LocalMalloc

LEMMA CoreMallocStep ==
  ASSUME IInv, NEW k \in Kind, CoreMalloc(k)
  PROVE  IInv'
<1> USE DEF IInv
<1>1. PICK list : list = fl[k]
  OBVIOUS
<1>2. list \in Seq(Typed(k)) /\ list # <<>> /\ List(<<none, k>>) = list /\ <<none, k>> \in Place
  BY <1>1, Places DEF CoreMalloc, TypeOK, Typed
<1>3. Tail(list) \in Seq(Typed(k))
  BY <1>2
<1>4. fl' = [fl EXCEPT ![k] = Tail(list)] /\ UNCHANGED tl
  BY <1>1 DEF CoreMalloc
<1>5. /\ ListsOK' /\ List(<<none, k>>)' = Tail(list)
      /\ \A p \in Place : p # <<none, k>> => List(p)' = List(p)
  BY <1>3, <1>4, FlChange
<1>6. HolderOK'
  BY DEF CoreMalloc, HolderOK, TypeOK, CallOK
<1>7. pc # "finish" /\ pc' = pc
  BY DEF CoreMalloc
<1>8. QED
  BY <1>1, <1>2, <1>5, <1>6, <1>7, DeliverStep DEF CoreMalloc

\* The holder of the lock goes on without touching the heap.
LEMMA HolderMoves ==
  ASSUME IInv, UNCHANGED <<held, contents, used, marked, fl, rlist, tl>>, HolderOK',
         pc # "finish", pc' # "finish"
  PROVE  IInv'
<1>1. \A p \in Place : List(p)' = List(p)
  BY DEF List
<1>2. OnList' = OnList
  BY <1>1, OnListIs
<1>3. Separate'
  BY <1>1 DEF Separate, IInv, OneOwner
<1>4. ListsOK'
  BY DEF ListsOK, IInv, TypeOK
<1>5. QED
  BY <1>2, <1>3, <1>4, KeepStep

LEMMA UnlockOK ==
  ASSUME Unlock, allocd' \in BOOLEAN
  PROVE  HolderOK' /\ pc' # "finish"
BY Layout DEF Unlock, HolderOK, NoCall, PC, CallOK

LEMMA MallocStep ==
  ASSUME IInv, NEW t \in Thread, NEW k \in Kind, NEW what \in {"malloc", "many"}, Malloc(t, k, what)
  PROVE  IInv'
<1>1. pc = "unlocked" /\ pc' \in {"many", "allocobj"} /\ UNCHANGED allocd
  BY DEF Malloc
<1>2. call' = [thread |-> t, what |-> what, kind |-> k, retry |-> FALSE, stop |-> FALSE]
  BY DEF Malloc, NoCall
<1>3. /\ pc' = "many" => what = "many"
      /\ what = "many" => k \in Tiny
  BY DEF Malloc
<1>4. HolderOK'
  BY <1>1, <1>2, <1>3 DEF HolderOK, PC, CallOK, IInv, TypeOK
<1>5. QED
  BY <1>1, <1>4, HolderMoves DEF Malloc

LEMMA GcollectStep ==
  ASSUME IInv, NEW t \in Thread, NEW stop \in BOOLEAN, Gcollect(t, stop)
  PROVE  IInv'
<1>1. pc = "unlocked" /\ pc' = "collect" /\ UNCHANGED allocd
  BY DEF Gcollect
<1>2. call' = [thread |-> t, what |-> "gcollect", kind |-> NORMAL, retry |-> FALSE, stop |-> stop]
  BY DEF Gcollect, NoCall
<1>3. HolderOK'
  BY <1>1, <1>2, Layout DEF HolderOK, PC, CallOK, IInv, TypeOK
<1>4. QED
  BY <1>1, <1>3, HolderMoves DEF Gcollect

LEMMA FreeStep ==
  ASSUME IInv, NEW o \in Obj, Free(o)
  PROVE  IInv'
<1> USE DEF IInv
<1>1. PICK k \in Kind : k = KindOf[o]
  BY SweepAssumption DEF Obj, Kind
<1>2. PICK list : list = fl[k]
  OBVIOUS
<1>3. /\ list \in Seq(Typed(k)) /\ List(<<none, k>>) = list /\ <<none, k>> \in Place
      /\ o \in Typed(k) /\ IsInjective(list) /\ Range(list) \subseteq OnList
  <2>1. list \in Seq(Typed(k)) /\ o \in Typed(k)
    BY <1>1, <1>2 DEF TypeOK, Typed
  <2>2. List(<<none, k>>) = list /\ <<none, k>> \in Place
    BY <1>2, Places
  <2>3. Range(list) \subseteq OnList
    BY <1>2, LocalListsAre
  <2>4. IsInjective(list)
    BY <2>2 DEF OneOwner
  <2>5. QED
    BY <2>1, <2>2, <2>3, <2>4
<1>4. pc = "unlocked" /\ pc' = pc /\ o \in held /\ held' = held \ {o} /\ o \notin OnList
  BY DEF Free, OneOwner
<1>5. PICK new : new = <<o>> \o list
  OBVIOUS
<1>6. new \in Seq(Typed(k)) /\ IsInjective(new) /\ Range(new) = {o} \cup Range(list)
  <2>1. PICK one : one = <<o>>
    OBVIOUS
  <2>2. one \in Seq(Typed(k)) /\ IsInjective(one) /\ Range(one) = {o}
    BY <1>3, <2>1, ShortLists
  <2>3. Range(one) \cap Range(list) = {}
    BY <1>3, <1>4, <2>2
  <2>4. new = one \o list
    BY <1>5, <2>1
  <2> HIDE DEF IInv
  <2>5. QED
    BY <1>3, <2>2, <2>3, <2>4, ConcatLists
<1>7. fl' = [fl EXCEPT ![k] = new] /\ UNCHANGED tl
  BY <1>1, <1>2, <1>5 DEF Free
<1>8. /\ ListsOK' /\ List(<<none, k>>)' = new
      /\ \A p \in Place : p # <<none, k>> => List(p)' = List(p)
  BY <1>6, <1>7, FlChange
<1>9. Separate' /\ OnList' = OnList \cup {o}
  <2>1. Separate
    BY DEF Separate, OneOwner
  <2>2. \A x \in Range(new) : x \in Range(List(<<none, k>>)) \/ x \notin OnList
    BY <1>3, <1>4, <1>6
  <2>3. Separate' /\ OnList' = (OnList \ Range(list)) \cup Range(new)
    BY <1>3, <1>6, <1>8, <2>1, <2>2, OneListChanges
  <2>4. QED
    BY <1>3, <1>6, <2>3
<1>10. /\ contents' \in [Node -> SUBSET Obj] /\ contents'[o] = {}
       /\ contents'[STACK] = contents[STACK] \ {o}
       /\ \A n \in Node \ {o, STACK} : contents'[n] = contents[n]
  BY Layout DEF Free, TypeOK
<1>11. TypeOK' /\ CallOK'
  <2>1. HolderOK' /\ QueuesOK'
    BY DEF Free, HolderOK, QueuesOK, TypeOK, CallOK
  <2>2. UNCHANGED <<used, marked>>
    BY DEF Free
  <2>3. QED
    BY <1>4, <1>8, <1>10, <2>1, <2>2 DEF TypeOK, ListsOK, QueuesOK, HolderOK
<1>12. OneOwner'
  BY <1>4, <1>9 DEF OneOwner, Separate, InUse, Free
<1>13. SweepSafe'
  BY <1>4, <1>9 DEF SweepSafe, Free
<1>14. UncollectableMarked'
  BY <1>4, <1>9 DEF UncollectableMarked, Free
<1>15. NoDangling'
  <2>1. ASSUME NEW n \in held' \cup {STATIC, STACK} PROVE contents'[n] \subseteq held'
    <3>1. n \in Node /\ n \in held \cup {STATIC, STACK} /\ n # o /\ contents[n] \subseteq held
      BY <1>4, Layout DEF NoDangling, TypeOK
    <3>2. CASE n = STACK
      BY <1>4, <1>10, <3>1, <3>2
    <3>3. CASE n # STACK
      <4>1. o \notin Visible[n]
        BY <3>1, <3>3 DEF Free
      <4>2. Visible[n] = contents[n]
        BY <3>1 DEF Visible, TypeOK
      <4>3. QED
        BY <1>4, <1>10, <3>1, <3>3, <4>1, <4>2
    <3>4. QED
      BY <3>2, <3>3
  <2>2. QED
    BY <2>1 DEF NoDangling
<1>16. Cleared'
  <2>1. InUse' = InUse
    BY DEF Free, InUse
  <2>2. ASSUME NEW x \in Obj, x \in OnList' \/ x \notin InUse \/ KindOf[x] = PTRFREE
        PROVE  contents'[x] = {}
    <3>1. CASE x = o
      BY <1>10, <3>1
    <3>2. CASE x # o
      BY <1>9, <1>10, <2>2, <3>2, Layout DEF Cleared
    <3>3. QED
      BY <3>1, <3>2
  <2>3. QED
    BY <2>1, <2>2 DEF Cleared
<1>17. QueuedOnce' /\ MarksClosed'
  BY <1>4 DEF QueuedOnce, MarksClosed, Free
<1>18. QED
  BY <1>11, <1>12, <1>13, <1>14, <1>15, <1>16, <1>17

LEMMA ExitStep ==
  ASSUME IInv, NEW t \in Thread, Exit(t)
  PROVE  IInv'
<1>1. TypeOK /\ OneOwner /\ pc = "unlocked" /\ pc' = pc
  BY DEF IInv, Exit
<1>2. Tiny \subseteq Kind /\ none \notin Thread
  BY Places, SweepAssumption
<1>3. DOMAIN tl = Thread /\ \A u \in Thread : DOMAIN tl[u] = Tiny
  BY <1>1 DEF TypeOK
<1>4. \A k \in Kind : fl'[k] = IF k \in Tiny THEN tl[t][k] \o fl[k] ELSE fl[k]
  BY DEF Exit
<1>5. \A u \in Thread : \A k \in Tiny : tl'[u][k] = IF u = t THEN <<>> ELSE tl[u][k]
  BY <1>3 DEF Exit
<1>6. ASSUME NEW k \in Tiny
      PROVE  /\ fl'[k] \in Seq(Typed(k)) /\ IsInjective(fl'[k])
             /\ Range(fl'[k]) = Range(List(<<t, k>>)) \cup Range(List(<<none, k>>))
  <2>1. k \in Kind /\ tl[t][k] \in Seq(Typed(k)) /\ fl[k] \in Seq(Typed(k))
    BY <1>1, <1>2 DEF TypeOK, Typed
  <2>2. /\ <<t, k>> \in Place /\ <<none, k>> \in Place /\ <<t, k>> # <<none, k>>
        /\ List(<<t, k>>) = tl[t][k] /\ List(<<none, k>>) = fl[k]
    BY <2>1, Places
  <2>3. /\ IsInjective(tl[t][k]) /\ IsInjective(fl[k])
        /\ Range(tl[t][k]) \cap Range(fl[k]) = {}
    BY <1>1, <2>2 DEF OneOwner
  <2>4. fl'[k] = tl[t][k] \o fl[k]
    BY <1>4, <2>1
  <2>5. QED
    BY <2>1, <2>2, <2>3, <2>4, ConcatLists
<1>7. ListsOK'
  <2>1. \A k \in Kind : fl'[k] \in Seq(Typed(k))
    <3>1. \A k \in Kind : fl[k] \in Seq(Typed(k))
      BY <1>1 DEF TypeOK, Typed
    <3>2. QED
      BY <1>4, <1>6, <3>1
  <2>2. \A u \in Thread : \A k \in Tiny : tl'[u][k] \in Seq(Typed(k))
    <3>1. \A k \in Tiny : <<>> \in Seq(Typed(k))
      OBVIOUS
    <3>2. \A u \in Thread : \A k \in Tiny : tl[u][k] \in Seq(Typed(k))
      BY <1>1 DEF TypeOK, Typed
    <3>3. QED
      BY <1>5, <3>1, <3>2
  <2>3. DOMAIN fl' = Kind /\ DOMAIN tl' = Thread /\ \A u \in Thread : DOMAIN tl'[u] = Tiny
    BY <1>3 DEF Exit
  <2>4. QED
    BY <2>1, <2>2, <2>3 DEF ListsOK, Typed
<1>8. ASSUME NEW p \in Place
      PROVE  /\ IsInjective(List(p)')
             /\ \/ p[1] = t /\ Range(List(p)') = {}
                \/ p[1] # t /\ Range(List(p)') = Range(List(p))
                \/ /\ p[1] = none /\ p[2] \in Tiny
                   /\ Range(List(p)') = Range(List(<<t, p[2]>>)) \cup Range(List(p))
  <2>1. ASSUME NEW k \in Tiny, p = <<none, k>>
        PROVE  /\ IsInjective(List(p)') /\ p[1] = none /\ p[2] \in Tiny
               /\ Range(List(p)') = Range(List(<<t, p[2]>>)) \cup Range(List(p))
    <3>1. List(p)' = fl'[k] /\ p[1] = none /\ p[2] = k
      BY <1>2, <2>1, Places
    <3>2. QED
      BY <1>6, <2>1, <3>1
  <2>2. ASSUME NEW k \in Kind \ Tiny, p = <<none, k>>
        PROVE  IsInjective(List(p)') /\ p[1] # t /\ Range(List(p)') = Range(List(p))
    <3>1. List(p)' = fl'[k] /\ List(p) = fl[k] /\ p[1] = none
      BY <2>2, Places
    <3>2. fl'[k] = fl[k]
      BY <1>4
    <3>3. QED
      BY <1>1, <1>2, <3>1, <3>2 DEF OneOwner
  <2>3. ASSUME NEW k \in Tiny, p = <<t, k>>
        PROVE  IsInjective(List(p)') /\ p[1] = t /\ Range(List(p)') = {}
    <3>1. List(p)' = tl'[t][k] /\ p[1] = t
      BY <2>3, Places
    <3>2. tl'[t][k] = <<>>
      BY <1>5
    <3>3. QED
      BY <3>1, <3>2, ShortLists
  <2>4. ASSUME NEW u \in Thread, NEW k \in Tiny, u # t, p = <<u, k>>
        PROVE  IsInjective(List(p)') /\ p[1] # t /\ Range(List(p)') = Range(List(p))
    <3>1. List(p)' = tl'[u][k] /\ List(p) = tl[u][k] /\ p[1] = u
      BY <2>4, Places
    <3>2. tl'[u][k] = tl[u][k]
      BY <1>5, <2>4
    <3>3. QED
      BY <1>1, <2>4, <3>1, <3>2 DEF OneOwner
  <2>5. QED
    BY <2>1, <2>2, <2>3, <2>4, Places
<1>9. \A k \in Tiny : <<t, k>> \in Place /\ <<t, k>>[1] = t /\ <<t, k>>[2] = k
  BY Places
<1>10. Separate'
  <2>1. ASSUME NEW p \in Place, NEW q \in Place, p # q, NEW x \in Range(List(p)'), x \in Range(List(q)')
        PROVE  FALSE
    <3>1. PICK p1 \in Place :
            x \in Range(List(p1)) /\ (p1 = p \/ (p[1] = none /\ p1 = <<t, p[2]>>))
                 /\ p[1] # t
      BY <1>2, <1>8, <1>9, <2>1
    <3>2. PICK q1 \in Place :
            x \in Range(List(q1)) /\ (q1 = q \/ (q[1] = none /\ q1 = <<t, q[2]>>))
                 /\ q[1] # t
      BY <1>2, <1>8, <1>9, <2>1
    <3>3. p1 = q1
      BY <1>1, <3>1, <3>2 DEF OneOwner
    <3>4. p = <<p[1], p[2]>> /\ q = <<q[1], q[2]>>
      BY Places
    <3>5. ~(p1 = p /\ q1 = q)
      BY <2>1, <3>3
    <3>6. ~(p1 = p /\ q1 = <<t, q[2]>>)
      BY <3>1, <3>3
    <3>7. ~(q1 = q /\ p1 = <<t, p[2]>>)
      BY <3>2, <3>3
    <3>8. CASE p[1] = none /\ p1 = <<t, p[2]>> /\ q[1] = none /\ q1 = <<t, q[2]>>
      <4>1. p[2] = q[2]
        <5>1. <<t, p[2]>>[2] = p[2] /\ <<t, q[2]>>[2] = q[2]
          OBVIOUS
        <5>2. <<t, p[2]>> = <<t, q[2]>>
          BY <3>3, <3>8
        <5>3. QED
          BY <5>1, <5>2
      <4>2. p = q
        BY <3>4, <3>8, <4>1
      <4>3. QED
        BY <2>1, <4>2
    <3>9. QED
      BY <3>1, <3>2, <3>5, <3>6, <3>7, <3>8
  <2>2. QED
    BY <1>8, <2>1 DEF Separate
<1>11. OnList' \subseteq OnList
  <2>1. ASSUME NEW p \in Place, NEW x \in Range(List(p)') PROVE x \in OnList
    BY <1>8, <1>9, <2>1, OnListIs
  <2>2. QED
    BY <2>1, OnListIs
<1>12. HolderOK'
  BY DEF Exit, HolderOK, IInv, TypeOK, CallOK
<1>13. QED
  BY <1>1, <1>7, <1>10, <1>11, <1>12, KeepStep DEF Exit

\* What the program can reach is in any closed set with its roots.
LEMMA LiveLeast ==
  ASSUME NEW S \in SUBSET Obj, Heap!Base \subseteq S, \A o \in S : Visible[o] \subseteq S
  PROVE  Heap!Live \subseteq S
<1>1. PICK T : T = S \ Heap!Base
  OBVIOUS
<1>2. T \in SUBSET (Heap!Obj \ Heap!Base)
  BY <1>1 DEF Obj
<1>3. Heap!Base \cup T = S
  BY <1>1
<1>4. Heap!Closed(Heap!Base \cup T)
  BY <1>3 DEF Heap!Closed
<1>5. QED
  BY <1>1, <1>2, <1>4 DEF Heap!Live

LEMMA VisibleIs ==
  ASSUME TypeOK
  PROVE  \A n \in Node : Visible[n] = IF n \in held \cup {STATIC, STACK} THEN contents[n] ELSE {}
BY DEF Visible, TypeOK

LEMMA BaseIs ==
  ASSUME TypeOK
  PROVE  Heap!Base = contents[STATIC] \cup contents[STACK] \cup {o \in held : KindOf[o] = UNCOLLECTABLE}
<1>1. Visible[STATIC] = contents[STATIC] /\ Visible[STACK] = contents[STACK]
  BY VisibleIs, Layout
<1>2. QED
  BY <1>1 DEF Heap!Base, UNCOLLECTABLE

\* The program reaches only what it has, and between the mark phase and its end
\* only what is marked.
LEMMA LiveHeld ==
  ASSUME IInv
  PROVE  Heap!Live \subseteq held /\ (pc = "finish" => Heap!Live \subseteq marked)
<1> USE DEF IInv
<1>1. /\ Heap!Base = contents[STATIC] \cup contents[STACK] \cup {o \in held : KindOf[o] = UNCOLLECTABLE}
      /\ held \subseteq Obj /\ Obj \subseteq Node
  BY BaseIs, Layout DEF TypeOK
<1>2. /\ contents[STATIC] \cup contents[STACK] \subseteq held
      /\ \A o \in held : Visible[o] = contents[o] /\ contents[o] \subseteq held
  BY <1>1, VisibleIs DEF NoDangling
<1>3. Heap!Live \subseteq held
  BY <1>1, <1>2, LiveLeast
<1>4. ASSUME pc = "finish" PROVE Heap!Live \subseteq marked
  <2>1. PICK S : S = held \cap marked
    OBVIOUS
  <2>2. S \in SUBSET Obj
    BY <1>1, <2>1
  <2>3. Heap!Base \subseteq S
    BY <1>1, <1>2, <1>4, <2>1 DEF MarksClosed, UncollectableMarked
  <2>4. \A o \in S : Visible[o] \subseteq S
    BY <1>2, <1>4, <2>1 DEF MarksClosed
  <2>5. Heap!Live \subseteq S
    BY <2>2, <2>3, <2>4, LiveLeast
  <2>6. QED
    BY <2>1, <2>5
<1>5. QED
  BY <1>3, <1>4

LEMMA MutateStep ==
  ASSUME IInv, NEW n \in Heap!Live \cup {STATIC, STACK}, NEW q \in Heap!Live, Mutate(n, q)
  PROVE  IInv'
<1> USE DEF IInv
<1>1. /\ n \in held \cup {STATIC, STACK} /\ n \in Node /\ q \in held /\ q \in Obj
      /\ pc = "finish" => q \in marked
  BY LiveHeld, Layout DEF TypeOK
<1>2. UNCHANGED <<held, used, marked, fl, rlist, tl, allocd, pc, call>>
  BY DEF Mutate
<1>3. /\ contents' \in [Node -> SUBSET Obj]
      /\ \A m \in Node : m # n => contents'[m] = contents[m]
      /\ contents'[n] \subseteq contents[n] \cup {q}
  BY <1>1 DEF Mutate, TypeOK
<1>4. OnList' = OnList /\ InUse' = InUse /\ LocalLists' = LocalLists
  BY <1>2 DEF OnList, Lists, List, InUse, LocalLists
<1>5. TypeOK'
  BY <1>2, <1>3 DEF TypeOK
<1>6. OneOwner' /\ SweepSafe' /\ UncollectableMarked' /\ QueuedOnce' /\ CallOK'
  <2>1. \A p \in Place : List(p)' = List(p)
    BY <1>2 DEF List
  <2>2. OneOwner'
    BY <1>2, <1>4, <2>1 DEF OneOwner
  <2>3. SweepSafe' /\ UncollectableMarked' /\ QueuedOnce' /\ CallOK'
    BY <1>2, <1>4 DEF SweepSafe, UncollectableMarked, QueuedOnce, CallOK
  <2>4. QED
    BY <2>2, <2>3
<1>7. NoDangling'
  <2>1. \A m \in Node : contents'[m] \subseteq contents[m] \cup {q}
    BY <1>3
  <2>2. \A m \in held \cup {STATIC, STACK} : m \in Node /\ contents[m] \subseteq held
    BY Layout DEF NoDangling, TypeOK
  <2>3. QED
    BY <1>1, <1>2, <2>1, <2>2 DEF NoDangling
<1>8. Cleared'
  <2>1. ASSUME NEW o \in Obj, o \in OnList \/ o \notin InUse \/ KindOf[o] = PTRFREE
        PROVE  contents'[o] = {}
    <3>1. CASE o = n
      <4>1. o \in held /\ o \notin OnList /\ o \in InUse
        BY <1>1, <3>1, Layout DEF OneOwner
      <4>2. MayPoint[n] = {}
        BY <2>1, <3>1, <4>1, SweepAssumption DEF Obj
      <4>3. q \in MayPoint[n]
        BY DEF Mutate
      <4>4. QED
        BY <4>2, <4>3
    <3>2. CASE o # n
      BY <1>3, <2>1, <3>2, Layout DEF Cleared
    <3>3. QED
      BY <3>1, <3>2
  <2>2. QED
    BY <1>4, <2>1 DEF Cleared
<1>9. MarksClosed'
  <2>1. ASSUME pc = "finish"
        PROVE  /\ contents'[STATIC] \cup contents'[STACK] \subseteq marked
               /\ \A o \in held \cap marked : contents'[o] \subseteq marked
    <3>1. /\ contents[STATIC] \cup contents[STACK] \subseteq marked
          /\ \A o \in held \cap marked : contents[o] \subseteq marked
          /\ q \in marked
      BY <1>1, <2>1 DEF MarksClosed
    <3>2. \A m \in Node : contents'[m] \subseteq contents[m] \cup {q}
      BY <1>3
    <3>3. STATIC \in Node /\ STACK \in Node /\ held \subseteq Node
      BY Layout DEF TypeOK
    <3>4. QED
      BY <3>1, <3>2, <3>3
  <2>2. QED
    BY <1>2, <1>4, <2>1 DEF MarksClosed
<1>10. QED
  BY <1>5, <1>6, <1>7, <1>8, <1>9

-----------------------------------------------------------------------------
(***************************************************************************)
(* The steps of the holder of the lock that sweep or allocate.             *)
(***************************************************************************)

\* What a queue and a new block put on a list.
LEMMA SweptList ==
  ASSUME IInv, pc # "finish", NEW k \in Kind, NEW b, rlist[k] # <<>>, b = Head(rlist[k])
  PROVE  /\ b \in Block /\ BlockKind(b) = k /\ Garbage(b) \cap OnList = {}
         /\ \A list \in Seq(Typed(k)) : Range(list) \subseteq OnList =>
              /\ Linked(Garbage(b), list) \in Seq(Typed(k))
              /\ Range(Linked(Garbage(b), list)) = Garbage(b) \cup Range(list)
              /\ IsInjective(list) => IsInjective(Linked(Garbage(b), list))
<1> USE DEF IInv
<1>1. rlist[k] \in Seq({c \in Block : BlockKind(c) = k}) /\ IsInjective(rlist[k])
  BY DEF TypeOK, QueuedOnce
<1>2. b \in Block /\ BlockKind(b) = k /\ b \in Range(rlist[k])
  BY <1>1, TakeFirst
<1>3. /\ Garbage(b) \subseteq Typed(k) /\ IsFiniteSet(Garbage(b))
      /\ Typed(k) \in SUBSET Nat
  <2>1. Garbage(b) \subseteq Objs(b) /\ IsFiniteSet(Objs(b)) /\ Objs(b) \subseteq Obj
    BY <1>2, Blocks DEF Garbage
  <2>2. IsFiniteSet(Garbage(b))
    BY <2>1, FS_Subset
  <2>3. QED
    BY <1>2, <2>1, <2>2, Blocks, Layout DEF Typed
<1>4. Garbage(b) \cap OnList = {}
  BY <1>2 DEF SweepSafe, Garbage
<1>5. ASSUME NEW list \in Seq(Typed(k)), Range(list) \subseteq OnList
      PROVE  /\ Linked(Garbage(b), list) \in Seq(Typed(k))
             /\ Range(Linked(Garbage(b), list)) = Garbage(b) \cup Range(list)
             /\ IsInjective(list) => IsInjective(Linked(Garbage(b), list))
  <2>1. Garbage(b) \cap Range(list) = {}
    BY <1>4, <1>5
  <2>2. QED
    BY <1>3, <2>1, LinkedIs
<1>6. QED
  BY <1>2, <1>4, <1>5

LEMMA NewList ==
  ASSUME IInv, NEW k \in Kind, NEW b, GC_allochblk(b, k)
  PROVE  /\ GC_build_fl(b) \in Seq(Typed(k)) /\ IsInjective(GC_build_fl(b))
         /\ Range(GC_build_fl(b)) = Objs(b) /\ Objs(b) \cap OnList = {}
<1> USE DEF IInv
<1>1. b \in Block /\ b \notin used /\ BlockKind(b) = k
  BY DEF GC_allochblk
<1>2. Objs(b) \subseteq Typed(k) /\ IsFiniteSet(Objs(b)) /\ Typed(k) \in SUBSET Nat
  BY <1>1, Blocks, Layout DEF Typed
<1>3. Objs(b) \cap OnList = {}
  BY <1>1, Blocks DEF OneOwner, InUse, TypeOK
<1>4. PICK empty : empty = <<>>
  OBVIOUS
<1>5. empty \in Seq(Typed(k)) /\ IsInjective(empty) /\ Range(empty) = {}
  BY <1>4 DEF IsInjective, Range
<1>6. GC_build_fl(b) = Linked(Objs(b), empty)
  BY <1>4 DEF GC_build_fl
<1> HIDE DEF IInv
<1>7. /\ Linked(Objs(b), empty) \in Seq(Typed(k)) /\ IsInjective(Linked(Objs(b), empty))
      /\ Range(Linked(Objs(b), empty)) = Objs(b)
  <2>1. /\ Objs(b) \in SUBSET Typed(k) /\ Objs(b) \cap Range(empty) = {}
        /\ Objs(b) \cup Range(empty) = Objs(b)
    BY <1>2, <1>5
  <2>2. /\ Linked(Objs(b), empty) \in Seq(Typed(k)) /\ IsInjective(Linked(Objs(b), empty))
        /\ Range(Linked(Objs(b), empty)) = Objs(b) \cup Range(empty)
    BY <1>2, <1>5, <2>1, LinkedIs
  <2>3. QED
    BY <2>1, <2>2
<1>8. QED
  BY <1>3, <1>6, <1>7

LEMMA ListOfPlace ==
  ASSUME IInv
  PROVE  Separate /\ \A k \in Kind :
           fl[k] \in Seq(Typed(k)) /\ IsInjective(fl[k]) /\ Range(fl[k]) \subseteq OnList
<1>1. Separate
  BY DEF IInv, OneOwner, Separate
<1>2. ASSUME NEW k \in Kind
      PROVE  fl[k] \in Seq(Typed(k)) /\ IsInjective(fl[k]) /\ Range(fl[k]) \subseteq OnList
  <2>1. fl[k] \in Seq(Typed(k))
    BY DEF IInv, TypeOK, Typed
  <2>2. <<none, k>> \in Place /\ List(<<none, k>>) = fl[k]
    BY Places
  <2>3. IsInjective(fl[k])
    BY <1>1, <2>2 DEF Separate
  <2>4. QED
    BY <2>1, <2>3, LocalListsAre
<1>3. QED
  BY <1>1, <1>2

\* The first block of a queue is swept to the free list of the process.
LEMMA SweepFirstStep ==
  ASSUME IInv, pc # "finish", NEW k \in Kind, SweepFirst(k),
         UNCHANGED <<held, used, tl, allocd, pc, call>>
  PROVE  IInv'
<1>1. PICK b : b = Head(rlist[k])
  OBVIOUS
<1>2. PICK new : new = Linked(Garbage(b), fl[k])
  OBVIOUS
<1>3. /\ rlist[k] # <<>> /\ rlist' = [rlist EXCEPT ![k] = Tail(@)]
      /\ GC_reclaim_generic(b) /\ fl' = [fl EXCEPT ![k] = new]
  BY <1>1, <1>2 DEF SweepFirst
<1>4. /\ fl[k] \in Seq(Typed(k)) /\ IsInjective(fl[k]) /\ Range(fl[k]) \subseteq OnList
      /\ Separate /\ TypeOK
  BY ListOfPlace DEF IInv
<1>5. /\ new \in Seq(Typed(k)) /\ Range(new) = Garbage(b) \cup Range(fl[k]) /\ IsInjective(new)
      /\ Garbage(b) \cap OnList = {}
  BY <1>1, <1>2, <1>3, <1>4, SweptList
<1>6. /\ ListsOK' /\ <<none, k>> \in Place /\ List(<<none, k>>) = fl[k]
      /\ List(<<none, k>>)' = new
      /\ \A p \in Place : p # <<none, k>> => List(p)' = List(p)
  BY <1>3, <1>4, <1>5, FlChange
<1>7. Separate' /\ OnList' = (OnList \ Range(fl[k])) \cup Range(new)
  <2>1. \A x \in Range(new) : x \in Range(List(<<none, k>>)) \/ x \notin OnList
    BY <1>5, <1>6
  <2>2. QED
    BY <1>4, <1>5, <1>6, <2>1, OneListChanges
<1>8. OnList' \subseteq OnList \cup Garbage(b)
  BY <1>4, <1>5, <1>7
<1>9. HolderOK'
  BY DEF HolderOK, IInv, TypeOK, CallOK
<1>10. QED
  BY <1>1, <1>3, <1>6, <1>7, <1>8, <1>9, SweepStep

\* The caller of GC_generic_malloc_many and the kind it asks for.
LEMMA ManyCall ==
  ASSUME IInv, pc = "many" \/ (pc = "allocobj" /\ call.what = "many")
  PROVE  /\ call.thread \in Thread /\ call.kind \in Tiny /\ call.kind \in Kind
         /\ <<call.thread, call.kind>> # <<none, call.kind>>
BY Places DEF IInv, CallOK

LEMMA ManySweepsStep ==
  ASSUME IInv, ManySweeps
  PROVE  IInv'
<1>1. PICK t, k, b : t = call.thread /\ k = call.kind /\ b = Head(rlist[k])
  OBVIOUS
<1>2. PICK list : list = Linked(Garbage(b), <<>>)
  OBVIOUS
<1>3. /\ pc = "many" /\ rlist[k] # <<>> /\ rlist' = [rlist EXCEPT ![k] = Tail(@)]
      /\ GC_reclaim_generic(b) /\ UNCHANGED <<held, used, fl>>
  BY <1>1 DEF ManySweeps
<1>4. t \in Thread /\ k \in Tiny /\ k \in Kind
  BY <1>1, <1>3, ManyCall
<1>5. /\ list \in Seq(Typed(k)) /\ Range(list) = Garbage(b) /\ IsInjective(list)
      /\ Garbage(b) \cap OnList = {}
  <2>1. PICK empty : empty = <<>>
    OBVIOUS
  <2>2. empty \in Seq(Typed(k)) /\ IsInjective(empty) /\ Range(empty) = {}
    BY <2>1 DEF IsInjective, Range
  <2>3. list = Linked(Garbage(b), empty)
    BY <1>2, <2>1
  <2>4. pc # "finish" /\ Range(empty) \subseteq OnList
    BY <1>3, <2>2
  <2>5. /\ list \in Seq(Typed(k)) /\ Range(list) = Garbage(b) \cup Range(empty)
        /\ IsInjective(list) /\ Garbage(b) \cap OnList = {}
    BY <1>1, <1>3, <1>4, <2>2, <2>3, <2>4, SweptList
  <2>6. QED
    BY <2>2, <2>5
<1>6. TypeOK /\ Separate
  BY ListOfPlace DEF IInv
<1>7. CASE list = <<>>
  <2>1. UNCHANGED <<tl, allocd, pc, call>>
    BY <1>1, <1>2, <1>7 DEF ManySweeps
  <2>2. \A p \in Place : List(p)' = List(p)
    BY <1>3, <2>1 DEF List
  <2>3. Separate' /\ OnList' = OnList
    BY <1>6, <2>2, OnListIs DEF Separate
  <2>4. ListsOK' /\ HolderOK'
    BY <1>3, <1>6, <2>1 DEF ListsOK, HolderOK, TypeOK, CallOK, IInv
  <2>5. QED
    BY <1>1, <1>3, <1>4, <2>1, <2>3, <2>4, SweepStep
<1>8. CASE list # <<>>
  <2>1. tl' = [tl EXCEPT ![t][k] = list] /\ allocd' = TRUE /\ Unlock
    BY <1>1, <1>2, <1>8 DEF ManySweeps
  <2>2. /\ ListsOK' /\ <<t, k>> \in Place /\ List(<<t, k>>)' = list
        /\ \A p \in Place : p # <<t, k>> => List(p)' = List(p)
    <3>1. List(<<t, k>>)' = list /\ <<t, k>> \in Place
      BY <1>4, <1>5, <1>6, <2>1, TlChange
    <3>2. ListsOK' /\ \A p \in Place : p # <<t, k>> => List(p)' = List(p)
      BY <1>3, <1>4, <1>5, <1>6, <2>1, TlChanges
    <3>3. QED
      BY <3>1, <3>2
  <2>3. Separate' /\ OnList' = (OnList \ Range(List(<<t, k>>))) \cup Range(list)
    BY <1>5, <1>6, <2>2, OneListChanges
  <2>4. HolderOK' /\ pc' # "finish"
    BY <2>1, UnlockOK
  <2>5. OnList' \subseteq OnList \cup Garbage(b)
    BY <1>5, <2>3
  <2>6. QED
    BY <1>1, <1>3, <1>4, <2>2, <2>3, <2>4, <2>5, SweepStep
<1>9. QED
  BY <1>7, <1>8

LEMMA ManyPrefixStep ==
  ASSUME IInv, ManyPrefix
  PROVE  IInv'
<1>1. PICK t, k, s : t = call.thread /\ k = call.kind /\ s = fl[k]
  OBVIOUS
<1>2. PICK n : n = IF Len(s) < PerBlock THEN Len(s) ELSE PerBlock
  OBVIOUS
<1>3. PICK first, rest : first = SubSeq(s, 1, n) /\ rest = SubSeq(s, n + 1, Len(s))
  OBVIOUS
<1>4. /\ pc = "many" /\ tl' = [tl EXCEPT ![t][k] = first] /\ fl' = [fl EXCEPT ![k] = rest]
      /\ allocd' = TRUE /\ Unlock /\ UNCHANGED <<held, contents, used, marked, rlist>>
  BY <1>1, <1>2, <1>3 DEF ManyPrefix
<1>5. t \in Thread /\ k \in Tiny /\ k \in Kind /\ <<t, k>> # <<none, k>>
  BY <1>1, <1>4, ManyCall
<1>6. s \in Seq(Typed(k)) /\ IsInjective(s) /\ Separate /\ TypeOK
  BY <1>1, <1>5, ListOfPlace DEF IInv
<1>7. n \in 0 .. Len(s)
  BY <1>2, <1>6, SweepAssumption
<1>8. /\ first \in Seq(Typed(k)) /\ IsInjective(first) /\ rest \in Seq(Typed(k))
      /\ IsInjective(rest) /\ Range(first) \cup Range(rest) = Range(s)
      /\ Range(first) \cap Range(rest) = {}
  BY <1>3, <1>6, <1>7, CutList
<1>9. /\ ListsOK' /\ <<none, k>> \in Place /\ List(<<none, k>>) = s /\ List(<<none, k>>)' = rest
      /\ \A p \in Place : p # <<none, k>> /\ p # <<t, k>> => List(p)' = List(p)
  <2>1. /\ ListsOK' /\ <<none, k>> \in Place /\ List(<<none, k>>) = fl[k]
        /\ List(<<none, k>>)' = rest
        /\ \A p \in Place : p # <<none, k>> /\ p # <<t, k>> => List(p)' = List(p)
    BY <1>4, <1>5, <1>6, <1>8, BothChange
  <2>2. QED
    BY <1>1, <2>1
<1>10. <<t, k>> \in Place /\ List(<<t, k>>)' = first
  BY <1>4, <1>5, <1>6, <1>8, TlChange
<1>11. Range(rest) \cup Range(first) \subseteq Range(List(<<none, k>>))
  BY <1>8, <1>9
<1>12. Separate' /\ OnList' \subseteq OnList
  BY <1>5, <1>6, <1>8, <1>9, <1>10, <1>11, TwoListsChange
<1>13. HolderOK' /\ pc' # "finish"
  BY <1>4, UnlockOK
<1>14. QED
  BY <1>4, <1>9, <1>12, <1>13, KeepStep

LEMMA ManyNewBlockStep ==
  ASSUME IInv, ManyNewBlock
  PROVE  IInv'
<1>1. PICK t, k : t = call.thread /\ k = call.kind
  OBVIOUS
<1>2. pc = "many" /\ UNCHANGED <<held, contents, fl, rlist>>
  BY DEF ManyNewBlock
<1>3. t \in Thread /\ k \in Tiny /\ k \in Kind
  BY <1>1, <1>2, ManyCall
<1>4. TypeOK /\ Separate
  BY ListOfPlace DEF IInv
<1>5. CASE \E b \in Block :
             /\ GC_allochblk(b, k) /\ tl' = [tl EXCEPT ![t][k] = GC_build_fl(b)]
             /\ allocd' = TRUE /\ Unlock
  <2>1. PICK b \in Block :
          /\ GC_allochblk(b, k) /\ tl' = [tl EXCEPT ![t][k] = GC_build_fl(b)]
          /\ allocd' = TRUE /\ Unlock
    BY <1>5
  <2>2. PICK list : list = GC_build_fl(b)
    OBVIOUS
  <2>3. /\ list \in Seq(Typed(k)) /\ IsInjective(list) /\ Range(list) = Objs(b)
        /\ Objs(b) \cap OnList = {}
    BY <1>3, <2>1, <2>2, NewList
  <2>4. tl' = [tl EXCEPT ![t][k] = list]
    BY <2>1, <2>2
  <2>5. List(<<t, k>>)' = list /\ <<t, k>> \in Place
    BY <1>3, <1>4, <2>3, <2>4, TlChange
  <2>6. ListsOK' /\ \A p \in Place : p # <<t, k>> => List(p)' = List(p)
    BY <1>2, <1>3, <1>4, <2>3, <2>4, TlChanges
  <2>7. Separate' /\ OnList' = (OnList \ Range(List(<<t, k>>))) \cup Range(list)
    BY <1>4, <2>3, <2>5, <2>6, OneListChanges
  <2>8. OnList' \subseteq OnList \cup Objs(b)
    BY <2>3, <2>7
  <2>9. HolderOK' /\ pc' # "finish"
    BY <2>1, UnlockOK
  <2>10. QED
    BY <1>2, <1>3, <2>1, <2>6, <2>7, <2>8, <2>9, NewBlockStep
<1>6. CASE pc' = "allocobj" /\ UNCHANGED <<used, marked, tl, allocd, call>>
  <2>1. HolderOK'
    BY <1>2, <1>6 DEF HolderOK, IInv, TypeOK, CallOK, PC
  <2>2. QED
    BY <1>2, <1>6, <2>1, HolderMoves
<1>7. QED
  BY <1>1, <1>5, <1>6 DEF ManyNewBlock

LEMMA TakeObjStep ==
  ASSUME IInv, TakeObj
  PROVE  IInv'
<1>1. PICK t, k, s : t = call.thread /\ k = call.kind /\ s = fl[k]
  OBVIOUS
<1>2. /\ pc = "allocobj" /\ s # <<>> /\ fl' = [fl EXCEPT ![k] = Tail(s)]
      /\ allocd' = TRUE /\ Unlock /\ UNCHANGED <<used, marked, rlist>>
  BY <1>1 DEF TakeObj
<1>3. k \in Kind
  BY <1>1 DEF IInv, TypeOK
<1>4. s \in Seq(Typed(k)) /\ IsInjective(s) /\ Separate /\ TypeOK
  BY <1>1, <1>3, ListOfPlace DEF IInv
<1>5. /\ Head(s) \in Typed(k) /\ Head(s) \in Range(s)
      /\ Tail(s) \in Seq(Typed(k)) /\ IsInjective(Tail(s)) /\ Range(Tail(s)) = Range(s) \ {Head(s)}
  BY <1>2, <1>4, TakeFirst
<1>6. HolderOK' /\ pc' # "finish"
  BY <1>2, UnlockOK
<1>7. CASE call.what = "many"
  <2>1. PICK one : one = <<Head(s)>>
    OBVIOUS
  <2>2. tl' = [tl EXCEPT ![t][k] = one] /\ UNCHANGED <<held, contents>>
    BY <1>1, <1>7, <2>1 DEF TakeObj
  <2>3. one \in Seq(Typed(k)) /\ IsInjective(one) /\ Range(one) = {Head(s)}
    BY <1>5, <2>1, ShortLists
  <2>4. t \in Thread /\ k \in Tiny /\ <<t, k>> # <<none, k>>
    BY <1>1, <1>2, <1>7, ManyCall
  <2>5. /\ ListsOK' /\ <<none, k>> \in Place /\ List(<<none, k>>) = fl[k]
        /\ List(<<none, k>>)' = Tail(s)
        /\ \A p \in Place : p # <<none, k>> /\ p # <<t, k>> => List(p)' = List(p)
    BY <1>2, <1>4, <1>5, <2>2, <2>3, <2>4, BothChange
  <2>6. <<t, k>> \in Place /\ List(<<t, k>>)' = one
    BY <1>4, <2>2, <2>3, <2>4, TlChange
  <2>7. /\ Range(Tail(s)) \cup Range(one) \subseteq Range(List(<<none, k>>))
        /\ Range(Tail(s)) \cap Range(one) = {}
    BY <1>1, <1>5, <2>3, <2>5
  <2>8. Separate' /\ OnList' \subseteq OnList
    BY <1>4, <1>5, <2>3, <2>4, <2>5, <2>6, <2>7, TwoListsChange
  <2>9. QED
    BY <1>2, <1>6, <2>2, <2>5, <2>8, KeepStep
<1>8. CASE call.what # "many"
  <2>1. Deliver(Head(s)) /\ UNCHANGED tl
    BY <1>1, <1>8 DEF TakeObj
  <2>2. /\ ListsOK' /\ <<none, k>> \in Place /\ List(<<none, k>>) = fl[k]
        /\ List(<<none, k>>)' = Tail(s)
        /\ \A p \in Place : p # <<none, k>> => List(p)' = List(p)
    BY <1>2, <1>3, <1>4, <1>5, <2>1, FlChange
  <2>3. List(<<none, k>>) # <<>> /\ List(<<none, k>>)' = Tail(List(<<none, k>>))
    BY <1>1, <1>2, <2>2
  <2>4. Head(s) = Head(List(<<none, k>>))
    BY <1>1, <2>2
  <2>5. QED
    BY <1>2, <1>6, <2>1, <2>2, <2>3, <2>4, DeliverStep
<1>9. QED
  BY <1>7, <1>8

LEMMA GC_continue_reclaimStep ==
  ASSUME IInv, GC_continue_reclaim
  PROVE  IInv'
<1>1. call.kind \in Kind
  BY DEF IInv, TypeOK
<1>2. QED
  BY <1>1, SweepFirstStep DEF GC_continue_reclaim

LEMMA GC_reclaim_allStep ==
  ASSUME IInv, GC_reclaim_all
  PROVE  IInv'
<1>1. PICK k \in Kind : SweepFirst(k)
  BY DEF GC_reclaim_all, Counted
<1>2. QED
  BY <1>1, SweepFirstStep DEF GC_reclaim_all

LEMMA GC_new_hblkStep ==
  ASSUME IInv, GC_new_hblk
  PROVE  IInv'
<1>1. PICK k : k = call.kind
  OBVIOUS
<1>2. PICK b \in Block : GC_allochblk(b, k) /\ fl' = [fl EXCEPT ![k] = GC_build_fl(b)]
  BY <1>1 DEF GC_new_hblk
<1>3. PICK list : list = GC_build_fl(b)
  OBVIOUS
<1>4. /\ pc = "allocobj" /\ fl[k] = <<>> /\ UNCHANGED <<held, contents, rlist, tl, allocd, pc, call>>
      /\ fl' = [fl EXCEPT ![k] = list]
  BY <1>1, <1>2, <1>3 DEF GC_new_hblk
<1>5. k \in Kind /\ TypeOK /\ Separate
  BY <1>1, ListOfPlace DEF IInv, TypeOK
<1>6. /\ list \in Seq(Typed(k)) /\ IsInjective(list) /\ Range(list) = Objs(b)
      /\ Objs(b) \cap OnList = {}
  BY <1>2, <1>3, <1>5, NewList
<1>7. /\ ListsOK' /\ <<none, k>> \in Place /\ List(<<none, k>>)' = list
      /\ \A p \in Place : p # <<none, k>> => List(p)' = List(p)
  BY <1>4, <1>5, <1>6, FlChange
<1>8. Separate' /\ OnList' = (OnList \ Range(List(<<none, k>>))) \cup Range(list)
  BY <1>5, <1>6, <1>7, OneListChanges
<1>9. OnList' \subseteq OnList \cup Objs(b)
  BY <1>6, <1>8
<1>10. HolderOK'
  BY <1>4 DEF HolderOK, IInv, TypeOK, CallOK
<1>11. QED
  BY <1>2, <1>4, <1>5, <1>7, <1>8, <1>9, <1>10, NewBlockStep

LEMMA GC_collect_or_expandStep ==
  ASSUME IInv, GC_collect_or_expand
  PROVE  IInv'
<1>1. pc = "allocobj" /\ UNCHANGED <<held, contents, used, marked, fl, rlist, tl, allocd>>
  BY DEF GC_collect_or_expand
<1>2. CASE pc' = "collect" /\ \E stop \in BOOLEAN : call' = [call EXCEPT !.stop = stop]
  <2>1. PICK stop \in BOOLEAN : call' = [call EXCEPT !.stop = stop]
    BY <1>2
  <2>2. HolderOK'
    BY <1>1, <1>2, <2>1 DEF HolderOK, IInv, TypeOK, CallOK, PC
  <2>3. QED
    BY <1>1, <1>2, <2>2, HolderMoves
<1>3. CASE Unlock
  <2>1. HolderOK' /\ pc' # "finish"
    BY <1>1, <1>3, UnlockOK DEF IInv, TypeOK
  <2>2. QED
    BY <1>1, <2>1, HolderMoves
<1>4. QED
  BY <1>2, <1>3 DEF GC_collect_or_expand

-----------------------------------------------------------------------------
(***************************************************************************)
(* The collection.                                                         *)
(***************************************************************************)

LEMMA Returned ==
  ASSUME IInv, pc \in {"collect", "finish"}, NEW done \in BOOLEAN, CollectReturns(done),
         allocd' \in BOOLEAN
  PROVE  HolderOK' /\ pc' # "finish"
<1>1. CASE call.what = "gcollect" /\ Unlock
  BY <1>1, UnlockOK
<1>2. CASE pc' = "allocobj" /\ call' = [call EXCEPT !.retry = TRUE, !.stop = FALSE]
  BY <1>2 DEF HolderOK, IInv, TypeOK, CallOK, PC
<1>3. CASE pc' = "collect" /\ call' = [call EXCEPT !.stop = FALSE]
  BY <1>3 DEF HolderOK, IInv, TypeOK, CallOK, PC
<1>4. QED
  BY <1>1, <1>2, <1>3 DEF CollectReturns

LEMMA StoppedStep ==
  ASSUME IInv, Stopped
  PROVE  IInv'
<1>1. HolderOK' /\ pc' # "finish"
  BY Returned DEF Stopped, IInv, TypeOK
<1>2. QED
  BY <1>1, HolderMoves DEF Stopped

LEMMA FieldsType ==
  ASSUME TypeOK
  PROVE  \A o \in Obj : Fields(o) \subseteq Obj
<1>1. ASSUME NEW o \in Obj
      PROVE  UNION {{s[i + 1] : i \in {j \in 1 .. Len(s) - 1 : s[j] = o}} : s \in Lists} \subseteq Obj
  <2>1. ASSUME NEW s \in Lists, NEW j \in 1 .. Len(s) - 1 PROVE s[j + 1] \in Obj
    <3>1. s \in Seq(Obj)
      BY ListTypes DEF Lists
    <3>2. j + 1 \in 1 .. Len(s)
      BY <3>1
    <3>3. QED
      BY <3>1, <3>2
  <2>2. QED
    BY <2>1
<1>2. \A o \in Obj : contents[o] \subseteq Obj
  BY Layout DEF TypeOK
<1>3. QED
  BY <1>1, <1>2 DEF Fields

\* The mark phase follows the pointers as far as they go.
LEMMA TracedClosed ==
  ASSUME TypeOK, NEW J \in SUBSET Obj
  PROVE  /\ FirstRound(J) \subseteq Traced(J) /\ Traced(J) \subseteq Obj
         /\ FirstRound(J) \subseteq Obj /\ Followed(Traced(J))
<1>1. FirstRound(J) \subseteq Obj
  <2>1. Kept \subseteq Obj
    BY DEF Kept, TypeOK
  <2>2. contents[STATIC] \subseteq Obj /\ contents[STACK] \subseteq Obj
    BY Layout DEF TypeOK
  <2>3. QED
    BY <2>1, <2>2, FieldsType DEF FirstRound
<1>2. PICK R : R = FirstRound(J)
  OBVIOUS
<1>3. Traced(J) = R \cup {o \in Obj \ R : \A T \in SUBSET (Obj \ R) : Followed(R \cup T) => o \in T}
  BY <1>2 DEF Traced
<1>4. ASSUME NEW o \in Traced(J), NEW q \in Fields(o) PROVE q \in Traced(J)
  <2>1. o \in Obj /\ q \in Obj
    BY <1>1, <1>2, <1>3, FieldsType
  <2>2. ASSUME NEW T \in SUBSET (Obj \ R), Followed(R \cup T), q \notin R PROVE q \in T
    <3>1. o \in R \cup T
      BY <1>3, <2>2
    <3>2. QED
      BY <2>2, <3>1 DEF Followed
  <2>3. QED
    BY <1>3, <2>1, <2>2
<1>5. QED
  BY <1>1, <1>2, <1>3, <1>4 DEF Followed

LEMMA MarkStep ==
  ASSUME IInv, KindsCounted, Mark
  PROVE  IInv'
<1> USE DEF IInv
<1>1. /\ pc = "collect" /\ Swept /\ UNCHANGED <<held, contents, used, fl, rlist, tl, allocd>>
  BY DEF Mark
<1>2. PICK J \in {{}} \cup {{o} : o \in UNION {Objs(b) : b \in used}} :
        \/ /\ marked' = Traced(J) \cup LocalLists
           /\ pc' = "finish" /\ call' = [call EXCEPT !.stop = FALSE]
        \/ call.stop /\ marked' = FirstRound(J) /\ CollectReturns(FALSE)
  BY DEF Mark, GC_mark_thread_local_free_lists
<1>3. J \in SUBSET Obj
  <2>1. \A b \in used : Objs(b) \subseteq Obj
    BY Blocks DEF TypeOK
  <2>2. QED
    BY <1>2, <2>1
<1>4. /\ FirstRound(J) \subseteq Traced(J) /\ Traced(J) \subseteq Obj
      /\ FirstRound(J) \subseteq Obj /\ Followed(Traced(J))
  BY <1>3, TracedClosed
<1>5. /\ OnList' = OnList /\ LocalLists' = LocalLists /\ InUse' = InUse
      /\ \A p \in Place : List(p)' = List(p)
  BY <1>1 DEF OnList, Lists, List, LocalLists, InUse
<1>6. LocalLists \subseteq Obj
  BY ListTypes, LocalListsAre
<1>7. marked' \subseteq Obj /\ Kept \subseteq marked' /\ HolderOK'
  <2>1. CASE pc' = "finish" /\ marked' = Traced(J) \cup LocalLists /\ call' = [call EXCEPT !.stop = FALSE]
    <3>1. HolderOK'
      BY <1>1, <2>1 DEF HolderOK, TypeOK, CallOK, PC
    <3>2. QED
      BY <1>4, <1>6, <2>1, <3>1 DEF FirstRound
  <2>2. CASE marked' = FirstRound(J) /\ CollectReturns(FALSE)
    <3>1. HolderOK'
      BY <1>1, <2>2, Returned DEF TypeOK
    <3>2. QED
      BY <1>4, <2>2, <3>1 DEF FirstRound
  <2>3. QED
    BY <1>2, <2>1, <2>2
<1>8. TypeOK' /\ CallOK'
  BY <1>1, <1>7 DEF TypeOK, HolderOK
<1>9. OneOwner' /\ NoDangling' /\ Cleared' /\ QueuedOnce'
  <2>1. OneOwner'
    BY <1>1, <1>5 DEF OneOwner
  <2>2. NoDangling' /\ Cleared' /\ QueuedOnce'
    BY <1>1, <1>5 DEF NoDangling, Cleared, QueuedOnce
  <2>3. QED
    BY <2>1, <2>2
<1>10. SweepSafe'
  <2>1. ASSUME pc' # "finish", NEW k \in Kind PROVE rlist'[k] = <<>>
    BY <1>1, <1>2, <2>1, NotCounted DEF Swept
  <2>2. Range(<<>>) = {}
    BY DEF Range
  <2>3. QED
    BY <2>1, <2>2 DEF SweepSafe
<1>11. UncollectableMarked'
  BY <1>1, <1>5, <1>7 DEF UncollectableMarked, Kept, IS_UNCOLLECTABLE
<1>12. MarksClosed'
  <2>1. ASSUME pc' = "finish"
        PROVE  /\ LocalLists' \subseteq marked'
               /\ contents'[STATIC] \cup contents'[STACK] \subseteq marked'
               /\ \A o \in held' \cap marked' : contents'[o] \subseteq marked'
    <3>1. marked' = Traced(J) \cup LocalLists
      <4>1. ~CollectReturns(FALSE)
        BY <1>1, <2>1, Returned DEF TypeOK
      <4>2. QED
        BY <1>2, <4>1
    <3>2. contents[STATIC] \cup contents[STACK] \subseteq Traced(J)
      BY <1>4 DEF FirstRound
    <3>3. ASSUME NEW o \in held, o \in marked', NEW q \in contents[o] PROVE q \in marked'
      <4>1. o \in Traced(J) /\ o \in Obj
        BY <3>1, <3>3, LocalListsAre DEF OneOwner, TypeOK
      <4>2. q \in held /\ KindOf[o] # PTRFREE
        BY <3>3, <4>1 DEF NoDangling, Cleared
      <4>3. \E b \in used : q \in Objs(b)
        BY <4>2 DEF OneOwner, InUse
      <4>4. q \in Fields(o)
        BY <3>3, <4>2, <4>3 DEF Fields
      <4>5. QED
        BY <1>4, <3>1, <4>1, <4>4 DEF Followed
    <3>4. QED
      BY <1>1, <1>5, <3>1, <3>2, <3>3
  <2>2. QED
    BY <2>1 DEF MarksClosed
<1>13. QED
  BY <1>8, <1>9, <1>10, <1>11, <1>12

LEMMA FinishStep ==
  ASSUME IInv, KindsCounted, Finish
  PROVE  IInv'
<1> USE DEF IInv
<1>1. /\ pc = "finish" /\ marked' = Clean /\ held' = held \cap Clean /\ allocd' = FALSE
      /\ CollectReturns(TRUE) /\ UNCHANGED tl
  BY DEF Finish
<1>2. PICK empty : empty = {b \in used : GC_block_empty(b)}
  OBVIOUS
<1>3. /\ fl' = [k \in Kind |-> <<>>] /\ rlist' = [k \in Kind |-> Linked(Enqueued(k), <<>>)]
      /\ used' = used \ empty
      /\ contents' = [n \in Node |-> IF \E b \in empty : n \in Objs(b) THEN {} ELSE contents[n]]
  <2>1. \A k \in Kind : k \notin Counted => fl[k] = <<>> /\ rlist[k] = <<>>
    BY NotCounted
  <2>2. QED
    BY <1>1, <1>2, <2>1 DEF Finish, GC_start_reclaim
<1>4. HolderOK' /\ pc' # "finish"
  BY <1>1, Returned
<1>5. ASSUME NEW p \in Place
      PROVE  \/ Range(List(p)') = {} /\ IsInjective(List(p)')
             \/ /\ List(p)' = List(p) /\ Range(List(p)) \subseteq LocalLists
                /\ \A k \in Kind : Range(List(p)) \cap Range(fl[k]) = {}
  <2>1. ASSUME NEW k \in Kind, p = <<none, k>>
        PROVE  Range(List(p)') = {} /\ IsInjective(List(p)')
    <3>1. List(p)' = fl'[k] /\ fl'[k] = <<>>
      BY <1>3, <2>1, Places
    <3>2. QED
      BY <2>1, <3>1, ShortLists
  <2>2. ASSUME NEW t \in Thread, NEW k \in Tiny, p = <<t, k>>
        PROVE  /\ List(p)' = List(p) /\ Range(List(p)) \subseteq LocalLists
               /\ \A j \in Kind : Range(List(p)) \cap Range(fl[j]) = {}
    <3>1. List(p)' = List(p) /\ Range(List(p)) \subseteq LocalLists
      BY <1>1, <2>2, Places, LocalListsAre
    <3>2. \A j \in Kind : /\ <<none, j>> \in Place /\ List(<<none, j>>) = fl[j]
                          /\ <<none, j>> # p
      BY <2>2, Places
    <3>3. QED
      BY <3>1, <3>2 DEF OneOwner
  <2>3. QED
    BY <2>1, <2>2, Places
<1>6. Separate'
  BY <1>5 DEF Separate, OneOwner
<1>7. OnList' \subseteq Clean \cap OnList
  <2>1. ASSUME NEW p \in Place, NEW x \in Range(List(p)') PROVE x \in Clean \cap OnList
    <3>1. x \in LocalLists /\ \A k \in Kind : x \notin Range(fl[k])
      BY <1>5, <2>1
    <3>2. QED
      BY <1>1, <3>1, LocalListsAre DEF Clean, Counted, MarksClosed
  <2>2. QED
    BY <2>1, OnListIs
<1>8. Clean \subseteq Obj /\ \A b \in empty : b \in Block /\ Objs(b) \cap Clean = {}
  BY <1>2 DEF Clean, TypeOK, GC_block_empty
<1>9. /\ contents' \in [Node -> SUBSET Obj]
      /\ \A n \in Node : contents'[n] \subseteq contents[n]
      /\ \A n \in Clean \cup {STATIC, STACK} : contents'[n] = contents[n]
      /\ \A b \in empty : \A o \in Objs(b) : o \in Node /\ contents'[o] = {}
  <2>1. \A b \in empty : Objs(b) \subseteq Obj
    BY <1>8, Blocks
  <2>2. contents \in [Node -> SUBSET Obj]
    BY DEF TypeOK
  <2>3. \A n \in Clean \cup {STATIC, STACK} : n \in Node /\ ~\E b \in empty : n \in Objs(b)
    BY <1>8, <2>1, Layout
  <2>4. \A n \in Node : contents'[n] = IF \E b \in empty : n \in Objs(b) THEN {} ELSE contents[n]
    BY <1>3
  <2>5. contents' \in [Node -> SUBSET Obj]
    BY <1>3, <2>2
  <2>6. QED
    BY <2>1, <2>3, <2>4, <2>5, Layout
<1>10. ASSUME NEW k \in Kind
       PROVE  /\ rlist'[k] \in Seq({b \in Block : BlockKind(b) = k})
              /\ Range(rlist'[k]) = Enqueued(k) /\ IsInjective(rlist'[k])
  <2>1. PICK T : T = {b \in Block : BlockKind(b) = k}
    OBVIOUS
  <2>2. Enqueued(k) \in SUBSET T /\ T \in SUBSET Nat /\ IsFiniteSet(Enqueued(k))
    <3>1. Enqueued(k) \in SUBSET T /\ T \in SUBSET Nat /\ Enqueued(k) \in SUBSET Block
      BY <2>1, Layout DEF Enqueued, TypeOK
    <3>2. QED
      BY <3>1, Layout, FS_Subset
  <2>3. PICK empty0 : empty0 = <<>>
    OBVIOUS
  <2>4. empty0 \in Seq(T) /\ IsInjective(empty0) /\ Range(empty0) = {}
    BY <2>3 DEF IsInjective, Range
  <2>5. rlist'[k] = Linked(Enqueued(k), empty0)
    BY <1>3, <2>3
  <2>6. Enqueued(k) \cap Range(empty0) = {} /\ Enqueued(k) \cup Range(empty0) = Enqueued(k)
    BY <2>4
  <2>a. PICK S : S = Enqueued(k)
    OBVIOUS
  <2>7. /\ rlist'[k] \in Seq(T) /\ IsInjective(rlist'[k])
        /\ Range(rlist'[k]) = Enqueued(k) \cup Range(empty0)
    <3>1. S \in SUBSET T /\ IsFiniteSet(S) /\ S \cap Range(empty0) = {}
      BY <2>2, <2>6, <2>a
    <3>2. /\ Linked(S, empty0) \in Seq(T) /\ IsInjective(Linked(S, empty0))
          /\ Range(Linked(S, empty0)) = S \cup Range(empty0)
      BY <2>2, <2>4, <3>1, LinkedIs
    <3>3. QED
      BY <2>5, <2>a, <3>2
  <2>8. QED
    BY <2>1, <2>6, <2>7
<1>11. ListsOK'
  <2>1. /\ DOMAIN fl' = Kind
        /\ \A k \in Kind : fl'[k] = <<>> /\ <<>> \in Seq({o \in Obj : KindOf[o] = k})
    BY <1>3
  <2>2. QED
    BY <1>1, <2>1 DEF ListsOK, TypeOK
<1>12. QueuesOK'
  BY <1>3, <1>10 DEF QueuesOK
<1>13. TypeOK' /\ CallOK'
  <2>1. held' \subseteq Obj /\ used' \subseteq Block /\ marked' \subseteq Obj
    BY <1>1, <1>3, <1>8 DEF TypeOK
  <2>2. QED
    BY <1>4, <1>9, <1>11, <1>12, <2>1 DEF TypeOK, ListsOK, QueuesOK, HolderOK
<1>14. InUse \cap Clean \subseteq InUse'
  <2>1. ASSUME NEW b \in used, NEW x \in Objs(b), x \in Clean PROVE b \in used'
    BY <1>3, <1>8, <2>1
  <2>2. QED
    BY <2>1 DEF InUse
<1>15. OneOwner'
  <2>1. OnList' \cap held' = {}
    BY <1>1, <1>7 DEF OneOwner
  <2>2. OnList' \cup held' \subseteq InUse'
    BY <1>1, <1>7, <1>14 DEF OneOwner
  <2>3. QED
    BY <1>6, <2>1, <2>2 DEF OneOwner, Separate
<1>16. SweepSafe'
  <2>1. ASSUME NEW k \in Kind, NEW b \in Range(rlist'[k]) PROVE b \in used'
    BY <1>2, <1>3, <1>10, <2>1 DEF Enqueued
  <2>2. held' \cup OnList' \subseteq marked'
    BY <1>1, <1>7
  <2>3. QED
    BY <2>1, <2>2 DEF SweepSafe
<1>17. UncollectableMarked'
  BY <1>1, <1>7 DEF UncollectableMarked
<1>18. NoDangling'
  <2>1. ASSUME NEW n \in held' \cup {STATIC, STACK} PROVE contents'[n] \subseteq held'
    <3>1. contents'[n] = contents[n] /\ contents[n] \subseteq held
      BY <1>1, <1>9, <2>1 DEF NoDangling
    <3>2. contents[n] \subseteq marked
      BY <1>1, <2>1 DEF MarksClosed, Clean, Counted
    <3>3. held \cap marked \subseteq held'
      BY <1>1, LocalListsAre DEF Clean, Counted, OneOwner
    <3>4. QED
      BY <3>1, <3>2, <3>3
  <2>2. QED
    BY <2>1 DEF NoDangling
<1>19. Cleared'
  <2>1. ASSUME NEW o \in Obj, o \in OnList' \/ o \notin InUse' \/ KindOf[o] = PTRFREE
        PROVE  contents'[o] = {}
    <3>1. CASE o \in OnList \/ o \notin InUse \/ KindOf[o] = PTRFREE
      <4>1. contents[o] = {} /\ o \in Node
        BY <3>1, Layout DEF Cleared
      <4>2. QED
        BY <1>9, <4>1
    <3>2. CASE o \in InUse /\ o \notin InUse'
      <4>1. PICK b \in used : o \in Objs(b) /\ b \notin used'
        BY <3>2 DEF InUse
      <4>2. b \in empty
        BY <1>3, <4>1
      <4>3. QED
        BY <1>9, <4>1, <4>2
    <3>3. QED
      BY <1>7, <2>1, <3>1, <3>2
  <2>2. QED
    BY <2>1 DEF Cleared
<1>20. QueuedOnce' /\ MarksClosed'
  BY <1>4, <1>10 DEF QueuedOnce, MarksClosed
<1>21. QED
  BY <1>13, <1>15, <1>16, <1>17, <1>18, <1>19, <1>20

-----------------------------------------------------------------------------
(***************************************************************************)
(* The invariant.                                                          *)
(***************************************************************************)

LEMMA InitIInv == Init => IInv
<1> SUFFICES ASSUME Init PROVE IInv
  OBVIOUS
<1>1. \A k \in Kind : fl[k] = <<>> /\ rlist[k] = <<>>
  BY DEF Init
<1>2. \A t \in Thread : \A k \in Tiny : tl[t][k] = <<>>
  BY DEF Init
<1>3. \A p \in Place : List(p) = <<>>
  BY <1>1, <1>2, Places
<1>4. Range(<<>>) = {} /\ IsInjective(<<>>)
  BY ShortLists
<1>5. OnList = {} /\ LocalLists = {}
  <2>1. OnList = {}
    BY <1>3, <1>4, OnListIs
  <2>2. QED
    BY <2>1, LocalListsAre
<1>6. TypeOK
  <2>1. ListsOK /\ QueuesOK
    <3>1. \A T : <<>> \in Seq(T)
      OBVIOUS
    <3>2. /\ DOMAIN fl = Kind /\ DOMAIN rlist = Kind /\ DOMAIN tl = Thread
          /\ \A t \in Thread : DOMAIN tl[t] = Tiny
      BY DEF Init
    <3>3. QED
      BY <1>1, <1>2, <3>1, <3>2 DEF ListsOK, QueuesOK
  <2>2. HolderOK
    BY Layout DEF Init, HolderOK, NoCall, PC, CallOK
  <2>3. QED
    BY <2>1, <2>2, TypeParts DEF Init
<1>7. OneOwner
  BY <1>3, <1>4, <1>5 DEF Init, OneOwner
<1>8. SweepSafe /\ UncollectableMarked /\ QueuedOnce
  BY <1>1, <1>4, <1>5 DEF Init, SweepSafe, UncollectableMarked, QueuedOnce
<1>9. NoDangling /\ Cleared /\ MarksClosed /\ CallOK
  BY Layout DEF Init, NoDangling, Cleared, MarksClosed, CallOK, NoCall
<1>10. QED
  BY <1>6, <1>7, <1>8, <1>9 DEF IInv

LEMMA StutterStep == IInv /\ UNCHANGED vars => IInv'
<1> SUFFICES ASSUME IInv, UNCHANGED vars PROVE IInv'
  OBVIOUS
<1>1. \A p \in Place : List(p)' = List(p)
  BY DEF vars, List
<1>2. OnList' = OnList /\ LocalLists' = LocalLists /\ InUse' = InUse
  BY <1>1, OnListIs DEF vars, LocalLists, InUse
<1>3. OneOwner'
  BY <1>1, <1>2 DEF IInv, OneOwner, vars
<1>4. TypeOK' /\ CallOK'
  BY DEF IInv, TypeOK, CallOK, vars
<1>5. SweepSafe' /\ UncollectableMarked' /\ NoDangling' /\ QueuedOnce'
  BY <1>2 DEF IInv, SweepSafe, UncollectableMarked, NoDangling, QueuedOnce, vars
<1>6. Cleared' /\ MarksClosed'
  BY <1>2 DEF IInv, Cleared, MarksClosed, vars
<1>7. QED
  BY <1>3, <1>4, <1>5, <1>6 DEF IInv

LEMMA InHeapKinds == InHeap \subseteq Kind
BY SweepAssumption DEF InHeap, Kind, Obj

LEMMA NextIInv == KindsCounted /\ IInv /\ [Next]_vars => IInv'
<1> SUFFICES ASSUME KindsCounted, IInv, [Next]_vars PROVE IInv'
  OBVIOUS
<1>1. CASE Program
  <2>1. ASSUME NEW t \in Thread, NEW k \in Tiny, LocalMalloc(t, k) PROVE IInv'
    BY <2>1, LocalMallocStep
  <2>2. ASSUME NEW k \in InHeap, CoreMalloc(k) PROVE IInv'
    BY <2>2, CoreMallocStep, InHeapKinds
  <2>3. ASSUME NEW t \in Thread, NEW k \in InHeap, NEW what \in {"malloc", "many"}, Malloc(t, k, what)
        PROVE  IInv'
    BY <2>3, MallocStep, InHeapKinds
  <2>4. ASSUME NEW t \in Thread, NEW stop \in BOOLEAN, Gcollect(t, stop) PROVE IInv'
    BY <2>4, GcollectStep
  <2>5. ASSUME NEW o \in Obj, Free(o) PROVE IInv'
    BY <2>5, FreeStep
  <2>6. ASSUME NEW t \in Thread, Exit(t) PROVE IInv'
    BY <2>6, ExitStep
  <2>7. ASSUME NEW n \in Heap!Live \cup {STATIC, STACK}, NEW q \in Heap!Live, Mutate(n, q) PROVE IInv'
    BY <2>7, MutateStep
  <2>8. QED
    BY <1>1, <2>1, <2>2, <2>3, <2>4, <2>5, <2>6, <2>7 DEF Program
<1>2. CASE Holder
  BY <1>2, ManySweepsStep, ManyPrefixStep, ManyNewBlockStep, TakeObjStep, GC_continue_reclaimStep,
     GC_new_hblkStep, GC_collect_or_expandStep, StoppedStep, GC_reclaim_allStep, MarkStep, FinishStep
     DEF Holder
<1>3. CASE UNCHANGED vars
  BY <1>3, StutterStep
<1>4. QED
  BY <1>1, <1>2, <1>3 DEF Next

CountedInv == KindsCounted /\ IInv

LEMMA CountedInvariance == KindsCounted /\ Spec => []CountedInv
<1>1. KindsCounted /\ Init => CountedInv
  BY InitIInv DEF CountedInv
<1>2. CountedInv /\ [Next]_vars => CountedInv'
  BY NextIInv DEF CountedInv
<1>3. QED
  BY <1>1, <1>2, PTL DEF Spec

LEMMA Invariance == KindsCounted /\ Spec => []IInv
<1>1. CountedInv => IInv
  BY DEF CountedInv
<1>2. QED
  BY <1>1, CountedInvariance, PTL

\* TypeOK, one of the invariant's parts.
THEOREM SweepTypes == KindsCounted /\ Spec => []TypeOK
<1>1. IInv => TypeOK
  BY DEF IInv
<1>2. QED
  BY <1>1, Invariance, PTL

\* No object is handed out twice: the free lists of the process and of the
\* threads have no member in common, none the program has, and none in a free
\* block (GC_reclaim_clear, GC_build_fl, GC_generic_malloc_many and
\* GC_destroy_thread_local put objects on lists; reclaim.c, new_hblk.c,
\* mallocx.c, thread_local_alloc.c).
THEOREM OneOwnerHolds == KindsCounted /\ Spec => []OneOwner
<1>1. IInv => OneOwner
  BY DEF IInv
<1>2. QED
  BY <1>1, Invariance, PTL

\* A sweep that is put off does not take an object that was handed out since
\* the collection: blocks wait only with the mark bits of what is in use
\* (GC_reclaim_block, GC_start_reclaim; reclaim.c).
THEOREM SweepSafeHolds == KindsCounted /\ Spec => []SweepSafe
<1>1. IInv => SweepSafe
  BY DEF IInv
<1>2. QED
  BY <1>1, Invariance, PTL

\* Uncollectable objects are marked from the moment their block is built or
\* swept (GC_set_hdr_marks; new_hblk.c, mallocx.c, reclaim.c).
THEOREM UncollectableHolds == KindsCounted /\ Spec => []UncollectableMarked
<1>1. IInv => UncollectableMarked
  BY DEF IInv
<1>2. QED
  BY <1>1, Invariance, PTL

-----------------------------------------------------------------------------
(***************************************************************************)
(* Sweep implements the heap of Collector.                                 *)
(***************************************************************************)

LEMMA DeliverRefines ==
  ASSUME IInv, NEW o \in OnList, Deliver(o)
  PROVE  Heap!HeapNext
<1>1. /\ o \in Obj /\ o \notin held /\ contents[o] = {} /\ contents \in [Node -> SUBSET Obj]
      /\ held \subseteq Obj
  BY ListTypes DEF IInv, TypeOK, OneOwner, Cleared
<1>2. o # STACK /\ STACK \in Node /\ o \in Node
  BY <1>1, Layout
<1>3. /\ held' = held \cup {o} /\ contents' \in [Node -> SUBSET Obj]
      /\ \A n \in Node : contents'[n] = IF n = STACK THEN contents[n] \cup {o} ELSE contents[n]
  BY <1>1, <1>2 DEF Deliver
<1>4. Visible = [n \in Node |-> IF n \in held \cup {STATIC, STACK} THEN contents[n] ELSE {}]
  BY <1>1 DEF Visible
<1>5. Visible' = [n \in Node |-> IF n \in held' \cup {STATIC, STACK} THEN contents'[n] ELSE {}]
  BY <1>3 DEF Visible
<1>6. Visible' = [Visible EXCEPT ![o] = {}, ![STACK] = @ \cup {o}]
  BY <1>1, <1>2, <1>3, <1>4, <1>5
<1>7. o \in MayPoint[STACK]
  BY <1>1, SweepAssumption
<1>8. Heap!New(o)
  BY <1>1, <1>3, <1>6, <1>7 DEF Heap!New
<1>9. QED
  BY <1>1, <1>8 DEF Heap!HeapNext, Heap!Mutate, Obj

LEMMA SweepRefines ==
  ASSUME IInv, pc # "finish", NEW k \in Kind, NEW b, rlist[k] # <<>>, b = Head(rlist[k]),
         GC_reclaim_generic(b), held' = held
  PROVE  UNCHANGED Heap!heap
<1>1. rlist[k] \in Seq({c \in Block : BlockKind(c) = k}) /\ IsInjective(rlist[k])
  BY DEF IInv, TypeOK, QueuedOnce
<1>2. b \in Block /\ b \in Range(rlist[k])
  BY <1>1, TakeFirst
<1>3. Garbage(b) \cap held = {} /\ Garbage(b) \subseteq Obj
  BY <1>2, Blocks DEF IInv, SweepSafe, Garbage
<1>4. /\ contents \in [Node -> SUBSET Obj]
      /\ contents' = [n \in Node |-> IF n \in Garbage(b) THEN {} ELSE contents[n]]
  BY DEF GC_reclaim_generic, IInv, TypeOK
<1>5. \A n \in Node : n \in held \cup {STATIC, STACK} => contents'[n] = contents[n]
  BY <1>3, <1>4, Layout
<1>6. Visible' = Visible
  BY <1>4, <1>5 DEF Visible
<1>7. QED
  BY <1>6 DEF Heap!heap

LEMMA FreeRefines ==
  ASSUME IInv, NEW o \in Obj, Free(o)
  PROVE  Heap!HeapNext
<1>1. contents \in [Node -> SUBSET Obj] /\ o # STACK /\ o # STATIC /\ STACK \in Node /\ o \in Node
  BY Layout DEF IInv, TypeOK
<1>2. /\ o \in held /\ o \in contents[STACK] /\ held' = held \ {o}
      /\ contents' = [contents EXCEPT ![o] = {}, ![STACK] = @ \ {o}]
      /\ \A n \in Node \ {STACK} : o \notin Visible[n]
  BY DEF Free
<1>3. Visible = [n \in Node |-> IF n \in held \cup {STATIC, STACK} THEN contents[n] ELSE {}]
  BY <1>1 DEF Visible
<1>4. contents' \in [Node -> SUBSET Obj]
  BY <1>1, <1>2
<1>5. Visible' = [n \in Node |-> IF n \in held' \cup {STATIC, STACK} THEN contents'[n] ELSE {}]
  BY <1>4 DEF Visible
<1>6. Visible' = [Visible EXCEPT ![o] = {}, ![STACK] = @ \ {o}]
  BY <1>1, <1>2, <1>3, <1>4, <1>5
<1>7. o \in Visible[STACK]
  BY <1>1, <1>2, <1>3
<1>8. Heap!Free(o)
  BY <1>2, <1>6, <1>7 DEF Heap!Free, Node
<1>9. QED
  BY <1>8 DEF Heap!HeapNext, Heap!Mutate, Obj

LEMMA MutateRefines ==
  ASSUME IInv, NEW n \in Heap!Live \cup {STATIC, STACK}, NEW q \in Heap!Live, Mutate(n, q)
  PROVE  Heap!HeapNext
<1>1. /\ contents \in [Node -> SUBSET Obj] /\ n \in Node /\ q \in Obj
      /\ n \in held \cup {STATIC, STACK}
  BY LiveHeld, Layout DEF IInv, TypeOK
<1>2. /\ q \in MayPoint[n] /\ held' = held
      /\ contents' = [contents EXCEPT ![n] = IF q \in @ THEN @ \ {q} ELSE @ \cup {q}]
  BY DEF Mutate
<1>3. Visible = [m \in Node |-> IF m \in held \cup {STATIC, STACK} THEN contents[m] ELSE {}]
  BY <1>1 DEF Visible
<1>4. contents' \in [Node -> SUBSET Obj]
  BY <1>1, <1>2
<1>5. Visible' = [m \in Node |-> IF m \in held \cup {STATIC, STACK} THEN contents'[m] ELSE {}]
  BY <1>2, <1>4 DEF Visible
<1>6. Visible[n] = contents[n] /\ n \in Heap!Live \cup Heap!Roots
  BY <1>1, <1>3 DEF Heap!Roots
<1>7. CASE q \in contents[n]
  <2>1. Visible' = [Visible EXCEPT ![n] = @ \ {q}]
    BY <1>1, <1>2, <1>3, <1>5, <1>7
  <2>2. Heap!Clear(n, q)
    BY <1>2, <1>6, <1>7, <2>1 DEF Heap!Clear
  <2>3. QED
    BY <1>1, <2>2 DEF Heap!HeapNext, Heap!Mutate, Obj, Node
<1>8. CASE q \notin contents[n]
  <2>1. Visible' = [Visible EXCEPT ![n] = @ \cup {q}]
    BY <1>1, <1>2, <1>3, <1>5, <1>8
  <2>2. Heap!Store(n, q)
    BY <1>2, <1>6, <1>8, <2>1 DEF Heap!Store
  <2>3. QED
    BY <1>1, <2>2 DEF Heap!HeapNext, Heap!Mutate, Obj, Node
<1>9. QED
  BY <1>7, <1>8

\* What the collection takes back is what the program cannot reach.
LEMMA FinishRefines ==
  ASSUME IInv, Finish
  PROVE  Heap!HeapNext
<1>1. PICK D : D = held \ Clean
  OBVIOUS
<1>2. /\ pc = "finish" /\ held' = held \cap Clean /\ held' = held \ D /\ D \in SUBSET held
  BY <1>1 DEF Finish
<1>3. \A o \in D : o \notin Heap!Live
  BY <1>1, <1>2, LiveHeld, LocalListsAre DEF IInv, OneOwner, Clean, Counted
<1>4. /\ contents \in [Node -> SUBSET Obj] /\ used \subseteq Block /\ marked \subseteq Obj
  BY DEF IInv, TypeOK
<1>5. /\ contents' \in [Node -> SUBSET Obj]
      /\ \A n \in Clean \cup {STATIC, STACK} : contents'[n] = contents[n]
  <2>1. contents' = [n \in Node |-> IF \E b \in {c \in used : GC_block_empty(c)} : n \in Objs(b)
                                    THEN {} ELSE contents[n]]
    BY DEF Finish, GC_start_reclaim
  <2>2. \A b \in used : GC_block_empty(b) => Objs(b) \cap Clean = {} /\ Objs(b) \subseteq Obj
    BY <1>4, Blocks DEF GC_block_empty
  <2>3. \A n \in Clean \cup {STATIC, STACK} : n \in Node
    BY <1>4, Layout DEF Clean
  <2>4. QED
    BY <1>4, <2>1, <2>2, <2>3, Layout
<1>6. Visible = [n \in Node |-> IF n \in held \cup {STATIC, STACK} THEN contents[n] ELSE {}]
  BY <1>4 DEF Visible
<1>7. Visible' = [n \in Node |-> IF n \in held' \cup {STATIC, STACK} THEN contents'[n] ELSE {}]
  BY <1>5 DEF Visible
<1>8. STATIC \notin D /\ STACK \notin D
  BY <1>1, Layout DEF IInv, TypeOK
<1>9. Visible' = [n \in Node |-> IF n \in D THEN {} ELSE Visible[n]]
  BY <1>2, <1>5, <1>6, <1>7, <1>8
<1>10. Heap!Reclaim(D)
  BY <1>2, <1>9 DEF Heap!Reclaim, Node
<1>11. QED
  BY <1>2, <1>3, <1>10 DEF Heap!HeapNext

LEMMA ProgramRefines ==
  ASSUME IInv, Program
  PROVE  Heap!HeapNext \/ UNCHANGED Heap!heap
<1>1. ASSUME NEW t \in Thread, NEW k \in Tiny, LocalMalloc(t, k) PROVE Heap!HeapNext
  <2>1. tl[t][k] \in Seq(Typed(k)) /\ IsInjective(tl[t][k]) /\ Range(tl[t][k]) \subseteq OnList
    <3>1. <<t, k>> \in Place /\ List(<<t, k>>) = tl[t][k]
      BY Places
    <3>2. tl[t][k] \in Seq(Typed(k))
      BY DEF IInv, TypeOK, Typed
    <3>3. IsInjective(List(<<t, k>>)) /\ Range(List(<<t, k>>)) \subseteq OnList
      BY <3>1, OnListIs DEF IInv, OneOwner
    <3>4. QED
      BY <3>1, <3>2, <3>3
  <2>2. Head(tl[t][k]) \in Range(tl[t][k]) /\ Deliver(Head(tl[t][k]))
    BY <1>1, <2>1, TakeFirst DEF LocalMalloc
  <2>3. Head(tl[t][k]) \in OnList
    BY <2>1, <2>2
  <2>4. QED
    BY <2>2, <2>3, DeliverRefines
<1>2. ASSUME NEW k \in InHeap, CoreMalloc(k) PROVE Heap!HeapNext
  <2>1. fl[k] \in Seq(Typed(k)) /\ IsInjective(fl[k]) /\ Range(fl[k]) \subseteq OnList
    BY ListOfPlace, InHeapKinds
  <2>2. Head(fl[k]) \in Range(fl[k]) /\ Deliver(Head(fl[k]))
    BY <1>2, <2>1, TakeFirst DEF CoreMalloc
  <2>3. QED
    BY <2>1, <2>2, DeliverRefines
<1>3. ASSUME NEW t \in Thread, NEW k \in InHeap, NEW what \in {"malloc", "many"}, Malloc(t, k, what)
      PROVE  UNCHANGED Heap!heap
  BY <1>3 DEF Malloc, Heap!heap, Visible
<1>4. ASSUME NEW t \in Thread, NEW stop \in BOOLEAN, Gcollect(t, stop) PROVE UNCHANGED Heap!heap
  BY <1>4 DEF Gcollect, Heap!heap, Visible
<1>5. ASSUME NEW t \in Thread, Exit(t) PROVE UNCHANGED Heap!heap
  BY <1>5 DEF Exit, Heap!heap, Visible
<1>6. QED
  BY <1>1, <1>2, <1>3, <1>4, <1>5, FreeRefines, MutateRefines DEF Program

LEMMA HolderRefines ==
  ASSUME IInv, Holder
  PROVE  Heap!HeapNext \/ UNCHANGED Heap!heap
<1>1. CASE ManySweeps
  <2>1. PICK k, b : k = call.kind /\ b = Head(rlist[k])
    OBVIOUS
  <2>2. /\ pc = "many" /\ rlist[k] # <<>> /\ GC_reclaim_generic(b) /\ held' = held /\ k \in Kind
    BY <1>1, <2>1 DEF ManySweeps, IInv, TypeOK
  <2>3. QED
    BY <2>1, <2>2, SweepRefines
<1>2. ASSUME NEW k \in Kind, SweepFirst(k), pc # "finish", held' = held PROVE UNCHANGED Heap!heap
  <2>1. PICK b : b = Head(rlist[k])
    OBVIOUS
  <2>2. rlist[k] # <<>> /\ GC_reclaim_generic(b)
    BY <1>2, <2>1 DEF SweepFirst
  <2>3. QED
    BY <1>2, <2>1, <2>2, SweepRefines
<1>3. CASE GC_continue_reclaim
  BY <1>2, <1>3 DEF GC_continue_reclaim, IInv, TypeOK
<1>4. CASE GC_reclaim_all
  BY <1>2, <1>4 DEF GC_reclaim_all, Counted
<1>5. CASE TakeObj
  <2>1. PICK k \in Kind : k = call.kind /\ fl[k] # <<>>
    BY <1>5 DEF TakeObj, IInv, TypeOK
  <2>2. fl[k] \in Seq(Typed(k)) /\ IsInjective(fl[k]) /\ Range(fl[k]) \subseteq OnList
    BY ListOfPlace
  <2>3. Head(fl[k]) \in OnList
    BY <2>1, <2>2, TakeFirst
  <2>4. CASE UNCHANGED <<held, contents>>
    BY <2>4 DEF Heap!heap, Visible
  <2>5. CASE Deliver(Head(fl[k]))
    BY <2>3, <2>5, DeliverRefines
  <2>6. QED
    BY <1>5, <2>1, <2>4, <2>5 DEF TakeObj
<1>6. CASE ManyPrefix \/ ManyNewBlock \/ GC_new_hblk \/ GC_collect_or_expand \/ Stopped \/ Mark
  <2>1. UNCHANGED <<held, contents>>
    BY <1>6 DEF ManyPrefix, ManyNewBlock, GC_new_hblk, GC_collect_or_expand, Stopped, Mark
  <2>2. QED
    BY <2>1 DEF Heap!heap, Visible
<1>7. QED
  BY <1>1, <1>3, <1>4, <1>5, <1>6, FinishRefines DEF Holder

\* Whatever is handed out, given back, swept and collected, in whatever order,
\* the program sees a heap that loses only what it cannot reach: the promise
\* of Collector, kept by the whole of allocation and sweeping.
THEOREM ImplementsHeap == KindsCounted /\ Spec => HeapSpec
<1>1. Init => Heap!HeapInit
  <2>1. ASSUME Init PROVE Visible = [n \in Node |-> {}]
    BY <2>1 DEF Init, Visible
  <2>2. QED
    BY <2>1 DEF Init, Heap!HeapInit, Node
<1>2. IInv /\ [Next]_vars => [Heap!HeapNext]_(Heap!heap)
  <2>1. UNCHANGED vars => UNCHANGED Heap!heap
    BY DEF vars, Heap!heap, Visible
  <2>2. QED
    BY <2>1, ProgramRefines, HolderRefines DEF Next
<1>3. QED
  BY <1>1, <1>2, Invariance, PTL DEF Spec, HeapSpec, Heap!HeapSpec

-----------------------------------------------------------------------------
(***************************************************************************)
(* A free object does not come out of a collection marked.                 *)
(***************************************************************************)

FreeList == UNION {Range(fl[k]) : k \in Kind}

\* What leaves the list of one kind has an owner.
LEMMA OneFreeList ==
  ASSUME TypeOK, NEW k \in Kind, NEW new, fl' = [fl EXCEPT ![k] = new], NEW X,
         Range(fl[k]) \subseteq Range(new) \cup X
  PROVE  FreeList \subseteq FreeList' \cup X
<1>1. \A j \in Kind : fl'[j] = IF j = k THEN new ELSE fl[j]
  BY DEF TypeOK
<1>2. \A j \in Kind : Range(fl[j]) \subseteq Range(fl'[j]) \cup X
  BY <1>1
<1>3. QED
  BY <1>2 DEF FreeList

LEMMA SweepFirstKeeps ==
  ASSUME IInv, pc # "finish", NEW k \in Kind, SweepFirst(k)
  PROVE  FreeList \subseteq FreeList'
<1>1. PICK b : b = Head(rlist[k])
  OBVIOUS
<1>2. PICK new : new = Linked(Garbage(b), fl[k])
  OBVIOUS
<1>3. rlist[k] # <<>> /\ fl' = [fl EXCEPT ![k] = new]
  BY <1>1, <1>2 DEF SweepFirst
<1>4. Range(fl[k]) \subseteq Range(new)
  BY <1>1, <1>2, <1>3, ListOfPlace, SweptList
<1>5. FreeList \subseteq FreeList' \cup {}
  BY <1>3, <1>4, OneFreeList DEF IInv
<1>6. QED
  BY <1>5

LEMMA HeadTaken ==
  ASSUME IInv, NEW k \in Kind, fl[k] # <<>>, fl' = [fl EXCEPT ![k] = Tail(@)],
         NEW X, Head(fl[k]) \in X
  PROVE  FreeList \subseteq FreeList' \cup X
<1>1. PICK new : new = Tail(fl[k])
  OBVIOUS
<1>2. fl[k] \in Seq(Typed(k)) /\ IsInjective(fl[k])
  BY ListOfPlace
<1>3. Range(fl[k]) \subseteq Range(new) \cup X
  BY <1>1, <1>2, TakeFirst
<1>4. fl' = [fl EXCEPT ![k] = new]
  BY <1>1
<1>5. QED
  BY <1>3, <1>4, OneFreeList DEF IInv

LEMMA ListLocal ==
  ASSUME NEW t \in Thread, NEW k \in Tiny
  PROVE  Range(tl'[t][k]) \subseteq LocalLists'
BY DEF LocalLists

FreeStay == \A o \in FreeList : o \in FreeList' \cup held' \cup LocalLists' \/ o \notin marked'

LEMMA FreeStayStep ==
  ASSUME KindsCounted, IInv, [Next]_vars
  PROVE  FreeStay
<1>1. CASE UNCHANGED fl
  BY <1>1 DEF FreeList, FreeStay
<1>2. ASSUME NEW k \in Kind, CoreMalloc(k) PROVE FreeStay
  <2>1. fl[k] # <<>> /\ fl' = [fl EXCEPT ![k] = Tail(@)] /\ Head(fl[k]) \in held'
    BY <1>2 DEF CoreMalloc, Deliver
  <2>2. QED
    BY <2>1, HeadTaken DEF FreeStay
<1>3. ASSUME NEW o \in Obj, Free(o) PROVE FreeStay
  <2>1. PICK k \in Kind : k = KindOf[o]
    BY SweepAssumption DEF Obj, Kind
  <2>2. PICK list, one, new : list = fl[k] /\ one = <<o>> /\ new = one \o list
    OBVIOUS
  <2>3. list \in Seq(Obj) /\ one \in Seq(Obj)
    <3>1. list \in Seq(Typed(k))
      BY <2>2, ListOfPlace
    <3>2. Typed(k) \subseteq Obj
      BY DEF Typed
    <3>3. QED
      BY <2>2, <3>1, <3>2, SeqMonotonic
  <2>4. Range(list) \subseteq Range(new)
    <3>1. Range(one \o list) = Range(one) \cup Range(list)
      BY <2>3, ConcatLists
    <3>2. QED
      BY <2>2, <3>1
  <2>5. fl' = [fl EXCEPT ![k] = new]
    BY <1>3, <2>1, <2>2 DEF Free
  <2>6. FreeList \subseteq FreeList' \cup {}
    BY <2>2, <2>4, <2>5, OneFreeList DEF IInv
  <2>7. QED
    BY <2>6 DEF FreeStay
<1>4. ASSUME NEW t \in Thread, Exit(t) PROVE FreeStay
  <2>1. ASSUME NEW k \in Kind PROVE Range(fl[k]) \subseteq Range(fl'[k])
    <3>1. CASE k \in Tiny
      <4>1. PICK s, r : s = tl[t][k] /\ r = fl[k]
        OBVIOUS
      <4>2. s \in Seq(Typed(k)) /\ r \in Seq(Typed(k))
        BY <3>1, <4>1, ListOfPlace DEF IInv, TypeOK, Typed
      <4>3. fl'[k] = s \o r
        BY <1>4, <3>1, <4>1 DEF Exit
      <4>4. QED
        BY <4>1, <4>2, <4>3, ConcatLists
    <3>2. CASE k \notin Tiny
      BY <1>4, <3>2 DEF Exit
    <3>3. QED
      BY <3>1, <3>2
  <2>2. QED
    BY <2>1 DEF FreeList, FreeStay
<1>5. CASE ManyPrefix
  <2>1. PICK t, k, s : t = call.thread /\ k = call.kind /\ s = fl[k]
    OBVIOUS
  <2>2. PICK n : n = IF Len(s) < PerBlock THEN Len(s) ELSE PerBlock
    OBVIOUS
  <2>3. PICK first, rest : first = SubSeq(s, 1, n) /\ rest = SubSeq(s, n + 1, Len(s))
    OBVIOUS
  <2>4. pc = "many" /\ tl' = [tl EXCEPT ![t][k] = first] /\ fl' = [fl EXCEPT ![k] = rest]
    BY <1>5, <2>1, <2>2, <2>3 DEF ManyPrefix
  <2>5. t \in Thread /\ k \in Tiny /\ k \in Kind
    BY <2>1, <2>4, ManyCall
  <2>6. s \in Seq(Typed(k)) /\ IsInjective(s)
    BY <2>1, <2>5, ListOfPlace
  <2>7. n \in 0 .. Len(s)
    BY <2>2, <2>6, SweepAssumption
  <2>8. Range(first) \cup Range(rest) = Range(s)
    BY <2>3, <2>6, <2>7, CutList
  <2>9. tl'[t][k] = first
    BY <2>4, <2>5 DEF IInv, TypeOK
  <2>10. Range(first) \subseteq LocalLists'
    BY <2>5, <2>9, ListLocal
  <2>11. Range(fl[k]) \subseteq Range(rest) \cup LocalLists'
    BY <2>1, <2>8, <2>10
  <2>12. FreeList \subseteq FreeList' \cup LocalLists'
    BY <2>4, <2>5, <2>11, OneFreeList DEF IInv
  <2>13. QED
    BY <2>12 DEF FreeStay
<1>6. CASE TakeObj
  <2>1. PICK k \in Kind : k = call.kind /\ fl[k] # <<>> /\ fl' = [fl EXCEPT ![k] = Tail(@)]
    BY <1>6 DEF TakeObj, IInv, TypeOK
  <2>2. CASE call.what = "many"
    <3>1. PICK t \in Thread : t = call.thread /\ k \in Tiny
      BY <1>6, <2>1, <2>2, ManyCall DEF TakeObj
    <3>2. tl' = [tl EXCEPT ![t][k] = <<Head(fl[k])>>]
      BY <1>6, <2>1, <2>2, <3>1 DEF TakeObj
    <3>3. tl'[t][k] = <<Head(fl[k])>>
      BY <3>1, <3>2 DEF IInv, TypeOK
    <3>4. Head(fl[k]) \in Range(<<Head(fl[k])>>)
      BY DEF Range
    <3>5. Head(fl[k]) \in LocalLists'
      BY <3>1, <3>3, <3>4, ListLocal
    <3>6. QED
      BY <2>1, <3>5, HeadTaken DEF FreeStay
  <2>3. CASE call.what # "many"
    <3>1. Head(fl[k]) \in held'
      BY <1>6, <2>1, <2>3 DEF TakeObj, Deliver
    <3>2. QED
      BY <2>1, <3>1, HeadTaken DEF FreeStay
  <2>4. QED
    BY <2>2, <2>3
<1>7. CASE GC_continue_reclaim \/ GC_reclaim_all
  <2>1. PICK k \in Kind : SweepFirst(k) /\ pc # "finish"
    BY <1>7 DEF GC_continue_reclaim, GC_reclaim_all, Counted, IInv, TypeOK
  <2>2. QED
    BY <2>1, SweepFirstKeeps DEF FreeStay
<1>8. CASE GC_new_hblk
  <2>1. PICK k, new : k = call.kind /\ fl[k] = <<>> /\ fl' = [fl EXCEPT ![k] = new] /\ k \in Kind
    BY <1>8 DEF GC_new_hblk, IInv, TypeOK
  <2>2. Range(fl[k]) = {}
    BY <2>1, ShortLists
  <2>3. FreeList \subseteq FreeList' \cup {}
    BY <2>1, <2>2, OneFreeList DEF IInv
  <2>4. QED
    BY <2>3 DEF FreeStay
<1>9. CASE Finish
  <2>1. ASSUME NEW k \in Kind, NEW o \in Range(fl[k]) PROVE o \notin marked'
    <3>1. k \in Counted
      BY <2>1, NotCounted, ShortLists DEF IInv
    <3>2. QED
      BY <1>9, <2>1, <3>1 DEF Finish, Clean
  <2>2. QED
    BY <2>1 DEF FreeList, FreeStay
<1>10. CASE Program
  <2>1. ASSUME NEW k \in InHeap, CoreMalloc(k) PROVE FreeStay
    BY <1>2, <2>1, InHeapKinds
  <2>2. ASSUME NEW t \in Thread, NEW k \in Tiny, LocalMalloc(t, k) PROVE FreeStay
    BY <1>1, <2>2 DEF LocalMalloc
  <2>3. ASSUME NEW t \in Thread, NEW k \in InHeap, NEW what \in {"malloc", "many"}, Malloc(t, k, what)
        PROVE  FreeStay
    BY <1>1, <2>3 DEF Malloc
  <2>4. ASSUME NEW t \in Thread, NEW stop \in BOOLEAN, Gcollect(t, stop) PROVE FreeStay
    BY <1>1, <2>4 DEF Gcollect
  <2>5. ASSUME NEW n, NEW q, Mutate(n, q) PROVE FreeStay
    BY <1>1, <2>5 DEF Mutate
  <2>6. QED
    BY <1>3, <1>4, <1>10, <2>1, <2>2, <2>3, <2>4, <2>5 DEF Program
<1>11. CASE ManySweeps \/ ManyNewBlock \/ GC_collect_or_expand \/ Stopped \/ Mark
  BY <1>1, <1>11 DEF ManySweeps, ManyNewBlock, GC_collect_or_expand, Stopped, Mark
<1>12. CASE UNCHANGED vars
  BY <1>1, <1>12 DEF vars
<1>13. QED
  BY <1>5, <1>6, <1>7, <1>8, <1>9, <1>10, <1>11, <1>12 DEF Next, Holder

\* A stale word may mark a free object: the marks of the free lists are cleared
\* before the blocks are queued (GC_clear_fl_marks in GC_finish_collection;
\* alloc.c), so no sweep loses it, or it has an owner by then.
THEOREM FreeStays == KindsCounted /\ Spec => FreeStaysFree
<1>1. CountedInv /\ [Next]_vars =>
        [\A o \in UNION {Range(fl[k]) : k \in Kind} :
           o \in (UNION {Range(fl[k]) : k \in Kind})' \cup held' \cup LocalLists' \/ o \notin marked']_vars
  <2>1. FreeList = UNION {Range(fl[k]) : k \in Kind} /\ FreeList' = (UNION {Range(fl[k]) : k \in Kind})'
    BY DEF FreeList
  <2>2. QED
    BY <2>1, FreeStayStep DEF FreeStay, CountedInv
<1>2. QED
  BY <1>1, CountedInvariance, PTL DEF Spec, FreeStaysFree
=============================================================================
