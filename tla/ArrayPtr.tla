------------------------------ MODULE ArrayPtr ------------------------------
(***************************************************************************)
(* Spatial safety of the array pointer aptr<T> (aptr.hpp, common.hpp), its *)
(* conversion to ptr<T>, the casts between arrays of different element     *)
(* types (casts.hpp) and the allocation it describes (util.hpp), in the    *)
(* build with the collector (_HAVE_BDW_GC): free() only clears a field and *)
(* a block lives until no pointer keeps it.                                *)
(*                                                                         *)
(* A long has the values -Half .. Half-1 and a size_t 0 .. 2*Half-1; all   *)
(* arithmetic on them wraps, as the compiled code does.                    *)
(***************************************************************************)
EXTENDS Integers

CONSTANTS
  Half,      \* 2^(w-1) for words of w bits
  Bases,     \* addresses at which blocks may start
  MaxLen,    \* bound: bytes in a block
  AVar,      \* variables of type aptr<T>
  EltOf,     \* EltOf[v]: sizeof(T) of the variable v
  PVar,      \* variables of type ptr<T>
  Ints       \* bound: the int operands of += and []

NULL == 0

LONG   == -Half .. Half - 1
SIZE_T == 0 .. 2 * Half - 1
Elts   == {EltOf[v] : v \in AVar}

ASSUME ArrayAssumption ==
  /\ Half \in Nat \ {0}
  /\ MaxLen \in 1 .. Half - 1
  /\ EltOf \in [AVar -> 1 .. MaxLen]
  /\ Ints \subseteq LONG
  /\ Bases \subseteq Nat \ {0}
  /\ \A b, c \in Bases : b < c => b + MaxLen < c

VARIABLES
  len,      \* len[b]: bytes of the block at b, 0 when there is none
  ap,       \* ap[v]: the fields of the aptr variable v
  pv,       \* pv[p]: the address in the ptr variable p
  aborted   \* an assert failed and the program stopped

vars == <<len, ap, pv, aborted>>

ToLong(n) == ((n + Half) % (2 * Half)) - Half
ToSize(n) == n % (2 * Half)

Aptr == [data: {NULL} \cup Bases, index: LONG, size: 0 .. MaxLen]

\* The fields of a ptr, with the element size of its type.  wild is history:
\* the ptr came from an aptr without data.
Ptr == [addr: Int, elt: Elts \cup {0}, wild: BOOLEAN]

Block(b) == b .. b + len[b] - 1

LiveBytes == UNION {Block(b) : b \in Bases}

\* aptr() and aptr(nullptr_t)
Null == [data |-> NULL, index |-> 0, size |-> 0]

\* The bytes of the element data[k] of an array of v's type.
ElementOf(v, k) == ap[v].data + k * EltOf[v] .. ap[v].data + (k + 1) * EltOf[v] - 1

\* Mutant: the upper comparison admits one element past the end.
BoundsPastEnd(a, i) == ToLong(a.index + i) >= 0 /\ ToLong(a.index + i) <= a.size

\* BOUNDS_CHECK is the case i = 0 of BOUNDS_CHECK_INDEX.
BOUNDS_CHECK_INDEX(a, i) == ToLong(a.index + i) >= 0 /\ ToLong(a.index + i) < a.size

\* Mutant: one element past the end passes.
spatialCheckShort(v, numBytes) ==
  LET n == numBytes \div EltOf[v]
  IN  ToSize(ap[v].index + n) <= ToSize(ap[v].size + 1)

spatialCheck(v, numBytes) ==
  LET n == numBytes \div EltOf[v]
  IN  /\ ToLong(ap[v].index + ToLong(n)) >= 0
      /\ ToSize(ap[v].index + n) <= ToSize(ap[v].size)

-----------------------------------------------------------------------------
Init ==
  /\ len = [b \in Bases |-> 0]
  /\ ap = [v \in AVar |-> Null]
  /\ pv = [p \in PVar |-> [addr |-> NULL, elt |-> 0, wild |-> FALSE]]
  /\ aborted = FALSE

\* v = new_array<T>(n); the allocator never returns an empty block.
NewArray(v, b, n) ==
  /\ ~aborted
  /\ len[b] = 0
  /\ n * EltOf[v] <= MaxLen
  /\ len' = [len EXCEPT ![b] = IF n = 0 THEN 1 ELSE n * EltOf[v]]
  /\ ap' = [ap EXCEPT ![v] = [data |-> b, index |-> 0, size |-> n]]
  /\ UNCHANGED <<pv, aborted>>

SetAptr(v, a) ==
  /\ ~aborted
  /\ ap' = [ap EXCEPT ![v] = a]
  /\ UNCHANGED <<len, pv, aborted>>

AssignNull(v) == SetAptr(v, Null)

\* v = u; and the copy constructors.
Copy(v, u) == EltOf[v] = EltOf[u] /\ SetAptr(v, ap[u])

\* Mutant: index is kept as a size_t.
AdvanceUnsigned(v, k) == SetAptr(v, [ap[v] EXCEPT !.index = ToSize(@ + k)])

\* ++v, v++, --v, v--, v += k and v -= k
Advance(v, k) == SetAptr(v, [ap[v] EXCEPT !.index = ToLong(@ + k)])

\* v = u + d; v = u.offset(d);
Plus(v, u, d) ==
  /\ EltOf[v] = EltOf[u]
  /\ SetAptr(v, [ap[u] EXCEPT !.index = ToLong(@ + d)])

\* v = u - d;
Minus(v, u, d) ==
  /\ EltOf[v] = EltOf[u]
  /\ SetAptr(v, [ap[u] EXCEPT !.index = ToLong(@ - d)])

\* Mutant: free() hands the block back, as in the build without the collector.
FreeReleases(v) ==
  /\ ~aborted
  /\ ap[v].data # NULL
  /\ len' = [len EXCEPT ![ap[v].data] = 0]
  /\ ap' = [ap EXCEPT ![v].data = NULL]
  /\ UNCHANGED <<pv, aborted>>

\* v.free() with the collector: data = NULL, index and size stay.
Free(v) == SetAptr(v, [ap[v] EXCEPT !.data = NULL])

\* newSize = (p.getSize() * sizeof(T)) / sizeof(U)
CastSize(v, u) == ToSize(ap[u].size * EltOf[u]) \div EltOf[v]

\* v = cast<U>(u); through internal_cast: the index is kept.
Cast(v, u) ==
  /\ EltOf[v] # EltOf[u]
  /\ SetAptr(v, [ap[u] EXCEPT !.size = CastSize(v, u)])

\* *v, v->m (i = 0) and v[i]: the access itself changes no pointer.
Access(v, i) ==
  /\ ~aborted
  /\ aborted' = ~BOUNDS_CHECK_INDEX(ap[v], i)
  /\ UNCHANGED <<len, ap, pv>>

\* Mutant: the conversion without its check.
ToPtrUnchecked(p, v) ==
  /\ ~aborted
  /\ pv' = [pv EXCEPT ![p] = [addr |-> ap[v].data + ap[v].index * EltOf[v],
                              elt |-> EltOf[v], wild |-> ap[v].data = NULL]]
  /\ UNCHANGED <<len, ap, aborted>>

\* p = v; aptr::operator ptr()
ToPtr(p, v) ==
  /\ ~aborted
  /\ IF ap[v].data # NULL /\ ~BOUNDS_CHECK_INDEX(ap[v], 0)
     THEN aborted' = TRUE /\ UNCHANGED pv
     ELSE /\ pv' = [pv EXCEPT ![p] = [addr |-> ap[v].data + ap[v].index * EltOf[v],
                                      elt |-> EltOf[v], wild |-> ap[v].data = NULL]]
          /\ UNCHANGED aborted
  /\ UNCHANGED <<len, ap>>

\* The collector may reclaim a block no aptr starts at and no ptr points into.
Collect(b) ==
  /\ len[b] # 0
  /\ \A v \in AVar : ap[v].data # b
  /\ \A p \in PVar : pv[p].addr \notin Block(b)
  /\ len' = [len EXCEPT ![b] = 0]
  /\ UNCHANGED <<ap, pv, aborted>>

Next ==
  \/ \E v \in AVar :
       \/ \E b \in Bases, n \in 0 .. MaxLen : NewArray(v, b, n)
       \/ AssignNull(v)
       \/ Free(v)
       \/ \E k \in Ints : Advance(v, k) \/ Access(v, k)
       \/ \E u \in AVar : Copy(v, u) \/ Cast(v, u)
       \/ \E u \in AVar, d \in SIZE_T : Plus(v, u, d) \/ Minus(v, u, d)
       \/ \E p \in PVar : ToPtr(p, v)
  \/ \E b \in Bases : Collect(b)

Spec == Init /\ [][Next]_vars

-----------------------------------------------------------------------------
TypeOK ==
  /\ len \in [Bases -> 0 .. MaxLen]
  /\ ap \in [AVar -> Aptr]
  /\ pv \in [PVar -> Ptr]
  /\ aborted \in BOOLEAN

\* Every aptr describes no more than its block holds, through any sequence of
\* arithmetic, casts, frees of its copies and collections.
Described ==
  \A v \in AVar :
    ap[v].data # NULL => len[ap[v].data] # 0 /\ ap[v].size * EltOf[v] <= len[ap[v].data]

\* The strengthening that ArrayPtrProofs needs: a size stays small enough for
\* the next cast also after free(), and a ptr that is not wild names a whole
\* element of one block.
SizeFits == \A v \in AVar : ap[v].size * EltOf[v] <= MaxLen

Pointed ==
  \A p \in PVar :
    \/ pv[p].wild \/ pv[p].elt = 0
    \/ \E b \in Bases : b <= pv[p].addr /\ pv[p].addr + pv[p].elt <= b + len[b]

IInv == TypeOK /\ SizeFits /\ Described /\ Pointed

\* Spatial safety: an access v[i] that passes BOUNDS_CHECK_INDEX on an aptr that
\* has data reads and writes bytes of a live block only, also when index + i
\* wraps (aptr.hpp, operator*, operator->, operator[]).
AccessSafe ==
  \A v \in AVar, i \in LONG :
    ap[v].data # NULL /\ BOUNDS_CHECK_INDEX(ap[v], i)
      => ElementOf(v, ToLong(ap[v].index + i)) \subseteq LiveBytes

\* A ptr converted from an aptr that has data names a whole element of a block
\* that stays alive while the ptr does (aptr.hpp, operator ptr).
SingletonSafe ==
  \A p \in PVar :
    ~pv[p].wild => pv[p].addr .. pv[p].addr + pv[p].elt - 1 \subseteq LiveBytes

\* What spatialCheck does guarantee: for an index that is not negative and a
\* whole number of elements that fits a long, the bytes are inside the block.
SpatialSound ==
  \A v \in AVar, n \in SIZE_T :
    /\ ap[v].data # NULL /\ ap[v].index >= 0
    /\ n % EltOf[v] = 0 /\ n \div EltOf[v] < Half
    /\ spatialCheck(v, n)
    => \A k \in 0 .. n - 1 : ap[v].data + ap[v].index * EltOf[v] + k \in LiveBytes

(***************************************************************************)
(* What comments say of the code, and the code does not do.                *)
(***************************************************************************)

\* "a null aptr always has size == 0" (common.hpp:45-46).
NullHasNoSize == \A v \in AVar : ap[v].data = NULL => ap[v].size = 0

\* "Applies a spatial safety check for functions, such as memcpy"
\* (aptr.hpp:284-286): bytes that pass it are inside the block.
SpatialCheckSafe ==
  \A v \in AVar, n \in SIZE_T :
    ap[v].data # NULL /\ spatialCheck(v, n)
    => \A k \in 0 .. n - 1 : ap[v].data + ap[v].index * EltOf[v] + k \in LiveBytes
=============================================================================
