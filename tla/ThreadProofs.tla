---------------------------- MODULE ThreadProofs ----------------------------
(***************************************************************************)
(* Proofs about ThreadTable, for any number of ids and records, and about  *)
(* StopWorld, which extends it, for any number of collections, with        *)
(* GC_retry_signals = FALSE.                                               *)
(***************************************************************************)
EXTENDS StopWorld, TLAPS, FiniteSetTheorems, WellFoundedInduction

\* A nonempty set of positions has a least one.
LEMMA Least ==
  ASSUME NEW S, S \subseteq Nat, S # {}
  PROVE  \E n \in S : \A m \in S : n <= m
<1> DEFINE R == {ss \in Nat \X Nat : ss[1] < ss[2]}
<1>1. IsWellFoundedOn(R, Nat)
  BY NatLessThanWellFounded DEF OpToRel
<1>2. \E n \in S : \A m \in S : <<m, n>> \notin R
  <2> HIDE DEF R
  <2> QED
    BY <1>1, WFMin
<1>3. PICK n \in S : \A m \in S : <<m, n>> \notin R
  BY <1>2
<1>4. \A m \in S : ~(m < n)
  BY <1>3
<1> QED
  BY <1>4

(***************************************************************************)
(* GC_lookup_thread and the chain.                                         *)
(***************************************************************************)

\* A record of the chain with the id i and none before it is what is found.
LEMMA LookupIs ==
  ASSUME ChainOK, NEW i, NEW k \in 1 .. Len(chain), rid[chain[k]] = i,
         \A j \in 1 .. k - 1 : rid[chain[j]] # i
  PROVE  GC_lookup_thread(i) = chain[k]
<1>0. Len(chain) \in Nat
  BY DEF ChainOK
<1>1. \A m \in 1 .. Len(chain) :
        rid[chain[m]] = i /\ (\A j \in 1 .. m - 1 : rid[chain[j]] # i) => m = k
  BY <1>0
<1>2. QED
  BY <1>0, <1>1 DEF GC_lookup_thread

\* The position of the record that is found.
LEMMA LookupAt ==
  ASSUME ChainOK, NEW i, NEW r \in Known, rid[r] = i
  PROVE  \E k \in 1 .. Len(chain) :
           /\ GC_lookup_thread(i) = chain[k] /\ rid[chain[k]] = i
           /\ \A j \in 1 .. k - 1 : rid[chain[j]] # i
<1>0. Len(chain) \in Nat
  BY DEF ChainOK
<1> DEFINE S == {k \in 1 .. Len(chain) : rid[chain[k]] = i}
<1>1. S # {} /\ S \subseteq Nat
  BY <1>0 DEF Known
<1>2. PICK k \in S : \A m \in S : k <= m
  <2> HIDE DEF S
  <2> QED
    BY <1>1, Least
<1>3. \A j \in 1 .. k - 1 : rid[chain[j]] # i
  BY <1>0, <1>2
<1>4. QED
  BY <1>2, <1>3, LookupIs

\* A thread with a record in the table finds one of its own.
LEMMA LookupFound ==
  ASSUME ChainOK, NEW i, NEW r \in Known, rid[r] = i
  PROVE  GC_lookup_thread(i) \in Known /\ rid[GC_lookup_thread(i)] = i
BY LookupAt DEF Known

LEMMA LookupZero ==
  ASSUME ChainOK, NEW i, \A r \in Known : rid[r] # i
  PROVE  GC_lookup_thread(i) = 0
BY DEF GC_lookup_thread, Known

LEMMA KnownRecord ==
  ASSUME ChainOK
  PROVE  Known \subseteq Record /\ 0 \notin Known
<1>1. \A k \in 1 .. Len(chain) : chain[k] \in Record
  BY DEF ChainOK
<1>2. 0 \notin Record
  BY ThreadAssumption DEF Record
<1>3. QED
  BY <1>1, <1>2 DEF Known

\* What is found is a record of the thread, or nothing.
LEMMA LookupType ==
  ASSUME ChainOK, NEW i
  PROVE  /\ GC_lookup_thread(i) \in Known \cup {0}
         /\ GC_lookup_thread(i) # 0 => rid[GC_lookup_thread(i)] = i
         /\ GC_lookup_thread(i) = 0 <=> \A r \in Known : rid[r] # i
BY LookupFound, LookupZero, KnownRecord

\* The record that is allocated is a free one.
LEMMA FreshFree ==
  ASSUME ThreadAssumption, ChainOK, Record # Known
  PROVE  Fresh \in Record \ Known
<1>1. Record \ Known # {} /\ Record \ Known \subseteq Nat
  <2>1. Record \subseteq Nat
    BY ThreadAssumption DEF Record
  <2>2. QED
    BY <2>1, KnownRecord
<1>2. PICK r \in Record \ Known : \A q \in Record \ Known : r <= q
  BY <1>1, Least
<1>3. \A q \in 1 .. r - 1 : q \in Known
  BY <1>2, ThreadAssumption DEF Record
<1>4. QED
  BY <1>2, <1>3 DEF Fresh

\* A new record at the head of the chain is found first by its thread, and
\* the other threads find what they found.
LEMMA Prepend ==
  ASSUME ChainOK, NEW n \in Record \ Known, NEW i, rid \in [Record -> Id],
         chain' = <<n>> \o chain, rid' = [rid EXCEPT ![n] = i]
  PROVE  /\ ChainOK' /\ Known' = Known \cup {n}
         /\ \A r \in Known : rid'[r] = rid[r]
         /\ rid'[n] = i
         /\ GC_lookup_thread(i)' = n
         /\ \A j : j # i => GC_lookup_thread(j)' = GC_lookup_thread(j)
<1>0. Len(chain) \in Nat /\ \A k \in 1 .. Len(chain) : chain[k] \in Record
  BY DEF ChainOK
<1>1. /\ chain' \in Seq(Record) /\ Len(chain') = Len(chain) + 1
      /\ chain'[1] = n
      /\ \A k \in 1 .. Len(chain) : chain'[k + 1] = chain[k]
  BY <1>0 DEF ChainOK
<1>2. ChainOK'
  BY <1>1 DEF ChainOK
<1>3. Known' = Known \cup {n}
  <2>1. \A k \in 1 .. Len(chain') : k = 1 \/ k - 1 \in 1 .. Len(chain)
    BY <1>0, <1>1
  <2>2. Known' \subseteq Known \cup {n}
    <3>1. ASSUME NEW k \in 1 .. Len(chain') PROVE chain'[k] \in Known \cup {n}
      <4>1. CASE k = 1
        BY <1>1, <4>1
      <4>2. CASE k # 1
        <5>1. PICK m \in 1 .. Len(chain) : m + 1 = k
          BY <1>0, <2>1, <3>1, <4>2
        <5>2. QED
          BY <1>1, <5>1 DEF Known
      <4>3. QED
        BY <4>1, <4>2
    <3>2. QED
      BY <3>1 DEF Known
  <2>3. Known \cup {n} \subseteq Known'
    BY <1>0, <1>1 DEF Known
  <2>4. QED
    BY <2>2, <2>3
<1>4. (\A r \in Known : rid'[r] = rid[r]) /\ rid'[n] = i
  BY KnownRecord
<1>5. GC_lookup_thread(i)' = n
  <2>1. 1 \in 1 .. Len(chain') /\ rid'[chain'[1]] = i /\ \A j \in 1 .. 1 - 1 : rid'[chain'[j]] # i
    BY <1>0, <1>1, <1>4
  <2>2. \A m \in 1 .. Len(chain') :
          rid'[chain'[m]] = i /\ (\A j \in 1 .. m - 1 : rid'[chain'[j]] # i) => m = 1
    BY <1>0, <1>1, <2>1
  <2>3. QED
    BY <1>1, <2>1, <2>2 DEF GC_lookup_thread
<1>6. ASSUME NEW j, j # i
      PROVE  GC_lookup_thread(j)' = GC_lookup_thread(j)
  <2>1. CASE \E r \in Known : rid[r] = j
    <3>1. PICK k \in 1 .. Len(chain) :
             /\ GC_lookup_thread(j) = chain[k] /\ rid[chain[k]] = j
             /\ \A m \in 1 .. k - 1 : rid[chain[m]] # j
      BY <2>1, LookupAt
    <3>2. /\ k + 1 \in 1 .. Len(chain') /\ chain'[k + 1] = chain[k] /\ rid'[chain'[k + 1]] = j
      BY <1>0, <1>1, <1>4, <3>1 DEF Known
    <3>3. \A m \in 1 .. (k + 1) - 1 : rid'[chain'[m]] # j
      <4>1. TAKE m \in 1 .. (k + 1) - 1
      <4>2. CASE m = 1
        BY <4>2, <1>1, <1>4, <1>6
      <4>3. CASE m # 1
        <5>1. m - 1 \in 1 .. k - 1 /\ m - 1 \in 1 .. Len(chain) /\ (m - 1) + 1 = m
          BY <4>3, <1>0
        <5>2. chain'[m] = chain[m - 1] /\ rid[chain[m - 1]] # j
          BY <5>1, <1>1, <3>1
        <5>3. QED
          BY <5>1, <5>2, <1>4 DEF Known
      <4>4. QED
        BY <4>2, <4>3
    <3>4. \A m \in 1 .. Len(chain') :
            rid'[chain'[m]] = j /\ (\A q \in 1 .. m - 1 : rid'[chain'[q]] # j) => m = k + 1
      <4>1. TAKE m \in 1 .. Len(chain')
      <4>2. HAVE rid'[chain'[m]] = j /\ \A q \in 1 .. m - 1 : rid'[chain'[q]] # j
      <4>3. m \in Int /\ k + 1 \in Int /\ m >= 1 /\ k + 1 >= 1
        BY <1>0, <1>1
      <4>4. ~(m < k + 1)
        BY <3>3, <4>2, <4>3
      <4>5. ~(k + 1 < m)
        <5>1. k + 1 < m => k + 1 \in 1 .. m - 1
          BY <4>3
        <5>2. QED
          BY <3>2, <4>2, <5>1
      <4>6. QED
        BY <4>3, <4>4, <4>5
    <3>5. GC_lookup_thread(j)' = chain'[k + 1]
      BY <3>2, <3>3, <3>4 DEF GC_lookup_thread
    <3>6. QED
      BY <3>1, <3>2, <3>5
  <2>2. CASE \A r \in Known : rid[r] # j
    <3>1. \A k \in 1 .. Len(chain') : rid'[chain'[k]] # j
      BY <1>3, <1>4, <1>6, <2>2 DEF Known
    <3>2. QED
      BY <3>1, <2>2, LookupZero DEF GC_lookup_thread
  <2>3. QED
    BY <2>1, <2>2
<1>7. QED
  BY <1>2, <1>3, <1>4, <1>5, <1>6

\* A new record does not repeat one of the chain.
LEMMA ChainInjective ==
  ASSUME ChainOK, NEW n \in Record \ Known, chain' = <<n>> \o chain,
         \A k, l \in 1 .. Len(chain) : k # l => chain[k] # chain[l]
  PROVE  \A k, l \in 1 .. Len(chain') : k # l => chain'[k] # chain'[l]
<1>0. Len(chain) \in Nat /\ \A k \in 1 .. Len(chain) : chain[k] \in Record /\ chain[k] # n
  BY DEF ChainOK, Known
<1>1. /\ Len(chain') = Len(chain) + 1 /\ chain'[1] = n
      /\ \A k \in 1 .. Len(chain) : chain'[k + 1] = chain[k]
  BY <1>0 DEF ChainOK
<1>2. \A k \in 1 .. Len(chain') : k # 1 => k - 1 \in 1 .. Len(chain) /\ chain'[k] = chain[k - 1]
  <2>1. TAKE k \in 1 .. Len(chain')
  <2>2. HAVE k # 1
  <2>3. k - 1 \in 1 .. Len(chain) /\ (k - 1) + 1 = k
    BY <1>0, <1>1, <2>2
  <2>4. QED
    BY <1>1, <2>3
<1>3. QED
  BY <1>0, <1>1, <1>2

\* Unlinking a record leaves the others in their order: a thread that did not
\* find it finds what it found.
LEMMA Unlink ==
  ASSUME ChainOK, NEW r \in Known, rid \in [Record -> Id], Main \in Id,
         \A k, l \in 1 .. Len(chain) : k # l => chain[k] # chain[l],
         chain' = Unlinked(r), rid' = [rid EXCEPT ![r] = Main]
  PROVE  /\ ChainOK' /\ Known' = Known \ {r}
         /\ \A k, l \in 1 .. Len(chain') : k # l => chain'[k] # chain'[l]
         /\ \A q \in Known \ {r} : rid'[q] = rid[q]
         /\ \A j : GC_lookup_thread(j) # r => GC_lookup_thread(j)' = GC_lookup_thread(j)
<1> DEFINE n == Len(chain)
           new(k, j) == IF j < k THEN chain[j] ELSE chain[j + 1]
<1>0. n \in Nat /\ \A k \in 1 .. n : chain[k] \in Record
  BY DEF ChainOK
<1>1. PICK k \in 1 .. n : chain[k] = r
  BY DEF Known
<1>2. chain' = [j \in 1 .. n - 1 |-> new(k, j)]
  <2>1. k = CHOOSE m \in 1 .. n : chain[m] = r
    BY <1>1
  <2>2. QED
    BY <2>1 DEF Unlinked
<1>3. n - 1 \in Nat /\ \A j \in 1 .. n - 1 : j \in 1 .. n /\ j + 1 \in 1 .. n /\ new(k, j) \in Record
  BY <1>0, <1>1
<1>4. chain' \in Seq(Record) /\ Len(chain') = n - 1
  BY <1>2, <1>3
<1>5. \A j \in 1 .. n - 1 : chain'[j] = new(k, j)
  BY <1>2
<1>6. \A j, l \in 1 .. n - 1 : j # l => chain'[j] # chain'[l]
  BY <1>0, <1>3, <1>5
<1>7. Known' = Known \ {r}
  <2>1. ASSUME NEW q \in Known'  PROVE  q \in Known \ {r}
    <3>1. PICK j \in 1 .. n - 1 : q = new(k, j)
      BY <1>4, <1>5 DEF Known
    <3>2. \E m \in 1 .. n : m # k /\ q = chain[m]
      BY <1>0, <1>1, <1>3, <3>1
    <3>3. QED
      BY <1>1, <3>2 DEF Known
  <2>2. ASSUME NEW q \in Known \ {r}  PROVE  q \in Known'
    <3>1. PICK m \in 1 .. n : q = chain[m] /\ m # k
      BY <1>1 DEF Known
    <3>2. CASE m < k
      BY <1>0, <1>1, <1>4, <1>5, <3>1, <3>2 DEF Known
    <3>3. CASE m > k
      <4>1. m - 1 \in 1 .. n - 1 /\ ~(m - 1 < k) /\ (m - 1) + 1 = m
        BY <1>0, <1>1, <3>3
      <4>2. chain'[m - 1] = q
        BY <4>1, <1>5, <3>1
      <4>3. QED
        BY <1>4, <4>1, <4>2 DEF Known
    <3>4. QED
      BY <3>1, <3>2, <3>3
  <2>3. QED
    BY <2>1, <2>2
<1>8. \A q \in Known \ {r} : rid'[q] = rid[q]
  <2>1. Known \subseteq Record
    BY <1>0 DEF Known
  <2>2. QED
    BY <2>1
<1>9. ASSUME NEW j, GC_lookup_thread(j) # r
      PROVE  GC_lookup_thread(j)' = GC_lookup_thread(j)
  <2>1. CASE \E q \in Known : rid[q] = j
    <3>1. PICK m \in 1 .. n :
            /\ GC_lookup_thread(j) = chain[m] /\ rid[chain[m]] = j
            /\ \A l \in 1 .. m - 1 : rid[chain[l]] # j
      BY <2>1, LookupAt
    <3> DEFINE p == IF m < k THEN m ELSE m - 1
    <3>2. m # k /\ chain[m] \in Known \ {r}
      BY <1>1, <1>9, <3>1 DEF Known
    <3>3. p \in 1 .. n - 1 /\ chain'[p] = chain[m] /\ rid'[chain'[p]] = j
      <4>1. p \in 1 .. n - 1 /\ new(k, p) = chain[m]
        BY <1>0, <1>1, <3>2
      <4>2. QED
        BY <4>1, <1>5, <1>8, <3>1, <3>2
    <3>4. \A l \in 1 .. p - 1 : rid'[chain'[l]] # j
      <4>1. TAKE l \in 1 .. p - 1
      <4>2. \E h \in 1 .. m - 1 : h \in 1 .. n /\ h # k /\ chain'[l] = chain[h]
        <5>1. l \in 1 .. n - 1 /\ chain'[l] = new(k, l)
          BY <1>0, <1>5, <3>3
        <5>2. CASE l < k
          BY <5>1, <5>2, <1>0, <1>1
        <5>3. CASE ~(l < k)
          BY <5>1, <5>3, <1>0, <1>1, <3>2
        <5>4. QED
          BY <5>2, <5>3
      <4>3. QED
        BY <4>2, <1>1, <1>8, <3>1 DEF Known
    <3>5. \A l \in 1 .. Len(chain') :
            rid'[chain'[l]] = j /\ (\A h \in 1 .. l - 1 : rid'[chain'[h]] # j) => l = p
      <4> HIDE DEF p
      <4>1. TAKE l \in 1 .. Len(chain')
      <4>2. HAVE rid'[chain'[l]] = j /\ (\A h \in 1 .. l - 1 : rid'[chain'[h]] # j)
      <4>3. ~(p \in 1 .. l - 1) /\ ~(l \in 1 .. p - 1)
        BY <3>3, <3>4, <4>2
      <4>4. l \in Nat /\ p \in Nat /\ l >= 1 /\ p >= 1
        BY <1>0, <1>4, <3>3
      <4> QED
        BY <4>3, <4>4
    <3>6. GC_lookup_thread(j)' = chain'[p]
      <4> HIDE DEF p
      <4> QED
        BY <1>4, <3>3, <3>4, <3>5 DEF GC_lookup_thread
    <3>7. QED
      BY <3>1, <3>3, <3>6
  <2>2. CASE \A q \in Known : rid[q] # j
    <3>1. \A l \in 1 .. Len(chain') : rid'[chain'[l]] # j
      BY <1>7, <1>8, <2>2 DEF Known
    <3>2. QED
      BY <3>1, <2>2, LookupZero DEF GC_lookup_thread
  <2>3. QED
    BY <2>1, <2>2
<1>10. QED
  BY <1>4, <1>6, <1>7, <1>8, <1>9 DEF ChainOK

\* A step that leaves the chain and the ids alone.
LEMMA SameLookup ==
  ASSUME UNCHANGED <<chain, rid>>
  PROVE  /\ Known' = Known /\ ChainOK' = ChainOK
         /\ \A i : GC_lookup_thread(i)' = GC_lookup_thread(i)
BY DEF Known, ChainOK, GC_lookup_thread

-----------------------------------------------------------------------------
(***************************************************************************)
(* The invariant, action by action.                                        *)
(***************************************************************************)

\* A step about other fields: the table, the calls in progress and the flags
\* FINISHED and DETACHED are as before.
LEMMA OtherFields ==
  ASSUME TableInv, TableTypeOK',
         UNCHANGED <<os, released, mine, call, chain, rid>>,
         \A r \in Record : \A f \in {"FINISHED", "DETACHED"} : f \in flags'[r] <=> f \in flags[r]
  PROVE  TableInv'
<1> USE DEF TableInv
<1>1. Known' = Known /\ ChainOK' /\ Known \subseteq Record
      /\ \A i : GC_lookup_thread(i)' = GC_lookup_thread(i)
  BY SameLookup, KnownRecord
<1>2. \A r \in Known : Finished(r)' = Finished(r)
  BY <1>1 DEF Finished
<1>3. \A i : Registered(i)' = Registered(i) /\ Present(i)' = Present(i)
  BY DEF Registered, Present
<1>4. \A c : Claims(c)' = Claims(c)
  BY DEF Claims
<1>5. ReleasedOK'
  BY DEF ReleasedOK
<1>6. FirstIsLive'
  BY <1>1, <1>2, <1>3 DEF FirstIsLive
<1>7. OwnRecord'
  BY <1>1, <1>2, <1>3, LookupType DEF OwnRecord
<1>8. NoRecordLeak'
  BY <1>1, <1>2 DEF NoRecordLeak
<1>9. ClaimsOK'
  BY <1>1, <1>2, <1>3, <1>4 DEF ClaimsOK
<1>10. UnclaimedOK'
  BY <1>1, <1>3, <1>4 DEF UnclaimedOK
<1>11. DetachedOK'
  BY <1>1, <1>2, <1>4 DEF DetachedOK
<1>12. QED
  BY <1>1, <1>5, <1>6, <1>7, <1>8, <1>9, <1>10, <1>11

\* A new thread has no live record yet, and no call is about it.
LEMMA CreateStep ==
  ASSUME TableInv, NEW c \in Id, NEW i \in Id, NEW det \in BOOLEAN, pthread_create(c, i, det)
  PROVE  TableInv'
<1> USE DEF TableInv
<1>0. /\ os' = [os EXCEPT ![i] = "created"] /\ os[i] = "none"
      /\ released' = IF det THEN released \cup {i} ELSE released \ {i}
      /\ call' = [call EXCEPT ![c] = [op |-> "create", who |-> i, rec |-> 0, done |-> FALSE]]
      /\ call[c].op = "none"
      /\ UNCHANGED <<mine, chain, rid, flags, blocked, sp, sect, dont_gc, lock>>
  BY DEF pthread_create, Idle
<1>1. Known' = Known /\ ChainOK' /\ Known \subseteq Record
      /\ \A j : GC_lookup_thread(j)' = GC_lookup_thread(j)
  BY <1>0, SameLookup, KnownRecord
<1>2. \A r : Finished(r)' = Finished(r)
  BY <1>0 DEF Finished
<1>3. \A j \in Id : os'[j] = IF j = i THEN "created" ELSE os[j]
  BY <1>0 DEF TableTypeOK
<1>4. \A j \in Id : Registered(j)' = Registered(j) /\ Present(j)' = Present(j)
                    /\ (Present(j) => j # i)
  BY <1>0, <1>3 DEF Registered, Present
<1>5. \A d \in Id : /\ Claims(d)' <=> Claims(d)
                    /\ Claims(d) => d # c /\ call'[d] = call[d]
  BY <1>0 DEF Claims, TableTypeOK
<1>6. \A r \in Known : rid[r] = i => Finished(r)
  BY <1>0 DEF FirstIsLive, Registered
<1>7. \A r \in Known : rid[r] \in Id
  BY <1>1 DEF TableTypeOK
<1>8. \A j \in Id : j # i => (j \in released' <=> j \in released)
  BY <1>0
<1>9. TableTypeOK'
  BY <1>0, <1>1, ThreadAssumption DEF TableTypeOK, OsState, Call
<1>10. ReleasedOK'
  BY <1>0, <1>3, <1>8, ThreadAssumption DEF ReleasedOK
<1>11. FirstIsLive'
  BY <1>0, <1>1, <1>2, <1>4, <1>7 DEF FirstIsLive
<1>12. OwnRecord'
  BY <1>0, <1>1, <1>2, <1>3, <1>4 DEF OwnRecord
<1>13. NoRecordLeak'
  <2>1. SUFFICES ASSUME NEW r \in Known, Finished(r)
        PROVE \/ GC_lookup_thread(rid[r]) = r /\ os'[rid[r]] \in {"ended", "zombie"} /\ rid[r] \notin released'
              \/ \E d \in Id : call'[d].op \in {"join", "detach"} /\ call'[d].rec = r
    BY <1>0, <1>1, <1>2 DEF NoRecordLeak
  <2>2. CASE \E d \in Id : call[d].op \in {"join", "detach"} /\ call[d].rec = r
    BY <2>2, <1>5 DEF Claims
  <2>3. CASE GC_lookup_thread(rid[r]) = r /\ os[rid[r]] \in {"ended", "zombie"} /\ rid[r] \notin released
    BY <2>3, <1>0, <1>3, <1>7, <1>8
  <2>4. QED
    BY <2>1, <2>2, <2>3 DEF NoRecordLeak
<1>14. ClaimsOK'
  <2>1. ASSUME NEW d \in Id, Claims(d)
        PROVE  /\ call[d].rec \in Known
               /\ ~call[d].done =>
                    /\ call[d].who \in Id \ (released' \cup {Main})
                    /\ Present(call[d].who)' /\ "reap" \in Ops[call[d].who]
                    /\ call[d].rec = GC_lookup_thread(call[d].who)
               /\ call[d].done =>
                    /\ rid[call[d].rec] # Main /\ "reap" \in Ops[rid[call[d].rec]]
                    /\ \/ Finished(call[d].rec)
                       \/ /\ call[d].op = "detach" /\ rid[call[d].rec] \in released'
                          /\ "DETACHED" \notin flags[call[d].rec]
    <3>1. call[d].rec \in Known /\ rid[call[d].rec] \in Id
      BY <2>1, <1>7 DEF ClaimsOK
    <3>2. CASE call[d].done
      BY <2>1, <3>1, <3>2, <1>6, <1>8 DEF ClaimsOK
    <3>3. CASE ~call[d].done
      <4>1. call[d].who \in Id /\ Present(call[d].who) /\ call[d].who # i
        BY <2>1, <3>3, <1>4 DEF ClaimsOK
      <4>2. QED
        BY <2>1, <3>1, <3>3, <4>1, <1>4, <1>5, <1>8 DEF ClaimsOK
    <3>4. QED
      BY <3>2, <3>3
  <2>2. QED
    BY <2>1, <1>0, <1>1, <1>2, <1>5 DEF ClaimsOK
<1>15. UnclaimedOK'
  BY <1>1, <1>4, <1>5, <1>8 DEF UnclaimedOK
<1>16. DetachedOK'
  BY <1>0, <1>1, <1>2, <1>5, <1>6, <1>7, <1>8 DEF DetachedOK
<1>17. QED
  BY <1>1, <1>9, <1>10, <1>11, <1>12, <1>13, <1>14, <1>15, <1>16

\* A new record is the first of its thread and live; nobody owns it.
LEMMA PrepareStep ==
  ASSUME ThreadAssumption, TableInv, NEW i \in Id, GC_start_rtn_prepare_thread(i)
  PROVE  TableInv'
<1> USE DEF TableInv
<1> PICK n : n = Fresh
  OBVIOUS
<1> DEFINE fl == IF i \in released THEN {"DETACHED"} ELSE {}
<1>0. /\ os' = [os EXCEPT ![i] = "active"] /\ os[i] = "created"
      /\ chain' = <<n>> \o chain /\ rid' = [rid EXCEPT ![n] = i]
      /\ flags' = [flags EXCEPT ![n] = fl]
      /\ mine' = [mine EXCEPT ![i] = n]
      /\ call' = [c \in Id |-> IF call[c].op = "create" /\ call[c].who = i
                                 THEN [call[c] EXCEPT !.done = TRUE] ELSE call[c]]
      /\ UNCHANGED <<blocked, sp, released, sect, dont_gc>> /\ lock' = NoThread
      /\ n \in Record \ Known
  BY FreshFree DEF GC_start_rtn_prepare_thread, GC_register_my_thread_inner
<1>1. /\ ChainOK' /\ Known' = Known \cup {n} /\ Known \subseteq Record /\ 0 \notin Known /\ n # 0
      /\ \A r \in Known : rid'[r] = rid[r] /\ flags'[r] = flags[r] /\ r # n
      /\ rid'[n] = i /\ flags'[n] = fl /\ GC_lookup_thread(i)' = n
      /\ \A j : j # i => GC_lookup_thread(j)' = GC_lookup_thread(j)
  <2>1. /\ ChainOK' /\ Known' = Known \cup {n}
        /\ \A r \in Known : rid'[r] = rid[r]
        /\ rid'[n] = i
        /\ GC_lookup_thread(i)' = n
        /\ \A j : j # i => GC_lookup_thread(j)' = GC_lookup_thread(j)
    BY <1>0, Prepend DEF TableTypeOK
  <2>2. Known \subseteq Record /\ 0 \notin Known /\ n # 0
    BY <1>0, KnownRecord, ThreadAssumption DEF Record
  <2>3. QED
    BY <1>0, <2>1, <2>2 DEF TableTypeOK
<1>2. \A r \in Known : Finished(r)' = Finished(r)
  BY <1>1 DEF Finished
<1>3. ~Finished(n)'
  BY <1>1 DEF Finished
<1>4. \A j \in Id : os'[j] = IF j = i THEN "active" ELSE os[j]
  BY <1>0 DEF TableTypeOK
<1>5. /\ \A j \in Id \ {i} : Registered(j)' = Registered(j) /\ Present(j)' = Present(j)
      /\ Registered(i)' /\ Present(i)' /\ ~Registered(i) /\ ~Present(i)
  BY <1>0, <1>4 DEF Registered, Present
<1>6. \A d \in Id : /\ Claims(d)' <=> Claims(d)
                    /\ Claims(d) => call'[d] = call[d]
  BY <1>0 DEF Claims, TableTypeOK, Call
<1>7. \A r \in Known : rid[r] \in Id /\ (rid[r] = i => Finished(r))
  BY <1>1, <1>5 DEF TableTypeOK, FirstIsLive
<1>8. i # Main
  BY <1>0 DEF ReleasedOK
<1>9. TableTypeOK'
  <2>1. \A k, l \in 1 .. Len(chain') : k # l => chain'[k] # chain'[l]
    BY <1>0, ChainInjective DEF TableTypeOK
  <2>2. call' \in [Id -> Call]
    <3>1. \A r \in Call : [r EXCEPT !.done = TRUE] \in Call
      BY DEF Call
    <3>2. QED
      BY <1>0, <3>1 DEF TableTypeOK
  <2>3. mine' \in [Id -> 0 .. MaxRecord] /\ Known' \subseteq Record
    BY <1>0, <1>1, ThreadAssumption DEF TableTypeOK, Record
  <2>4. QED
    BY <1>0, <2>1, <2>2, <2>3 DEF TableTypeOK, OsState, Flag
<1>10. ReleasedOK'
  BY <1>0, <1>4, <1>8 DEF ReleasedOK
<1>11. FirstIsLive'
  BY <1>1, <1>2, <1>5, <1>7 DEF FirstIsLive
<1>12. OwnRecord'
  BY <1>0, <1>1, <1>2, <1>3, <1>4, <1>5, LookupType DEF OwnRecord, TableTypeOK
<1>13. NoRecordLeak'
  BY <1>0, <1>1, <1>2, <1>3, <1>4, <1>6, <1>7 DEF NoRecordLeak, Claims
<1>14. ClaimsOK'
  <2>1. ASSUME NEW d \in Id, Claims(d)
        PROVE  /\ call[d].rec \in Known'
               /\ ~call[d].done =>
                    /\ call[d].who \in Id \ (released \cup {Main, i})
                    /\ Present(call[d].who) /\ "reap" \in Ops[call[d].who]
                    /\ call[d].rec = GC_lookup_thread(call[d].who)
               /\ call[d].done =>
                    /\ rid'[call[d].rec] # Main /\ "reap" \in Ops[rid'[call[d].rec]]
                    /\ \/ "FINISHED" \in flags'[call[d].rec]
                       \/ /\ call[d].op = "detach" /\ rid'[call[d].rec] \in released
                          /\ "DETACHED" \notin flags'[call[d].rec]
    BY <2>1, <1>1, <1>5 DEF ClaimsOK, Finished
  <2>2. \A d \in Id : Claims(d) /\ ~call[d].done =>
          Present(call[d].who)' /\ GC_lookup_thread(call[d].who)' = GC_lookup_thread(call[d].who)
    BY <2>1, <1>1, <1>5, <1>6
  <2>3. \A c, d \in Id : Claims(c)' /\ Claims(d)' /\ c # d => call'[c].rec # call'[d].rec
    BY <1>6 DEF ClaimsOK
  <2>4. \A d \in Id : Claims(d) => call'[d] = call[d] /\ released' = released
    BY <1>0, <1>6
  <2>5. \A d \in Id : Claims(d)' <=> Claims(d)
    BY <1>6
  <2>6. QED
    BY <2>1, <2>2, <2>3, <2>4, <2>5 DEF ClaimsOK, Finished
<1>15. UnclaimedOK'
  <2>1. SUFFICES ASSUME NEW j \in Id \ released, Present(j)'
        PROVE  (GC_lookup_thread(j) # 0)'
               /\ \A c \in Id : Claims(c) /\ call[c].done => call[c].rec # GC_lookup_thread(j)'
    BY <1>0, <1>6 DEF UnclaimedOK
  <2>2. CASE j = i
    BY <2>2, <1>0, <1>1 DEF ClaimsOK
  <2>3. CASE j # i
    BY <2>1, <2>3, <1>1, <1>5 DEF UnclaimedOK
  <2>4. QED
    BY <2>2, <2>3
<1>16. DetachedOK'
  <2>1. \A r \in Known : \A c \in Id :
          Claims(c) /\ call[c].done /\ call[c].rec = r => (Claims(c) /\ call[c].done /\ call[c].rec = r)'
    BY <1>6
  <2>2. /\ "DETACHED" \in flags'[n] => ~Finished(n)' /\ rid'[n] \in released'
        /\ "DETACHED" \notin flags'[n] => rid'[n] \notin released'
    BY <1>0, <1>1, <1>3
  <2>3. QED
    BY <2>1, <2>2, <1>0, <1>1, <1>2 DEF DetachedOK
<1>17. QED
  BY <1>1, <1>9, <1>10, <1>11, <1>12, <1>13, <1>14, <1>15, <1>16

\* pthread_create returns: the call owned no record.
LEMMA CreateReturnsStep ==
  ASSUME TableInv, NEW c \in Id, CreateReturns(c)
  PROVE  TableInv'
<1> USE DEF TableInv
<1>0. /\ call' = [call EXCEPT ![c] = NoCall] /\ call[c].op = "create"
      /\ UNCHANGED <<os, released, mine, chain, rid, flags, blocked, sp, sect, dont_gc, lock>>
  BY DEF CreateReturns
<1>1. Known' = Known /\ ChainOK' /\ \A i : GC_lookup_thread(i)' = GC_lookup_thread(i)
  BY <1>0, SameLookup
<1>2. \A r : Finished(r)' = Finished(r)
  BY <1>0 DEF Finished
<1>3. \A i : Registered(i)' = Registered(i) /\ Present(i)' = Present(i)
  BY <1>0 DEF Registered, Present
<1>4. \A d \in Id : /\ Claims(d)' <=> Claims(d)
                    /\ Claims(d) => call'[d] = call[d]
  BY <1>0 DEF Claims, TableTypeOK, NoCall
<1>5. TableTypeOK'
  BY <1>0, <1>1, ThreadAssumption DEF TableTypeOK, Call, NoCall
<1>6. ReleasedOK' /\ FirstIsLive' /\ OwnRecord'
  BY <1>0, <1>1, <1>2, <1>3 DEF ReleasedOK, FirstIsLive, OwnRecord
<1>7. NoRecordLeak'
  BY <1>0, <1>1, <1>2, <1>4 DEF NoRecordLeak, Claims
<1>8. ClaimsOK'
  BY <1>0, <1>1, <1>2, <1>3, <1>4 DEF ClaimsOK
<1>9. UnclaimedOK' /\ DetachedOK'
  BY <1>0, <1>1, <1>2, <1>3, <1>4 DEF UnclaimedOK, DetachedOK
<1>10. QED
  BY <1>1, <1>5, <1>6, <1>7, <1>8, <1>9

\* A thread unregisters itself: a detached one frees its record, any other
\* leaves it to whoever joins or detaches it.
LEMMA UnregisterStep ==
  ASSUME ThreadAssumption, TableInv, NEW i \in Id, i # Main, Registered(i),
         GC_unregister_my_thread_inner(GC_lookup_thread(i)),
         os' = [os EXCEPT ![i] = "ended"],
         mine' \in [Id -> 0 .. MaxRecord], \A j \in Id : j # i => mine'[j] = mine[j],
         UNCHANGED <<released, call, blocked, sect, lock>>
  PROVE  TableInv'
<1> USE DEF TableInv
<1> PICK r : r = GC_lookup_thread(i)
  OBVIOUS
<1>1. /\ r \in Known /\ Known \subseteq Record /\ 0 \notin Known
      /\ rid[r] = i /\ ~Finished(r)
      /\ \A q \in Known : rid[q] = i /\ ~Finished(q) => q = r
  BY LookupType, KnownRecord DEF OwnRecord, FirstIsLive
<1>2. \A j \in Id : os'[j] = IF j = i THEN "ended" ELSE os[j]
  BY DEF TableTypeOK
<1>3. /\ \A j \in Id \ {i} : Registered(j)' = Registered(j) /\ (os'[j] = os[j])
      /\ ~Registered(i)' /\ os'[i] = "ended"
      /\ \A j \in Id : Present(j)' = Present(j)
  BY <1>2 DEF Registered, Present
<1>4. \A d \in Id : Claims(d)' = Claims(d) /\ call'[d] = call[d]
  BY DEF Claims
<1>5. dont_gc' \in Int
  BY DEF GC_unregister_my_thread_inner, TableTypeOK
<1>6. ReleasedOK'
  BY <1>2, <1>3 DEF ReleasedOK
<1>7. \A q \in Known : rid[q] \in Id
  BY <1>1 DEF TableTypeOK
<1>8. \A j \in Id : GC_lookup_thread(j) # 0 => rid[GC_lookup_thread(j)] = j
  BY LookupType
<1>9. CASE "DETACHED" \in flags[r]
  <2>0. /\ chain' = Unlinked(r) /\ rid' = [rid EXCEPT ![r] = Main]
        /\ flags' = [flags EXCEPT ![r] = {}] /\ sp' = [sp EXCEPT ![r] = "base"]
    BY <1>1, <1>9 DEF GC_unregister_my_thread_inner, GC_delete_gc_thread
  <2>1. /\ ChainOK' /\ Known' = Known \ {r}
        /\ \A k, l \in 1 .. Len(chain') : k # l => chain'[k] # chain'[l]
        /\ \A q \in Known \ {r} : rid'[q] = rid[q]
        /\ \A j : GC_lookup_thread(j) # r => GC_lookup_thread(j)' = GC_lookup_thread(j)
    BY <2>0, <1>1, Unlink, ThreadAssumption DEF TableTypeOK
  <2>2. \A q \in Known \ {r} : flags'[q] = flags[q] /\ Finished(q)' = Finished(q)
    BY <2>0, <1>1 DEF Finished, TableTypeOK
  <2>3. \A j \in Id \ {i} : GC_lookup_thread(j)' = GC_lookup_thread(j)
    BY <2>1, <1>1, <1>8
  <2>4. i \in released
    BY <1>1, <1>9 DEF DetachedOK
  <2>5. \A d \in Id : Claims(d) => call[d].rec # r /\ (~call[d].done => call[d].who # i)
    BY <1>1, <1>9, <2>4, <1>8 DEF ClaimsOK
  <2>6. TableTypeOK'
    <3>1. Known' \subseteq Record
      BY <2>1, <1>1
    <3>2. rid' \in [Record -> Id] /\ flags' \in [Record -> SUBSET Flag] /\ sp' \in [Record -> Saved]
      BY <2>0, ThreadAssumption DEF TableTypeOK, Saved
    <3>3. QED
      BY <2>1, <3>1, <3>2, <1>5 DEF TableTypeOK, OsState
  <2>7. FirstIsLive'
    BY <2>1, <2>2, <2>3, <1>1, <1>3, <1>7 DEF FirstIsLive
  <2>8. OwnRecord'
    <3>1. ASSUME NEW j \in Id, j # i
          PROVE  /\ os'[j] = "active" => GC_lookup_thread(j)' = mine'[j]
                 /\ Registered(j)' => GC_lookup_thread(j)' # 0 /\ ~("FINISHED" \in flags'[GC_lookup_thread(j)])
      BY <3>1, <2>2, <2>3, <1>1, <1>3, <1>8, LookupType DEF OwnRecord, Finished
    <3>2. QED
      BY <3>1, <2>3, <1>3 DEF OwnRecord, Finished
  <2>9. NoRecordLeak'
    BY <2>1, <2>2, <2>3, <1>2, <1>4, <1>7 DEF NoRecordLeak, OwnRecord, Registered
  <2>10. ClaimsOK'
    BY <2>1, <2>2, <2>3, <2>5, <1>3, <1>4 DEF ClaimsOK
  <2>11. UnclaimedOK'
    BY <2>3, <2>4, <1>3, <1>4 DEF UnclaimedOK
  <2>12. DetachedOK'
    BY <2>1, <2>2, <1>4 DEF DetachedOK
  <2>13. QED
    BY <1>6, <2>1, <2>6, <2>7, <2>8, <2>9, <2>10, <2>11, <2>12
<1>10. CASE "DETACHED" \notin flags[r]
  <2>0. flags' = [flags EXCEPT ![r] = @ \cup {"FINISHED"}] /\ UNCHANGED <<chain, rid, sp>>
    BY <1>10 DEF GC_unregister_my_thread_inner
  <2>1. Known' = Known /\ ChainOK' /\ \A j : GC_lookup_thread(j)' = GC_lookup_thread(j)
    BY <2>0, SameLookup
  <2>2. /\ \A q \in Known \ {r} : flags'[q] = flags[q] /\ Finished(q)' = Finished(q)
        /\ "FINISHED" \in flags'[r] /\ "DETACHED" \notin flags'[r]
    BY <2>0, <1>1, <1>10 DEF Finished, TableTypeOK
  <2>3. i \in released => \E c \in Id : Claims(c) /\ call[c].done /\ call[c].rec = r
    BY <1>1, <1>10 DEF DetachedOK
  <2>4. TableTypeOK'
    BY <2>0, <2>1, <1>5 DEF TableTypeOK, OsState, Flag
  <2>5. FirstIsLive'
    BY <2>0, <2>1, <2>2, <1>1, <1>3, <1>7 DEF FirstIsLive, Finished
  <2>6. OwnRecord'
    <3>1. ASSUME NEW j \in Id, j # i
          PROVE  /\ os'[j] = "active" => GC_lookup_thread(j) = mine'[j]
                 /\ Registered(j)' => GC_lookup_thread(j) # 0 /\ ~("FINISHED" \in flags'[GC_lookup_thread(j)])
      BY <3>1, <2>2, <1>1, <1>3, <1>8, LookupType DEF OwnRecord, Finished
    <3>2. QED
      BY <3>1, <2>1, <1>3 DEF OwnRecord, Finished
  <2>7. NoRecordLeak'
    BY <2>0, <2>1, <2>2, <2>3, <1>1, <1>2, <1>4, <1>7 DEF NoRecordLeak, Claims
  <2>8. ClaimsOK'
    BY <2>0, <2>1, <2>2, <1>1, <1>3, <1>4 DEF ClaimsOK, Finished
  <2>9. UnclaimedOK'
    BY <2>1, <1>3, <1>4 DEF UnclaimedOK
  <2>10. DetachedOK'
    BY <2>0, <2>1, <2>2, <1>4 DEF DetachedOK, Finished
  <2>11. QED
    BY <1>6, <2>1, <2>4, <2>5, <2>6, <2>7, <2>8, <2>9, <2>10
<1>11. QED
  BY <1>9, <1>10

\* A thread that registers itself again revives its own record, or gets a new
\* one if it was detached.
LEMMA RegisterStep ==
  ASSUME ThreadAssumption, TableInv, NoRevival, NEW i \in Id, "again" \in Ops[i],
         GC_register_my_thread(i)
  PROVE  TableInv'
<1> USE DEF TableInv
<1>0. /\ os' = [os EXCEPT ![i] = "again"] /\ os[i] = "ended"
      /\ UNCHANGED <<released, mine, call, sect, dont_gc, lock, blocked>>
  BY DEF GC_register_my_thread, GC_register_my_thread_inner
<1>1. \A j \in Id : os'[j] = IF j = i THEN "again" ELSE os[j]
  BY <1>0 DEF TableTypeOK
<1>2. /\ \A j \in Id \ {i} : Registered(j)' = Registered(j) /\ os'[j] = os[j]
      /\ Registered(i)' /\ ~Registered(i) /\ Present(i)
      /\ \A j \in Id : Present(j)' = Present(j)
  BY <1>0, <1>1 DEF Registered, Present
<1>3. \A d \in Id : Claims(d)' = Claims(d) /\ call'[d] = call[d]
  BY <1>0 DEF Claims
<1>4. \A d \in Id : Claims(d) => rid[call[d].rec] # i /\ (~call[d].done => call[d].who # i)
  <2>1. \A d \in Id : Claims(d) /\ ~call[d].done => rid[call[d].rec] = call[d].who
    BY LookupType, KnownRecord DEF ClaimsOK
  <2>2. QED
    BY <2>1 DEF ClaimsOK, NoRevival
<1>5. Known \subseteq Record /\ 0 \notin Known /\ \A q \in Known : rid[q] \in Id
  BY KnownRecord DEF TableTypeOK
<1>6. \A q \in Known : rid[q] = i => Finished(q) /\ q = GC_lookup_thread(i) /\ i \notin released
  BY <1>2, <1>4, <1>5 DEF FirstIsLive, NoRecordLeak, Claims
<1>7. i # Main
  BY <1>0 DEF ReleasedOK
<1>8. ReleasedOK'
  BY <1>0, <1>1, <1>7 DEF ReleasedOK
<1>9. CASE GC_lookup_thread(i) = 0
  <2> PICK n : n = Fresh
    OBVIOUS
  <2>0. /\ chain' = <<n>> \o chain /\ rid' = [rid EXCEPT ![n] = i]
        /\ flags' = [flags EXCEPT ![n] = {"DETACHED"}] /\ UNCHANGED sp
        /\ n \in Record \ Known
    BY <1>9, FreshFree DEF GC_register_my_thread, GC_register_my_thread_inner
  <2>1. /\ ChainOK' /\ Known' = Known \cup {n}
        /\ \A r \in Known : rid'[r] = rid[r]
        /\ rid'[n] = i
        /\ GC_lookup_thread(i)' = n
        /\ \A j : j # i => GC_lookup_thread(j)' = GC_lookup_thread(j)
    BY <2>0, Prepend DEF TableTypeOK
  <2>2. /\ \A q \in Known : flags'[q] = flags[q] /\ Finished(q)' = Finished(q) /\ q # n
        /\ flags'[n] = {"DETACHED"} /\ "FINISHED" \notin flags'[n] /\ n # 0
    BY <2>0, <1>5, ThreadAssumption DEF Finished, TableTypeOK, Record
  <2>3. i \in released
    BY <1>2, <1>9 DEF UnclaimedOK
  <2>4. TableTypeOK'
    <3>1. \A k, l \in 1 .. Len(chain') : k # l => chain'[k] # chain'[l]
      BY <2>0, ChainInjective DEF TableTypeOK
    <3>2. Known' \subseteq Record
      BY <2>0, <2>1, <1>5
    <3>3. QED
      BY <1>0, <2>0, <3>1, <3>2 DEF TableTypeOK, OsState, Flag
  <2>5. FirstIsLive'
    BY <2>1, <2>2, <1>2, <1>5, <1>6 DEF FirstIsLive, Finished
  <2>6. OwnRecord'
    BY <2>1, <2>2, <1>0, <1>1, <1>2, LookupType DEF OwnRecord, Finished
  <2>7. NoRecordLeak'
    <3>1. \A q \in Known : rid[q] # i
      BY <1>5, <1>6, <1>9
    <3>2. QED
      BY <3>1, <2>1, <2>2, <1>0, <1>1, <1>5 DEF NoRecordLeak, Finished
  <2>8. ClaimsOK'
    BY <2>1, <2>2, <1>0, <1>2, <1>3, <1>4 DEF ClaimsOK, Finished
  <2>9. UnclaimedOK'
    BY <2>1, <2>3, <1>0, <1>2, <1>3 DEF UnclaimedOK
  <2>10. DetachedOK'
    BY <2>1, <2>2, <2>3, <1>0, <1>3 DEF DetachedOK, Finished
  <2>11. QED
    BY <1>8, <2>1, <2>4, <2>5, <2>6, <2>7, <2>8, <2>9, <2>10
<1>10. CASE GC_lookup_thread(i) # 0
  <2> PICK r : r = GC_lookup_thread(i)
    OBVIOUS
  <2>0. /\ flags' = [flags EXCEPT ![r] = @ \ {"FINISHED"}] /\ UNCHANGED <<chain, rid>>
        /\ sp' = [sp EXCEPT ![r] = "base"]
        /\ r \in Known /\ rid[r] = i
    BY <1>10, LookupType DEF GC_register_my_thread
  <2>1. Known' = Known /\ ChainOK' /\ \A j : GC_lookup_thread(j)' = GC_lookup_thread(j)
    BY <2>0, SameLookup
  <2>2. /\ \A q \in Known \ {r} : flags'[q] = flags[q] /\ Finished(q)' = Finished(q)
        /\ "FINISHED" \notin flags'[r] /\ "DETACHED" \notin flags'[r]
    BY <2>0, <1>5, <1>6 DEF Finished, TableTypeOK, DetachedOK
  <2>3. TableTypeOK'
    BY <1>0, <2>0, <2>1 DEF TableTypeOK, OsState, Saved
  <2>4. FirstIsLive'
    BY <2>0, <2>1, <2>2, <1>2, <1>5 DEF FirstIsLive, Finished
  <2>5. OwnRecord'
    BY <2>0, <2>1, <2>2, <1>0, <1>1, <1>2, LookupType DEF OwnRecord, Finished
  <2>6. NoRecordLeak'
    BY <2>0, <2>1, <2>2, <1>0, <1>1, <1>3, <1>6 DEF NoRecordLeak, Finished
  <2>7. ClaimsOK'
    BY <2>0, <2>1, <2>2, <1>0, <1>2, <1>3, <1>4 DEF ClaimsOK, Finished
  <2>8. UnclaimedOK'
    BY <2>1, <1>0, <1>2, <1>3 DEF UnclaimedOK
  <2>9. DetachedOK'
    BY <2>0, <2>1, <2>2, <1>0, <1>3, <1>6 DEF DetachedOK, Finished
  <2>10. QED
    BY <1>8, <2>1, <2>3, <2>4, <2>5, <2>6, <2>7, <2>8, <2>9
<1>11. QED
  BY <1>9, <1>10

\* The thread is over for the thread library; its record stays as it is.
LEMMA OsExitStep ==
  ASSUME ThreadAssumption, TableInv, NEW i \in Id, OsExit(i)
  PROVE  TableInv'
<1> USE DEF TableInv
<1>0. /\ os[i] = "ended" /\ released' = released \ {i}
      /\ os' = [os EXCEPT ![i] = IF i \in released THEN "none" ELSE "zombie"]
      /\ UNCHANGED <<mine, call, chain, rid, flags, blocked, sp, sect, dont_gc, lock>>
  BY DEF OsExit
<1>1. Known' = Known /\ ChainOK' /\ (\A j : GC_lookup_thread(j)' = GC_lookup_thread(j))
      /\ \A r : Finished(r)' = Finished(r)
  BY <1>0, SameLookup DEF Finished
<1>2. /\ \A j \in Id \ {i} : os'[j] = os[j] /\ Present(j)' = Present(j) /\ (j \in released' <=> j \in released)
      /\ \A j \in Id : Registered(j)' = Registered(j)
      /\ os'[i] = IF i \in released THEN "none" ELSE "zombie"
      /\ i \notin released => Present(i) /\ Present(i)'
      /\ i \in released => ~Present(i)'
      /\ i \notin released'
  BY <1>0 DEF TableTypeOK, Present, Registered
<1>3. \A d \in Id : Claims(d)' = Claims(d) /\ call'[d] = call[d]
  BY <1>0 DEF Claims
<1>4. \A r \in Known : rid[r] \in Id /\ (rid[r] = i => Finished(r))
  BY <1>0, KnownRecord DEF TableTypeOK, FirstIsLive, Registered
<1>5. TableTypeOK'
  BY <1>0, <1>1 DEF TableTypeOK, OsState
<1>6. ReleasedOK'
  BY <1>0, <1>2 DEF ReleasedOK
<1>7. FirstIsLive' /\ OwnRecord'
  BY <1>0, <1>1, <1>2, <1>4 DEF FirstIsLive, OwnRecord, Registered
<1>8. NoRecordLeak'
  BY <1>0, <1>1, <1>2, <1>3, <1>4 DEF NoRecordLeak
<1>9. ClaimsOK'
  <2>1. \A d \in Id : Claims(d) /\ ~call[d].done => call[d].who \in Id /\ Present(call[d].who) /\ call[d].who \notin released
    BY DEF ClaimsOK
  <2>2. \A d \in Id : Claims(d) /\ ~call[d].done => Present(call[d].who)' /\ call[d].who \notin released'
    BY <2>1, <1>0, <1>2, <1>3
  <2>3. \A d \in Id : Claims(d) => rid[call[d].rec] \in Id /\ (rid[call[d].rec] = i => Finished(call[d].rec))
    BY <1>4 DEF ClaimsOK
  <2>4. QED
    BY <2>1, <2>2, <2>3, <1>0, <1>1, <1>2, <1>3 DEF ClaimsOK
<1>10. UnclaimedOK'
  BY <1>0, <1>1, <1>2, <1>3 DEF UnclaimedOK
<1>11. DetachedOK'
  BY <1>0, <1>1, <1>2, <1>3, <1>4 DEF DetachedOK
<1>12. QED
  BY <1>1, <1>5, <1>6, <1>7, <1>8, <1>9, <1>10, <1>11

\* A call looks up the record of a thread that no other call is about.
LEMMA LookUpStep ==
  ASSUME ThreadAssumption, TableInv, NEW c \in Id, NEW i \in Id, NEW op \in {"join", "detach"},
         "reap" \in Ops[i], LookUp(c, i, op)
  PROVE  TableInv'
<1> USE DEF TableInv
<1> PICK r : r = GC_lookup_thread(i)
  OBVIOUS
<1> DEFINE new == [op |-> op, who |-> i, rec |-> r, done |-> FALSE]
<1>0. /\ call' = [call EXCEPT ![c] = new] /\ call[c].op = "none"
      /\ UNCHANGED <<os, released, mine, chain, rid, flags, blocked, sp, sect, dont_gc, lock>>
      /\ i # Main /\ i \notin released /\ Present(i) /\ \A d \in Id : call[d].who # i
  <2>1. i # Main /\ i \notin released /\ Present(i) /\ \A d \in Id : call[d].who # i
    BY DEF LookUp, Reapable, Present, TableTypeOK, OsState
  <2>2. QED
    BY <2>1 DEF LookUp, Idle
<1>1. Known' = Known /\ ChainOK' /\ (\A j : GC_lookup_thread(j)' = GC_lookup_thread(j))
      /\ \A q : Finished(q)' = Finished(q)
  BY <1>0, SameLookup DEF Finished
<1>2. \A j : Registered(j)' = Registered(j) /\ Present(j)' = Present(j)
  BY <1>0 DEF Registered, Present
<1>3. r \in Known /\ r \in Record /\ rid[r] = i
  BY <1>0, LookupType, KnownRecord DEF UnclaimedOK
<1>4. /\ \A d \in Id \ {c} : Claims(d)' = Claims(d) /\ call'[d] = call[d]
      /\ ~Claims(c) /\ Claims(c)' /\ call'[c] = new
  BY <1>0 DEF Claims, TableTypeOK
<1>5. \A d \in Id : Claims(d) => call[d].rec # r
  <2>1. ASSUME NEW d \in Id, Claims(d), call[d].rec = r  PROVE FALSE
    <3>1. CASE call[d].done
      BY <2>1, <3>1, <1>0 DEF UnclaimedOK
    <3>2. CASE ~call[d].done
      BY <2>1, <3>2, <1>0, <1>3, LookupType, KnownRecord DEF ClaimsOK
    <3>3. QED
      BY <3>1, <3>2
  <2>2. QED
    BY <2>1
<1>6. TableTypeOK'
  <2>1. new \in Call
    BY <1>3 DEF Call, Record
  <2>2. QED
    BY <1>0, <1>1, <2>1 DEF TableTypeOK
<1>7. ReleasedOK' /\ FirstIsLive' /\ OwnRecord'
  BY <1>0, <1>1, <1>2 DEF ReleasedOK, FirstIsLive, OwnRecord
<1>8. NoRecordLeak'
  BY <1>0, <1>1, <1>4 DEF NoRecordLeak, Claims
<1>9. ClaimsOK'
  <2>1. \A d \in Id \ {c} : Claims(d) => Claims(d)' /\ call'[d] = call[d]
    BY <1>4
  <2>2. \A d, e \in Id : Claims(d)' /\ Claims(e)' /\ d # e => call'[d].rec # call'[e].rec
    BY <1>4, <1>5 DEF ClaimsOK
  <2>3. \A d \in Id \ {c} : Claims(d)' => call'[d] = call[d] /\ Claims(d)
    BY <1>4
  <2>4. QED
    BY <2>2, <2>3, <1>0, <1>1, <1>2, <1>3, <1>4 DEF ClaimsOK
<1>10. UnclaimedOK'
  BY <1>0, <1>1, <1>2, <1>4 DEF UnclaimedOK
<1>11. DetachedOK'
  BY <1>0, <1>1, <1>4 DEF DetachedOK
<1>12. QED
  BY <1>1, <1>6, <1>7, <1>8, <1>9, <1>10, <1>11

\* The thread library joins or detaches the thread: from here on its id may
\* be used again, and the record is nobody's but the call's.
LEMMA RealCallStep ==
  ASSUME ThreadAssumption, TableInv, NEW c \in Id, RealCall(c)
  PROVE  TableInv'
<1> USE DEF TableInv
<1> PICK i : i = call[c].who
  OBVIOUS
<1> PICK r : r = call[c].rec
  OBVIOUS
<1>0. /\ Claims(c) /\ ~call[c].done
      /\ call[c].op = "join" => os[i] = "zombie"
      /\ os' = [os EXCEPT ![i] = IF @ = "zombie" THEN "none" ELSE @]
      /\ released' = IF call[c].op = "detach" /\ os[i] # "zombie" THEN released \cup {i} ELSE released
      /\ call' = [call EXCEPT ![c].done = TRUE, ![c].who = NoThread]
      /\ UNCHANGED <<mine, chain, rid, flags, blocked, sp, sect, dont_gc, lock>>
  BY DEF RealCall, Claims
<1>1. Known' = Known /\ ChainOK' /\ (\A j : GC_lookup_thread(j)' = GC_lookup_thread(j))
      /\ \A q : Finished(q)' = Finished(q)
  BY <1>0, SameLookup DEF Finished
<1>2. /\ i \in Id \ (released \cup {Main}) /\ Present(i) /\ "reap" \in Ops[i]
      /\ r = GC_lookup_thread(i) /\ r \in Known /\ r \in Record /\ rid[r] = i
  BY <1>0, LookupType, KnownRecord DEF ClaimsOK
<1>3. /\ call'[c] = [op |-> call[c].op, who |-> NoThread, rec |-> r, done |-> TRUE]
      /\ call[c].op \in {"join", "detach"}
      /\ \A d \in Id \ {c} : call'[d] = call[d]
      /\ \A d \in Id : Claims(d)' = Claims(d)
  <2>1. call[c] \in Call
    BY DEF TableTypeOK
  <2>2. call'[c] = [call[c] EXCEPT !.done = TRUE, !.who = NoThread]
    BY <1>0 DEF TableTypeOK
  <2>3. \A d \in Id \ {c} : call'[d] = call[d]
    BY <1>0 DEF TableTypeOK
  <2>4. call'[c] = [op |-> call[c].op, who |-> NoThread, rec |-> r, done |-> TRUE]
    BY <2>1, <2>2 DEF Call
  <2>5. call[c].op \in {"join", "detach"}
    BY <1>0 DEF Claims
  <2>6. QED
    BY <2>3, <2>4, <2>5 DEF Claims
<1>4. \A d \in Id \ {c} : Claims(d) => call[d].rec # r /\ (~call[d].done => call[d].who # i)
  BY <1>0, <1>2 DEF ClaimsOK
<1>5. /\ \A j \in Id \ {i} : os'[j] = os[j] /\ (j \in released' <=> j \in released)
      /\ \A j \in Id \ {i} : Present(j)' = Present(j)
      /\ \A j \in Id : Registered(j)' = Registered(j) /\ (Registered(j) => os'[j] = os[j])
      /\ i \in released' \/ os'[i] = "none"
      /\ os'[i] = "none" => i \notin released'
  BY <1>0, <1>2, <1>3 DEF TableTypeOK, Present, Registered
<1>6. /\ call[c].op = "join" => Finished(r)
      /\ "DETACHED" \notin flags[r]
      /\ ~Finished(r) => i \in released'
  BY <1>0, <1>2, <1>3 DEF FirstIsLive, DetachedOK, Registered
<1>7. TableTypeOK'
  <2>1. call' \in [Id -> Call]
    <3>1. [op |-> call[c].op, who |-> NoThread, rec |-> r, done |-> TRUE] \in Call
      BY <1>2, <1>3 DEF Call, Record
    <3>2. call \in [Id -> Call] /\ DOMAIN call' = Id
      BY <1>0 DEF TableTypeOK
    <3>3. \A d \in Id : call'[d] \in Call
      BY <3>1, <3>2, <1>3
    <3>4. call' = [d \in Id |-> call'[d]]
      BY <1>0 DEF TableTypeOK
    <3>5. QED
      BY <3>3, <3>4
  <2>2. QED
    BY <1>0, <1>1, <1>2, <2>1 DEF TableTypeOK, OsState
<1>8. ReleasedOK'
  BY <1>0, <1>2, <1>5 DEF ReleasedOK
<1>9. FirstIsLive' /\ OwnRecord'
  BY <1>0, <1>1, <1>5, KnownRecord DEF FirstIsLive, OwnRecord, Registered, TableTypeOK
<1>10. NoRecordLeak'
  <2>1. \A q \in Known : rid[q] \in Id
    BY KnownRecord DEF TableTypeOK
  <2>2. \A q \in Known : GC_lookup_thread(rid[q]) = q /\ rid[q] = i => q = r
    BY <1>2
  <2>3. \A q \in Known : \A d \in Id :
          Claims(d) /\ call[d].rec = q => Claims(d)' /\ call'[d].rec = q
    BY <1>3
  <2>4. Claims(c)' /\ call'[c].rec = r
    BY <1>0, <1>3
  <2>5. ASSUME NEW q \in Known, Finished(q)
        PROVE  \/ GC_lookup_thread(rid[q]) = q /\ os'[rid[q]] \in {"ended", "zombie"} /\ rid[q] \notin released'
               \/ \E d \in Id : Claims(d)' /\ call'[d].rec = q
    <3>1. CASE \E d \in Id : Claims(d) /\ call[d].rec = q
      BY <2>3, <3>1
    <3>2. CASE GC_lookup_thread(rid[q]) = q /\ os[rid[q]] \in {"ended", "zombie"} /\ rid[q] \notin released
      BY <2>1, <2>2, <2>4, <3>2, <1>5
    <3>3. QED
      BY <2>5, <3>1, <3>2 DEF NoRecordLeak, Claims
  <2>6. QED
    BY <2>5, <1>0, <1>1 DEF NoRecordLeak, Claims
<1>11. ClaimsOK'
  <2>1. \A d \in Id \ {c} : Claims(d) => rid[call[d].rec] \in Id
    BY KnownRecord DEF ClaimsOK, TableTypeOK
  <2>2. \A d, e \in Id : Claims(d)' /\ Claims(e)' /\ d # e => call'[d].rec # call'[e].rec
    <3>1. \A d \in Id : call'[d].rec = call[d].rec
      BY <1>3
    <3>2. QED
      BY <3>1, <1>3 DEF ClaimsOK
  <2>3. ASSUME NEW d \in Id \ {c}, Claims(d)
        PROVE  /\ call[d].rec \in Known
               /\ ~call[d].done =>
                    /\ call[d].who \in Id \ (released' \cup {Main, i})
                    /\ Present(call[d].who) /\ "reap" \in Ops[call[d].who]
                    /\ call[d].rec = GC_lookup_thread(call[d].who)
               /\ call[d].done =>
                    /\ rid[call[d].rec] # Main /\ "reap" \in Ops[rid[call[d].rec]]
                    /\ \/ Finished(call[d].rec)
                       \/ /\ call[d].op = "detach" /\ rid[call[d].rec] \in released'
                          /\ "DETACHED" \notin flags[call[d].rec]
    BY <2>1, <2>3, <1>0, <1>4, <1>5 DEF ClaimsOK
  <2>4. \A d \in Id \ {c} : Claims(d) /\ ~call[d].done => Present(call[d].who)'
    BY <2>3, <1>3, <1>5
  <2>5. \A d \in Id : Claims(d)' => Claims(d)
    BY <1>3
  <2>6. \A d \in Id \ {c} : call'[d] = call[d]
    BY <1>3
  <2>7. /\ call'[c].rec \in Known' /\ call'[c].done
        /\ rid'[call'[c].rec] # Main /\ "reap" \in Ops[rid'[call'[c].rec]]
        /\ \/ "FINISHED" \in flags'[call'[c].rec]
           \/ /\ call'[c].op = "detach" /\ rid'[call'[c].rec] \in released'
              /\ "DETACHED" \notin flags'[call'[c].rec]
    <3>1. call'[c].rec = r /\ call'[c].done /\ call'[c].op = call[c].op /\ call[c].op \in {"join", "detach"}
      BY <1>3
    <3>2. QED
      BY <3>1, <1>0, <1>1, <1>2, <1>6 DEF Finished
  <2>8. \A d \in Id \ {c} : Claims(d)' =>
          /\ call'[d].rec \in Known'
          /\ ~call'[d].done =>
               /\ call'[d].who \in Id \ (released' \cup {Main})
               /\ Present(call[d].who)' /\ "reap" \in Ops[call'[d].who]
               /\ call'[d].rec = GC_lookup_thread(call[d].who)'
          /\ call'[d].done =>
               /\ rid'[call'[d].rec] # Main /\ "reap" \in Ops[rid'[call'[d].rec]]
               /\ \/ "FINISHED" \in flags'[call'[d].rec]
                  \/ /\ call'[d].op = "detach" /\ rid'[call'[d].rec] \in released'
                     /\ "DETACHED" \notin flags'[call'[d].rec]
    <3>1. TAKE d \in Id \ {c}
    <3>2. HAVE Claims(d)'
    <3>3. Claims(d) /\ call'[d] = call[d]
      BY <2>5, <2>6, <3>2
    <3>4. QED
      BY <2>3, <2>4, <3>3, <1>0, <1>1 DEF Finished
  <2>9. QED
    BY <2>2, <2>7, <2>8, <1>3 DEF ClaimsOK, Finished
<1>12. UnclaimedOK'
  <2>1. SUFFICES ASSUME NEW j \in Id \ released', Present(j)'
        PROVE  (GC_lookup_thread(j) # 0)'
               /\ \A d \in Id : (Claims(d) /\ call[d].done)' => call'[d].rec # GC_lookup_thread(j)'
    BY DEF UnclaimedOK
  <2>2. j # i /\ j \notin released /\ Present(j)
    BY <2>1, <1>5 DEF Present
  <2>3. GC_lookup_thread(j) # 0 /\ GC_lookup_thread(j) # r
    BY <2>1, <2>2, <1>2, LookupType DEF UnclaimedOK
  <2>4. QED
    BY <2>1, <2>2, <2>3, <1>1, <1>3 DEF UnclaimedOK
<1>13. DetachedOK'
  <2>1. \A q \in Known : rid[q] \in Id
    BY KnownRecord DEF TableTypeOK
  <2>2. \A q \in Known : rid[q] = i /\ ~Finished(q) => q = r
    BY <1>2 DEF FirstIsLive
  <2>3. Claims(c)' /\ call'[c].done /\ call'[c].rec = r
    BY <1>0, <1>3
  <2>4. ASSUME NEW q \in Known, "DETACHED" \notin flags[q], ~Finished(q), rid[q] \in released'
        PROVE  \E d \in Id : (Claims(d) /\ call[d].done)' /\ call'[d].rec = q
    <3>1. CASE q = r
      BY <2>3, <3>1
    <3>2. CASE q # r
      <4>1. rid[q] \in released
        BY <2>1, <2>2, <2>4, <3>2, <1>5
      <4>2. PICK d \in Id : Claims(d) /\ call[d].done /\ call[d].rec = q
        BY <2>4, <4>1 DEF DetachedOK
      <4>3. QED
        BY <4>2, <1>0, <1>3
    <3>3. QED
      BY <3>1, <3>2
  <2>5. \A q \in Known : "DETACHED" \in flags[q] => ~Finished(q) /\ (rid[q] = Main \/ rid[q] \in released')
    BY <2>1, <1>2, <1>5 DEF DetachedOK
  <2>6. QED
    BY <2>4, <2>5, <1>0, <1>1 DEF DetachedOK
<1>14. QED
  BY <1>1, <1>7, <1>8, <1>9, <1>10, <1>11, <1>12, <1>13

\* The record of a finished thread is freed by the call that owns it.
LEMMA FreeStep ==
  ASSUME ThreadAssumption, TableInv, NEW c \in Id, Claims(c), call[c].done,
         Finished(call[c].rec), GC_delete_gc_thread(call[c].rec),
         call' = [call EXCEPT ![c] = NoCall],
         UNCHANGED <<os, released, mine, blocked, sect, dont_gc, lock>>
  PROVE  TableInv'
<1> USE DEF TableInv
<1> PICK r : r = call[c].rec
  OBVIOUS
<1>0. /\ chain' = Unlinked(r) /\ rid' = [rid EXCEPT ![r] = Main]
      /\ flags' = [flags EXCEPT ![r] = {}] /\ sp' = [sp EXCEPT ![r] = "base"]
      /\ r \in Known /\ Known \subseteq Record /\ 0 \notin Known /\ Finished(r)
      /\ \A q \in Known : rid[q] \in Id
  BY KnownRecord DEF GC_delete_gc_thread, ClaimsOK, TableTypeOK
<1>1. /\ ChainOK' /\ Known' = Known \ {r}
      /\ \A k, l \in 1 .. Len(chain') : k # l => chain'[k] # chain'[l]
      /\ \A q \in Known \ {r} : rid'[q] = rid[q]
      /\ \A j : GC_lookup_thread(j) # r => GC_lookup_thread(j)' = GC_lookup_thread(j)
  BY <1>0, Unlink, ThreadAssumption DEF TableTypeOK
<1>2. \A q \in Known \ {r} : flags'[q] = flags[q]
  BY <1>0 DEF TableTypeOK
<1>3. \A j : Registered(j)' = Registered(j) /\ Present(j)' = Present(j)
  BY DEF Registered, Present
<1>4. \A d \in Id : /\ Claims(d)' <=> Claims(d) /\ d # c
                    /\ Claims(d)' => call'[d] = call[d] /\ call[d].rec # r
  BY DEF Claims, ClaimsOK, TableTypeOK, NoCall
<1>5. /\ \A j \in Id : Registered(j) => GC_lookup_thread(j) # r
      /\ \A j \in Id \ released : Present(j) => GC_lookup_thread(j) # r
  BY <1>0 DEF OwnRecord, UnclaimedOK
<1>6. TableTypeOK'
  <2>1. Known' \subseteq Record
    BY <1>0, <1>1
  <2>2. rid' \in [Record -> Id] /\ flags' \in [Record -> SUBSET Flag] /\ sp' \in [Record -> Saved]
    BY <1>0, ThreadAssumption DEF TableTypeOK, Saved
  <2>3. call' \in [Id -> Call]
    BY ThreadAssumption DEF TableTypeOK, Call, NoCall
  <2>4. QED
    BY <1>1, <2>1, <2>2, <2>3 DEF TableTypeOK
<1>7. ReleasedOK'
  BY DEF ReleasedOK
<1>8. FirstIsLive'
  BY <1>0, <1>1, <1>2, <1>3, <1>5 DEF FirstIsLive, Finished
<1>9. OwnRecord'
  <2>1. \A j \in Id : Registered(j) => GC_lookup_thread(j) \in Known \ {r}
    BY <1>5, LookupType DEF OwnRecord
  <2>2. \A j \in Id : os[j] = "active" => Registered(j)
    BY DEF Registered
  <2>3. QED
    BY <2>1, <2>2, <1>0, <1>1, <1>2, <1>3 DEF OwnRecord, Finished
<1>10. NoRecordLeak'
  <2>1. ASSUME NEW q \in Known \ {r}, Finished(q)
        PROVE  \/ GC_lookup_thread(rid[q])' = q /\ os[rid[q]] \in {"ended", "zombie"} /\ rid[q] \notin released
               \/ \E d \in Id : Claims(d)' /\ call'[d].rec = q
    <3>1. CASE \E d \in Id : Claims(d) /\ call[d].rec = q
      BY <3>1, <2>1, <1>4
    <3>2. CASE GC_lookup_thread(rid[q]) = q /\ os[rid[q]] \in {"ended", "zombie"} /\ rid[q] \notin released
      <4>1. GC_lookup_thread(rid[q])' = q
        <5>1. rid'[q] = rid[q] /\ GC_lookup_thread(rid[q]) # r
          BY <2>1, <3>2, <1>1
        <5>2. QED
          BY <5>1, <3>2, <1>1
      <4>2. QED
        BY <3>2, <4>1
    <3>3. QED
      BY <2>1, <3>1, <3>2 DEF NoRecordLeak, Claims
  <2>2. QED
    BY <2>1, <1>1, <1>2 DEF NoRecordLeak, Finished, Claims
<1>11. ClaimsOK'
  <2>1. ASSUME NEW d \in Id, Claims(d)'
        PROVE  /\ call[d].rec \in Known \ {r}
               /\ ~call[d].done =>
                    /\ call[d].who \in Id \ (released \cup {Main})
                    /\ Present(call[d].who) /\ "reap" \in Ops[call[d].who]
                    /\ call[d].rec = GC_lookup_thread(call[d].who)
               /\ call[d].done =>
                    /\ rid[call[d].rec] # Main /\ "reap" \in Ops[rid[call[d].rec]]
                    /\ \/ Finished(call[d].rec)
                       \/ /\ call[d].op = "detach" /\ rid[call[d].rec] \in released
                          /\ "DETACHED" \notin flags[call[d].rec]
    BY <2>1, <1>4 DEF ClaimsOK
  <2>2. ASSUME NEW d \in Id, Claims(d)', ~call[d].done
        PROVE  GC_lookup_thread(call[d].who)' = GC_lookup_thread(call[d].who)
    BY <2>1, <2>2, <1>1, <1>4
  <2>3. \A d, e \in Id : Claims(d)' /\ Claims(e)' /\ d # e => call'[d].rec # call'[e].rec
    BY <1>4 DEF ClaimsOK
  <2>4. \A d \in Id : Claims(d)' => call'[d] = call[d]
    BY <1>4
  <2>5. QED
    BY <2>1, <2>2, <2>3, <2>4, <1>1, <1>2, <1>3 DEF ClaimsOK, Finished
<1>12. UnclaimedOK'
  BY <1>1, <1>3, <1>4, <1>5 DEF UnclaimedOK
<1>13. DetachedOK'
  <2>1. \A q \in Known \ {r} : \A d \in Id :
          Claims(d) /\ call[d].done /\ call[d].rec = q => Claims(d)' /\ call'[d].done /\ call'[d].rec = q
    BY <1>4
  <2>2. QED
    BY <2>1, <1>1, <1>2 DEF DetachedOK, Finished
<1>14. QED
  BY <1>1, <1>6, <1>7, <1>8, <1>9, <1>10, <1>11, <1>12, <1>13

LEMMA JoinReturnsStep ==
  ASSUME ThreadAssumption, TableInv, NEW c \in Id, JoinReturns(c)
  PROVE  TableInv'
<1>1. Claims(c) /\ call[c].done /\ Finished(call[c].rec)
  BY DEF JoinReturns, Claims, TableInv, ClaimsOK
<1>2. QED
  BY <1>1, FreeStep DEF JoinReturns

\* pthread_detach returns while the thread runs: the flag is set, and the
\* thread frees the record.
LEMMA DetachReturnsStep ==
  ASSUME ThreadAssumption, TableInv, NEW c \in Id, DetachReturns(c)
  PROVE  TableInv'
<1> USE DEF TableInv
<1> PICK r : r = call[c].rec
  OBVIOUS
<1>0. Claims(c) /\ call[c].done /\ call[c].op = "detach" /\ r \in Known
  BY DEF DetachReturns, Claims, ClaimsOK
<1>1. CASE Finished(r)
  BY <1>0, <1>1, FreeStep DEF DetachReturns
<1>2. CASE ~Finished(r)
  <2>0. /\ flags' = [flags EXCEPT ![r] = @ \cup {"DETACHED"}]
        /\ call' = [call EXCEPT ![c] = NoCall]
        /\ UNCHANGED <<os, released, mine, chain, rid, blocked, sp, sect, dont_gc, lock>>
        /\ rid[r] \in released
    BY <1>0, <1>2 DEF DetachReturns, ClaimsOK
  <2>1. Known' = Known /\ ChainOK' /\ Known \subseteq Record
        /\ \A j : GC_lookup_thread(j)' = GC_lookup_thread(j)
    BY <2>0, SameLookup, KnownRecord
  <2>2. /\ \A q \in Known \ {r} : flags'[q] = flags[q]
        /\ flags'[r] = flags[r] \cup {"DETACHED"}
        /\ \A q \in Known : Finished(q)' = Finished(q)
    BY <2>0, <2>1, <1>0 DEF Finished, TableTypeOK
  <2>3. \A j : Registered(j)' = Registered(j) /\ Present(j)' = Present(j)
    BY <2>0 DEF Registered, Present
  <2>4. \A d \in Id : /\ Claims(d)' <=> Claims(d) /\ d # c
                      /\ Claims(d)' => call'[d] = call[d] /\ call[d].rec # r
    BY <2>0, <1>0 DEF Claims, ClaimsOK, TableTypeOK, NoCall
  <2>5. TableTypeOK'
    <3>1. call' \in [Id -> Call]
      BY <2>0, ThreadAssumption DEF TableTypeOK, Call, NoCall
    <3>2. flags' \in [Record -> SUBSET Flag]
      BY <2>0 DEF TableTypeOK, Flag
    <3>3. QED
      BY <2>0, <2>1, <3>1, <3>2 DEF TableTypeOK
  <2>6. ReleasedOK' /\ FirstIsLive'
    BY <2>0, <2>1, <2>2, <2>3 DEF ReleasedOK, FirstIsLive
  <2>7. OwnRecord'
    BY <2>0, <2>1, <2>2, <2>3, LookupType DEF OwnRecord
  <2>8. NoRecordLeak'
    <3>1. \A q \in Known : Finished(q) => q # r
      BY <1>2
    <3>2. \A q \in Known \ {r} : \A d \in Id : Claims(d) /\ call[d].rec = q => Claims(d)' /\ call'[d].rec = q
      BY <2>4
    <3>3. QED
      BY <3>1, <3>2, <2>0, <2>1, <2>2 DEF NoRecordLeak, Claims
  <2>9. ClaimsOK'
    <3>1. \A d \in Id : Claims(d)' => call'[d] = call[d] /\ Claims(d) /\ call[d].rec # r
      BY <2>4
    <3>2. QED
      BY <3>1, <2>0, <2>1, <2>2, <2>3 DEF ClaimsOK
  <2>10. UnclaimedOK'
    BY <2>0, <2>1, <2>3, <2>4 DEF UnclaimedOK
  <2>11. DetachedOK'
    <3>1. \A q \in Known \ {r} : \A d \in Id :
            Claims(d) /\ call[d].done /\ call[d].rec = q => Claims(d)' /\ call'[d].done /\ call'[d].rec = q
      BY <2>4
    <3>2. QED
      BY <3>1, <2>0, <2>1, <2>2, <1>2 DEF DetachedOK
  <2>12. QED
    BY <2>1, <2>5, <2>6, <2>7, <2>8, <2>9, <2>10, <2>11
<1>3. QED
  BY <1>1, <1>2

\* Every thread that is in the table has a record.
LEMMA LookupRecord ==
  ASSUME TableInv, NEW i \in Id, Registered(i)
  PROVE  GC_lookup_thread(i) \in Known /\ GC_lookup_thread(i) \in Record
BY LookupType, KnownRecord DEF TableInv, OwnRecord

LEMMA DisableStep ==
  ASSUME ThreadAssumption, TableInv, NEW i \in Id, DisableGC(GC_lookup_thread(i))
  PROVE  TableInv'
<1>1. GC_lookup_thread(i) \in Record
  BY LookupType, KnownRecord DEF TableInv, DisableGC
<1>2. TableTypeOK'
  <2>1. Known' = Known
    BY SameLookup DEF DisableGC
  <2>2. flags' \in [Record -> SUBSET Flag] /\ dont_gc' \in Int
    <3>1. flags' = [flags EXCEPT ![GC_lookup_thread(i)] = @ \cup {"DISABLED_GC"}]
      BY DEF DisableGC
    <3>2. flags[GC_lookup_thread(i)] \cup {"DISABLED_GC"} \in SUBSET Flag
      BY <1>1 DEF TableInv, TableTypeOK, Flag
    <3>3. dont_gc' \in Int
      BY DEF DisableGC, TableInv, TableTypeOK
    <3>4. QED
      BY <3>1, <3>2, <3>3, <1>1 DEF TableInv, TableTypeOK
  <2>3. QED
    BY <2>1, <2>2 DEF DisableGC, TableInv, TableTypeOK
<1>3. \A r \in Record : \A f \in {"FINISHED", "DETACHED"} : f \in flags'[r] <=> f \in flags[r]
  BY <1>1 DEF DisableGC, TableInv, TableTypeOK
<1>4. QED
  BY <1>2, <1>3, OtherFields DEF DisableGC

\* Entering and leaving a region without pointers of the heap.
LEMMA RegionStep ==
  ASSUME ThreadAssumption, TableInv, NEW i \in Id,
         GC_do_blocking(i) \/ BlockingReturns(i) \/ GC_call_with_gc_active(i) \/ ActiveReturns(i)
  PROVE  TableInv'
<1> PICK r : r = GC_lookup_thread(i)
  OBVIOUS
<1>1. r \in Record
  BY LookupRecord DEF GC_do_blocking, BlockingReturns, GC_call_with_gc_active, ActiveReturns, Idle, Blocking
<1>2. UNCHANGED <<os, released, mine, call, chain, rid, flags, dont_gc, lock>>
  BY DEF GC_do_blocking, BlockingReturns, GC_call_with_gc_active, ActiveReturns
<1>3. blocked' \in [Record -> BOOLEAN] /\ sp' \in [Record -> Saved] /\ sect' \in [Id -> Saved]
  BY <1>1 DEF GC_do_blocking, BlockingReturns, GC_call_with_gc_active, ActiveReturns,
              TableInv, TableTypeOK, Saved
<1>4. TableTypeOK'
  <2>1. Known' = Known
    BY <1>2, SameLookup
  <2>2. QED
    BY <2>1, <1>2, <1>3 DEF TableInv, TableTypeOK
<1>5. QED
  BY <1>2, <1>4, OtherFields

\* Every step of the program keeps the invariant.
LEMMA ProgramStep ==
  ASSUME ThreadAssumption, NoRevival, TableInv, NEW i \in Id, Program(i)
  PROVE  TableInv'
<1>1. CASE \E j \in Id, det \in BOOLEAN : pthread_create(i, j, det)
  BY <1>1, CreateStep
<1>2. CASE GC_start_rtn_prepare_thread(i)
  BY <1>2, PrepareStep
<1>3. CASE CreateReturns(i)
  BY <1>3, CreateReturnsStep
<1>4. CASE pthread_exit(i)
  BY <1>4, DisableStep DEF pthread_exit
<1>5. CASE GC_thread_exit_proc(i)
  <2>1. Registered(i) /\ mine[i] = GC_lookup_thread(i) /\ i # Main
    BY <1>5 DEF GC_thread_exit_proc, TableInv, OwnRecord, Registered
  <2>2. mine' \in [Id -> 0 .. MaxRecord] /\ \A j \in Id : j # i => mine'[j] = mine[j]
    BY <1>5, ThreadAssumption DEF GC_thread_exit_proc, TableInv, TableTypeOK
  <2>3. QED
    BY <1>5, <2>1, <2>2, UnregisterStep DEF GC_thread_exit_proc
<1>6. CASE GC_unregister_my_thread(i)
  <2>1. Registered(i) /\ i # Main
    BY <1>6 DEF GC_unregister_my_thread, TableInv, ReleasedOK, Registered
  <2>2. mine' \in [Id -> 0 .. MaxRecord] /\ \A j \in Id : j # i => mine'[j] = mine[j]
    BY <1>6 DEF GC_unregister_my_thread, TableInv, TableTypeOK
  <2>3. QED
    BY <1>6, <2>1, <2>2, UnregisterStep DEF GC_unregister_my_thread
<1>7. CASE "again" \in Ops[i] /\ GC_register_my_thread(i)
  BY <1>7, RegisterStep
<1>8. CASE \E j \in Id : "reap" \in Ops[j] /\ \E op \in {"join", "detach"} : LookUp(i, j, op)
  BY <1>8, LookUpStep
<1>9. CASE RealCall(i)
  BY <1>9, RealCallStep
<1>10. CASE JoinReturns(i)
  BY <1>10, JoinReturnsStep
<1>11. CASE DetachReturns(i)
  BY <1>11, DetachReturnsStep
<1>12. CASE \E j \in Id : pthread_cancel(i, j)
  BY <1>12, DisableStep DEF pthread_cancel
<1>13. CASE GC_do_blocking(i) \/ BlockingReturns(i) \/ GC_call_with_gc_active(i) \/ ActiveReturns(i)
  BY <1>13, RegionStep
<1>14. QED
  BY <1>1, <1>2, <1>3, <1>4, <1>5, <1>6, <1>7, <1>8, <1>9, <1>10, <1>11, <1>12, <1>13 DEF Program

LEMMA TableInitInv ==
  ASSUME ThreadAssumption, TableInit
  PROVE  TableInv
<1> USE DEF TableInit
<1>1. chain = <<1>> /\ Len(chain) = 1 /\ chain[1] = 1 /\ 1 \in Record
  BY ThreadAssumption DEF Record
<1>2. ChainOK
  BY <1>1 DEF ChainOK
<1>3. Known = {1}
  BY <1>1 DEF Known
<1>4. GC_lookup_thread(Main) = 1
  BY <1>1, <1>2, <1>3, LookupType
<1>5. TableTypeOK
  <2>1. \A k, l \in 1 .. Len(chain) : k = l
    BY <1>1
  <2>2. mine \in [Id -> 0 .. MaxRecord] /\ call \in [Id -> Call]
    BY ThreadAssumption DEF Call, NoCall
  <2>3. QED
    BY <1>1, <1>3, <2>1, <2>2, ThreadAssumption DEF TableTypeOK, OsState, Flag, Saved
<1>6. ~Finished(1)
  BY <1>1 DEF Finished
<1>7. \A c : c \in Id => ~Claims(c)
  BY DEF Claims, NoCall
<1>8. ReleasedOK /\ FirstIsLive /\ NoRecordLeak
  BY <1>1, <1>3, <1>4, <1>6, ThreadAssumption DEF ReleasedOK, FirstIsLive, NoRecordLeak, Registered
<1>9. OwnRecord
  BY <1>4, <1>6, ThreadAssumption DEF OwnRecord, Registered
<1>10. ClaimsOK /\ DetachedOK
  BY <1>1, <1>3, <1>6, <1>7 DEF ClaimsOK, DetachedOK
<1>11. UnclaimedOK
  BY <1>4, <1>7 DEF UnclaimedOK, Present
<1>12. QED
  BY <1>2, <1>5, <1>8, <1>9, <1>10, <1>11 DEF TableInv

LEMMA TableNextInv ==
  ASSUME ThreadAssumption, NoRevival, TableInv, [TableNext]_table
  PROVE  TableInv'
<1>1. CASE TableNext
  BY <1>1, ProgramStep, OsExitStep DEF TableNext
<1>2. CASE UNCHANGED table
  <2>1. TableTypeOK'
    BY <1>2, SameLookup DEF table, TableInv, TableTypeOK
  <2>2. QED
    BY <1>2, <2>1, OtherFields DEF table
<1>3. QED
  BY <1>1, <1>2

LEMMA TableInvariant ==
  ASSUME NoRevival
  PROVE  TableSpec => []TableInv
<1>1. TableInit => TableInv
  BY TableInitInv, ThreadAssumption
<1>2. TableInv /\ [TableNext]_table => TableInv'
  BY TableNextInv, ThreadAssumption, NoRevival
<1>3. QED
  BY <1>1, <1>2, PTL DEF TableSpec

\* Whatever the program does with its threads, provided that no id belongs to
\* threads that are joined or detached and to one that registers itself again:
\* all records of an id but the first are of dead threads, and every record
\* that is not finished has a thread that pthread_kill finds.
THEOREM FirstRecordLive ==
  ASSUME NoRevival
  PROVE  TableSpec => []FirstIsLive
<1>1. TableInv => FirstIsLive
  BY DEF TableInv
<1>2. QED
  BY <1>1, TableInvariant, PTL

\* A registered thread finds the record with which it started, also when its
\* id belonged to others before it (GC_lookup_thread by pthread_self()).
THEOREM OwnRecordFound ==
  ASSUME NoRevival
  PROVE  TableSpec => []OwnRecord
<1>1. TableInv => OwnRecord
  BY DEF TableInv
<1>2. QED
  BY <1>1, TableInvariant, PTL

\* A finished record is that of a thread which may still be joined or
\* detached, or a call of pthread_join or pthread_detach is about to free it.
THEOREM RecordsFreed ==
  ASSUME NoRevival
  PROVE  TableSpec => []NoRecordLeak
<1>1. TableInv => NoRecordLeak
  BY DEF TableInv
<1>2. QED
  BY <1>1, TableInvariant, PTL

-----------------------------------------------------------------------------
(***************************************************************************)
(* GC_dont_gc counts the threads that disabled the collections.            *)
(***************************************************************************)

LEMMA RecordFinite ==
  ASSUME ThreadAssumption, ChainOK
  PROVE  IsFiniteSet(Disabling) /\ Cardinality(Disabling) \in Nat
<1>1. IsFiniteSet(Record)
  BY FS_Interval, ThreadAssumption DEF Record
<1>2. Disabling \subseteq Record
  BY KnownRecord DEF Disabling
<1>3. QED
  BY <1>1, <1>2, FS_Subset, FS_CardinalityType

\* Where no thread is added to those that disable, the count may stay.
LEMMA FewerDisabling ==
  ASSUME ThreadAssumption, TableInv, DisabledInv, Disabling' \subseteq Disabling,
         dont_gc' = dont_gc
  PROVE  (dont_gc >= Cardinality(Disabling))'
<1> PICK D, E : D = Disabling /\ E = Disabling'
  OBVIOUS
<1>1. IsFiniteSet(D) /\ Cardinality(D) \in Nat /\ E \subseteq D
  BY RecordFinite DEF TableInv
<1>2. Cardinality(E) \in Nat /\ Cardinality(E) <= Cardinality(D)
  BY <1>1, FS_Subset, FS_CardinalityType
<1>3. dont_gc \in Int /\ dont_gc >= Cardinality(D)
  BY DEF TableInv, TableTypeOK, DisabledInv
<1>4. QED
  BY <1>1, <1>2, <1>3

LEMMA DisableCount ==
  ASSUME ThreadAssumption, TableInv, DisabledInv, NEW i \in Id,
         Ops[i] \cap {"cancel", "pthread_exit"} # {}, DisableGC(GC_lookup_thread(i))
  PROVE  DisabledInv'
<1> PICK r : r = GC_lookup_thread(i)
  OBVIOUS
<1>1. r \in Known /\ Known \subseteq Record /\ rid[r] = i
  BY LookupType, KnownRecord DEF TableInv, DisableGC
<1>2. /\ Known' = Known /\ rid' = rid /\ dont_gc' = dont_gc + 1
      /\ \A q \in Known \ {r} : flags'[q] = flags[q]
  BY <1>1, SameLookup DEF DisableGC, TableInv, TableTypeOK
<1> PICK D, E : D = Disabling /\ E = Disabling'
  OBVIOUS
<1>3. E \subseteq D \cup {r}
  BY <1>1, <1>2 DEF Disabling, Finished
<1>4. IsFiniteSet(D) /\ Cardinality(D) \in Nat
  BY RecordFinite DEF TableInv
<1>5. IsFiniteSet(D \cup {r}) /\ Cardinality(D \cup {r}) <= Cardinality(D) + 1
  <2>1. /\ IsFiniteSet(D \cup {r})
        /\ Cardinality(D \cup {r}) = IF r \in D THEN Cardinality(D) ELSE Cardinality(D) + 1
    BY <1>4, FS_AddElement
  <2>2. QED
    BY <2>1, <1>4
<1>6. Cardinality(E) \in Nat /\ Cardinality(E) <= Cardinality(D \cup {r}) /\ Cardinality(D \cup {r}) \in Nat
  BY <1>3, <1>5, FS_Subset, FS_CardinalityType
<1>7. dont_gc \in Int /\ dont_gc >= Cardinality(D)
  BY DEF TableInv, TableTypeOK, DisabledInv
<1>8. (dont_gc >= Cardinality(Disabling))'
  BY <1>2, <1>4, <1>5, <1>6, <1>7
<1>9. \A q \in Known' : "DISABLED_GC" \in flags'[q] => Ops[rid'[q]] \cap {"cancel", "pthread_exit"} # {}
  BY <1>1, <1>2 DEF DisabledInv
<1>10. QED
  BY <1>8, <1>9 DEF DisabledInv

\* The exit procedure takes back what its thread has added.
LEMMA UnregisterCount ==
  ASSUME ThreadAssumption, TableInv, DisabledInv, NEW i \in Id, Registered(i),
         GC_unregister_my_thread_inner(GC_lookup_thread(i))
  PROVE  DisabledInv'
<1> PICK r : r = GC_lookup_thread(i)
  OBVIOUS
<1>1. r \in Known /\ Known \subseteq Record /\ rid[r] = i /\ ~Finished(r)
  BY LookupType, KnownRecord DEF TableInv, OwnRecord
<1>2. /\ dont_gc' = IF "DISABLED_GC" \in flags[r] THEN dont_gc - 1 ELSE dont_gc
      /\ \/ /\ chain' = Unlinked(r) /\ rid' = [rid EXCEPT ![r] = Main]
            /\ flags' = [flags EXCEPT ![r] = {}]
         \/ /\ flags' = [flags EXCEPT ![r] = @ \cup {"FINISHED"}] /\ UNCHANGED <<chain, rid>>
  BY <1>1 DEF GC_unregister_my_thread_inner, GC_delete_gc_thread
<1>3. /\ Known' \subseteq Known
      /\ \A q \in Known' : rid'[q] = rid[q]
      /\ \A q \in Known' : q # r => flags'[q] = flags[q]
      /\ r \in Known' => flags'[r] = flags[r] \cup {"FINISHED"}
  <2>1. CASE /\ chain' = Unlinked(r) /\ rid' = [rid EXCEPT ![r] = Main]
             /\ flags' = [flags EXCEPT ![r] = {}]
    <3>1. Known' = Known \ {r} /\ \A q \in Known \ {r} : rid'[q] = rid[q]
      BY <1>1, <2>1, Unlink, ThreadAssumption DEF TableInv, TableTypeOK
    <3>2. QED
      BY <3>1, <2>1, <1>1 DEF TableInv, TableTypeOK
  <2>2. CASE flags' = [flags EXCEPT ![r] = @ \cup {"FINISHED"}] /\ UNCHANGED <<chain, rid>>
    <3>1. Known' = Known
      BY <2>2, SameLookup
    <3>2. QED
      BY <3>1, <2>2, <1>1 DEF TableInv, TableTypeOK
  <2>3. QED
    BY <1>2, <2>1, <2>2
<1> PICK D, E : D = Disabling /\ E = Disabling'
  OBVIOUS
<1>4. E \subseteq D \ {r}
  BY <1>1, <1>3 DEF Disabling, Finished
<1>5. IsFiniteSet(D) /\ Cardinality(D) \in Nat
  BY RecordFinite DEF TableInv
<1>6. IsFiniteSet(D \ {r}) /\ Cardinality(D \ {r}) = IF r \in D THEN Cardinality(D) - 1 ELSE Cardinality(D)
  BY <1>5, FS_RemoveElement
<1>7. Cardinality(E) \in Nat /\ Cardinality(E) <= Cardinality(D \ {r}) /\ Cardinality(D \ {r}) \in Nat
  BY <1>4, <1>6, FS_Subset, FS_CardinalityType
<1>8. dont_gc \in Int /\ dont_gc >= Cardinality(D)
  BY DEF TableInv, TableTypeOK, DisabledInv
<1>9. r \in D <=> "DISABLED_GC" \in flags[r]
  BY <1>1 DEF Disabling
<1>10. (dont_gc >= Cardinality(Disabling))'
  BY <1>2, <1>5, <1>6, <1>7, <1>8, <1>9
<1>11. \A q \in Known' : "DISABLED_GC" \in flags'[q] => Ops[rid'[q]] \cap {"cancel", "pthread_exit"} # {}
  BY <1>1, <1>3 DEF DisabledInv
<1>12. QED
  BY <1>10, <1>11 DEF DisabledInv

\* A new record disables nothing.
LEMMA NewRecordCount ==
  ASSUME ThreadAssumption, TableInv, DisabledInv, NEW i \in Id, NEW fl \in {{}, {"DETACHED"}},
         GC_register_my_thread_inner(i, fl), dont_gc' = dont_gc
  PROVE  DisabledInv'
<1> PICK n : n = Fresh
  OBVIOUS
<1>1. /\ chain' = <<n>> \o chain /\ rid' = [rid EXCEPT ![n] = i]
      /\ flags' = [flags EXCEPT ![n] = fl] /\ n \in Record \ Known
  BY FreshFree DEF GC_register_my_thread_inner, TableInv
<1>2. Known' = Known \cup {n} /\ \A q \in Known : rid'[q] = rid[q]
  BY <1>1, Prepend DEF TableInv, TableTypeOK
<1>3. (\A q \in Known : flags'[q] = flags[q]) /\ "DISABLED_GC" \notin flags'[n]
  BY <1>1, KnownRecord DEF TableInv, TableTypeOK
<1>4. Disabling' \subseteq Disabling
  BY <1>2, <1>3 DEF Disabling, Finished
<1>5. QED
  BY <1>2, <1>3, <1>4, FewerDisabling DEF DisabledInv

\* A step that adds no record and no flag DISABLED_GC and revives none.
LEMMA NoneDisables ==
  ASSUME ThreadAssumption, TableInv, DisabledInv, Known' \subseteq Known, dont_gc' = dont_gc,
         \A q \in Known' : /\ rid'[q] = rid[q]
                           /\ "DISABLED_GC" \in flags'[q] =>
                                "DISABLED_GC" \in flags[q] /\ (Finished(q) => "FINISHED" \in flags'[q])
  PROVE  DisabledInv'
<1>1. Disabling' \subseteq Disabling
  BY DEF Disabling, Finished
<1>2. QED
  BY <1>1, FewerDisabling DEF DisabledInv

LEMMA DeleteCount ==
  ASSUME ThreadAssumption, TableInv, DisabledInv, NEW r \in Known, GC_delete_gc_thread(r),
         dont_gc' = dont_gc
  PROVE  DisabledInv'
<1>1. Known' = Known \ {r} /\ \A q \in Known \ {r} : rid'[q] = rid[q]
  BY Unlink, ThreadAssumption DEF GC_delete_gc_thread, TableInv, TableTypeOK
<1>2. \A q \in Known \ {r} : flags'[q] = flags[q]
  BY KnownRecord DEF GC_delete_gc_thread, TableInv, TableTypeOK
<1>3. QED
  BY <1>1, <1>2, NoneDisables DEF Finished

LEMMA DisabledStep ==
  ASSUME ThreadAssumption, NoRecount, TableInv, DisabledInv, NEW i \in Id, Program(i)
  PROVE  DisabledInv'
<1>1. CASE \E j \in Id, det \in BOOLEAN : pthread_create(i, j, det)
  <2>1. UNCHANGED <<chain, rid, flags, dont_gc>>
    BY <1>1 DEF pthread_create
  <2>2. QED
    BY <2>1, SameLookup, NoneDisables DEF Finished
<1>2. CASE GC_start_rtn_prepare_thread(i)
  <2>1. /\ GC_register_my_thread_inner(i, IF i \in released THEN {"DETACHED"} ELSE {})
        /\ dont_gc' = dont_gc
    BY <1>2 DEF GC_start_rtn_prepare_thread
  <2>2. QED
    BY <2>1, NewRecordCount
<1>3. CASE CreateReturns(i) \/ RealCall(i) \/ \E j \in Id : \E op \in {"join", "detach"} : LookUp(i, j, op)
  <2>1. UNCHANGED <<chain, rid, flags, dont_gc>>
    BY <1>3 DEF CreateReturns, RealCall, LookUp
  <2>2. QED
    BY <2>1, SameLookup, NoneDisables DEF Finished
<1>4. CASE "pthread_exit" \in Ops[i] /\ pthread_exit(i)
  BY <1>4, DisableCount DEF pthread_exit
<1>5. CASE GC_thread_exit_proc(i)
  <2>1. Registered(i) /\ mine[i] = GC_lookup_thread(i)
    BY <1>5 DEF GC_thread_exit_proc, TableInv, OwnRecord, Registered
  <2>2. QED
    BY <1>5, <2>1, UnregisterCount DEF GC_thread_exit_proc
<1>6. CASE GC_unregister_my_thread(i)
  BY <1>6, UnregisterCount DEF GC_unregister_my_thread, Registered
<1>7. CASE "again" \in Ops[i] /\ GC_register_my_thread(i)
  <2>1. CASE GC_register_my_thread_inner(i, {"DETACHED"})
    BY <1>7, <2>1, NewRecordCount DEF GC_register_my_thread
  <2>2. CASE /\ GC_lookup_thread(i) # 0
             /\ flags' = [flags EXCEPT ![GC_lookup_thread(i)] = @ \ {"FINISHED"}]
             /\ UNCHANGED <<chain, rid>>
    <3> PICK r : r = GC_lookup_thread(i)
      OBVIOUS
    <3>1. r \in Known /\ Known \subseteq Record /\ rid[r] = i /\ Known' = Known
      BY <2>2, LookupType, KnownRecord, SameLookup DEF TableInv
    <3>2. "DISABLED_GC" \notin flags[r]
      BY <1>7, <3>1 DEF NoRecount, DisabledInv
    <3>3. /\ \A q \in Known \ {r} : flags'[q] = flags[q]
          /\ "DISABLED_GC" \notin flags'[r]
      BY <2>2, <3>1, <3>2 DEF TableInv, TableTypeOK
    <3>4. dont_gc' = dont_gc
      BY <1>7 DEF GC_register_my_thread
    <3>5. QED
      BY <2>2, <3>1, <3>3, <3>4, NoneDisables DEF Finished
  <2>3. QED
    BY <1>7, <2>1, <2>2 DEF GC_register_my_thread
<1>8. CASE JoinReturns(i)
  <2>1. call[i].rec \in Known
    BY <1>8 DEF JoinReturns, TableInv, ClaimsOK, Claims
  <2>2. QED
    BY <1>8, <2>1, DeleteCount DEF JoinReturns
<1>9. CASE DetachReturns(i)
  <2>1. call[i].rec \in Known /\ Known \subseteq Record
    BY <1>9, KnownRecord DEF DetachReturns, TableInv, ClaimsOK, Claims
  <2>2. CASE GC_delete_gc_thread(call[i].rec)
    BY <1>9, <2>1, <2>2, DeleteCount DEF DetachReturns
  <2>3. CASE flags' = [flags EXCEPT ![call[i].rec] = @ \cup {"DETACHED"}] /\ UNCHANGED <<chain, rid, sp>>
    <3>1. Known' = Known
      BY <2>3, SameLookup
    <3>2. \A q \in Known : \A f \in {"DISABLED_GC", "FINISHED"} : f \in flags'[q] <=> f \in flags[q]
      BY <2>1, <2>3 DEF TableInv, TableTypeOK
    <3>3. dont_gc' = dont_gc
      BY <1>9 DEF DetachReturns
    <3>4. QED
      BY <2>3, <3>1, <3>2, <3>3, NoneDisables DEF Finished
  <2>4. QED
    BY <1>9, <2>2, <2>3 DEF DetachReturns
<1>10. CASE \E j \in Id : "cancel" \in Ops[j] /\ pthread_cancel(i, j)
  BY <1>10, DisableCount DEF pthread_cancel
<1>11. CASE GC_do_blocking(i) \/ BlockingReturns(i) \/ GC_call_with_gc_active(i) \/ ActiveReturns(i)
  <2>1. UNCHANGED <<chain, rid, flags, dont_gc>>
    BY <1>11 DEF GC_do_blocking, BlockingReturns, GC_call_with_gc_active, ActiveReturns
  <2>2. QED
    BY <2>1, SameLookup, NoneDisables DEF Finished
<1>12. QED
  BY <1>1, <1>2, <1>3, <1>4, <1>5, <1>6, <1>7, <1>8, <1>9, <1>10, <1>11 DEF Program

\* As long as a thread that was cancelled or called pthread_exit has not run
\* its exit procedure, collections are disabled (the comment on
\* pthread_cancel), for programs in which no such thread registers itself
\* again.
THEOREM DisabledHolds ==
  ASSUME NoRevival, NoRecount
  PROVE  TableSpec => []DisabledUntilExit
<1>1. TableInit => DisabledInv
  <2>1. SUFFICES ASSUME TableInit PROVE DisabledInv
    OBVIOUS
  <2>2. \A r \in Record : "DISABLED_GC" \notin flags[r]
    BY <2>1 DEF TableInit
  <2>3. Known \subseteq Record
    BY <2>1, TableInitInv, KnownRecord, ThreadAssumption DEF TableInv
  <2>4. Disabling = {}
    BY <2>2, <2>3 DEF Disabling
  <2>5. QED
    BY <2>1, <2>2, <2>3, <2>4, FS_EmptySet DEF DisabledInv, TableInit
<1>2. TableInv /\ DisabledInv /\ [TableNext]_table => DisabledInv'
  <2>1. SUFFICES ASSUME TableInv, DisabledInv, [TableNext]_table PROVE DisabledInv'
    OBVIOUS
  <2>2. CASE \E i \in Id : Program(i)
    BY <2>1, <2>2, DisabledStep, ThreadAssumption, NoRecount
  <2>3. CASE UNCHANGED <<chain, rid, flags, dont_gc>>
    BY <2>1, <2>3, SameLookup, NoneDisables, ThreadAssumption DEF Finished
  <2>4. QED
    BY <2>1, <2>2, <2>3 DEF TableNext, OsExit, table
<1>3. TableInv /\ DisabledInv => DisabledUntilExit
  <2>1. SUFFICES ASSUME TableInv, DisabledInv, Disabling # {}  PROVE dont_gc > 0
    BY DEF DisabledUntilExit, Disabling
  <2>2. IsFiniteSet(Disabling) /\ Cardinality(Disabling) \in Nat
    BY <2>1, RecordFinite, ThreadAssumption DEF TableInv
  <2>3. Cardinality(Disabling) # 0
    BY <2>1, <2>2, FS_EmptySet
  <2>4. QED
    BY <2>1, <2>2, <2>3 DEF DisabledInv, TableInv, TableTypeOK
<1>4. QED
  BY <1>1, <1>2, <1>3, TableInvariant, NoRevival, PTL DEF TableSpec

-----------------------------------------------------------------------------
(***************************************************************************)
(* StopWorld: the table, seen from a thread that takes no step.            *)
(***************************************************************************)

\* What a step of thread i leaves to the others.
Others(i) ==
  \A j \in Id \ {i} :
    /\ Registered(j)' = Registered(j)
    /\ Registered(j) =>
         /\ GC_lookup_thread(j)' = GC_lookup_thread(j)
         /\ blocked'[GC_lookup_thread(j)] = blocked[GC_lookup_thread(j)]
         /\ sp'[GC_lookup_thread(j)] = sp[GC_lookup_thread(j)]

\* A registered thread has a record, and no other thread finds it.
LEMMA OwnRecords ==
  ASSUME TableInv, NEW i \in Id, Registered(i), NEW r, r = GC_lookup_thread(i)
  PROVE  /\ r \in Known /\ r \in Record /\ rid[r] = i /\ ~Finished(r) /\ r # 0
         /\ \A j \in Id : Registered(j) /\ GC_lookup_thread(j) = r => j = i
<1>1. \A j \in Id : Registered(j) => rid[GC_lookup_thread(j)] = j
  BY LookupType DEF TableInv, OwnRecord
<1>2. r \in Known /\ r # 0 /\ ~Finished(r)
  BY LookupType DEF TableInv, OwnRecord
<1>3. r \in Record
  BY <1>2, KnownRecord DEF TableInv
<1>4. QED
  BY <1>1, <1>2, <1>3

\* The record of a thread stays the first with its id if nobody takes it out.
LEMMA StaysFirst ==
  ASSUME TableInv, TableInv', NEW j \in Id, Registered(j), NEW r, r = GC_lookup_thread(j),
         r \in Known', ~Finished(r)', rid'[r] = j
  PROVE  Registered(j)' /\ GC_lookup_thread(j)' = r
<1>1. FirstIsLive'
  BY DEF TableInv
<1>2. Registered(j)'
  BY <1>1 DEF FirstIsLive, Registered
<1>3. GC_lookup_thread(j)' = r
  BY <1>1 DEF FirstIsLive
<1>4. QED
  BY <1>2, <1>3

\* A step that leaves the records of the registered threads alone.
LEMMA RecordsKept ==
  ASSUME TableInv, TableInv', NEW i \in Id,
         \A j \in Id \ {i} : Registered(j)' => Registered(j),
         \A r \in Known : ~Finished(r) /\ rid[r] # i =>
           /\ r \in Known' /\ ~Finished(r)' /\ rid'[r] = rid[r]
           /\ blocked'[r] = blocked[r] /\ sp'[r] = sp[r]
  PROVE  Others(i)
<1>1. ASSUME NEW j \in Id \ {i}, Registered(j)
      PROVE  /\ Registered(j)' /\ GC_lookup_thread(j)' = GC_lookup_thread(j)
             /\ blocked'[GC_lookup_thread(j)] = blocked[GC_lookup_thread(j)]
             /\ sp'[GC_lookup_thread(j)] = sp[GC_lookup_thread(j)]
  <2>1. PICK r : r = GC_lookup_thread(j)
    OBVIOUS
  <2>2. r \in Known /\ rid[r] = j /\ ~Finished(r)
    BY <1>1, <2>1, OwnRecords
  <2>3. /\ r \in Known' /\ ~Finished(r)' /\ rid'[r] = j
        /\ blocked'[r] = blocked[r] /\ sp'[r] = sp[r]
    BY <1>1, <2>2
  <2>4. Registered(j)' /\ GC_lookup_thread(j)' = r
    BY <1>1, <2>1, <2>3, StaysFirst
  <2>5. QED
    BY <2>1, <2>3, <2>4
<1>2. ASSUME NEW j \in Id \ {i} PROVE Registered(j)' = Registered(j)
  <2>1. Registered(j)' <=> Registered(j)
    BY <1>1, <1>2
  <2>2. Registered(j) \in BOOLEAN /\ Registered(j)' \in BOOLEAN
    BY DEF Registered
  <2>3. QED
    BY <2>1, <2>2
<1>3. QED
  BY <1>1, <1>2 DEF Others

\* Registration by thread i with a new record.
LEMMA NewRecordKeeps ==
  ASSUME TableInv, NEW i \in Id, NEW fl, GC_register_my_thread_inner(i, fl)
  PROVE  /\ Fresh \in Record \ Known /\ Known' = Known \cup {Fresh}
         /\ \A r \in Known : /\ ~Finished(r) => ~Finished(r)'
                             /\ rid'[r] = rid[r] /\ blocked'[r] = blocked[r] /\ sp'[r] = sp[r]
<1>1. PICK n : n = Fresh
  OBVIOUS
<1>2. n \in Record \ Known
  BY <1>1, ThreadAssumption, FreshFree DEF GC_register_my_thread_inner, TableInv
<1>3. /\ chain' = <<n>> \o chain /\ rid' = [rid EXCEPT ![n] = i] /\ flags' = [flags EXCEPT ![n] = fl]
      /\ UNCHANGED <<blocked, sp>>
  BY <1>1 DEF GC_register_my_thread_inner
<1>4. ChainOK /\ rid \in [Record -> Id] /\ flags \in [Record -> SUBSET Flag] /\ Known \subseteq Record
  BY KnownRecord DEF TableInv, TableTypeOK
<1>5. Known' = Known \cup {n}
  BY <1>2, <1>3, <1>4, Prepend DEF TableInv, TableTypeOK
<1>6. QED
  BY <1>1, <1>2, <1>3, <1>4, <1>5 DEF Finished

\* A record is freed.
LEMMA FreedKeeps ==
  ASSUME TableInv, NEW q \in Known, GC_delete_gc_thread(q), UNCHANGED blocked
  PROVE  /\ Known' = Known \ {q}
         /\ \A r \in Known \ {q} : /\ flags'[r] = flags[r] /\ rid'[r] = rid[r]
                                   /\ blocked'[r] = blocked[r] /\ sp'[r] = sp[r]
<1>1. /\ ChainOK /\ rid \in [Record -> Id] /\ flags \in [Record -> SUBSET Flag] /\ Known \subseteq Record
      /\ sp \in [Record -> Saved]
      /\ \A k, l \in 1 .. Len(chain) : k # l => chain[k] # chain[l]
  BY KnownRecord DEF TableInv, TableTypeOK
<1>2. /\ chain' = Unlinked(q) /\ rid' = [rid EXCEPT ![q] = Main]
      /\ flags' = [flags EXCEPT ![q] = {}] /\ sp' = [sp EXCEPT ![q] = "base"]
  BY DEF GC_delete_gc_thread
<1>3. Known' = Known \ {q}
  BY <1>1, <1>2, ThreadAssumption, Unlink
<1>4. QED
  BY <1>1, <1>2, <1>3

\* Thread i unregisters: only its own record is marked or freed.
LEMMA UnregisterKeeps ==
  ASSUME TableInv, NEW i \in Id, Registered(i), UNCHANGED blocked,
         GC_unregister_my_thread_inner(GC_lookup_thread(i))
  PROVE  /\ Known' \subseteq Known
         /\ \A r \in Known : rid[r] # i =>
              /\ r \in Known' /\ flags'[r] = flags[r] /\ rid'[r] = rid[r]
              /\ blocked'[r] = blocked[r] /\ sp'[r] = sp[r]
<1>1. PICK q : q = GC_lookup_thread(i)
  OBVIOUS
<1>2. q \in Known /\ rid[q] = i
  BY <1>1, OwnRecords
<1>3. CASE "DETACHED" \in flags[q]
  <2>1. GC_delete_gc_thread(q)
    BY <1>1, <1>2, <1>3 DEF GC_unregister_my_thread_inner
  <2>2. QED
    BY <1>2, <2>1, FreedKeeps
<1>4. CASE "DETACHED" \notin flags[q]
  <2>1. flags' = [flags EXCEPT ![q] = @ \cup {"FINISHED"}] /\ UNCHANGED <<chain, rid, sp>>
    BY <1>1, <1>4 DEF GC_unregister_my_thread_inner
  <2>2. Known' = Known
    BY <2>1, SameLookup
  <2>3. flags \in [Record -> SUBSET Flag] /\ Known \subseteq Record
    BY KnownRecord DEF TableInv, TableTypeOK
  <2>4. QED
    BY <1>2, <2>1, <2>2, <2>3
<1>5. QED
  BY <1>3, <1>4

-----------------------------------------------------------------------------
(***************************************************************************)
(* A step of the program in thread i: the records of the other threads are *)
(* as before, and the records of threads in blocking regions are sound.    *)
(***************************************************************************)

Kept(i) ==
  \A r \in Known : ~Finished(r) /\ rid[r] # i =>
    /\ r \in Known' /\ ~Finished(r)' /\ rid'[r] = rid[r]
    /\ blocked'[r] = blocked[r] /\ sp'[r] = sp[r]

LEMMA BlockedSame ==
  ASSUME TableInv, BlockedOK, NEW i \in Id, UNCHANGED <<chain, rid, blocked, sp, sect>>,
         \A r \in Known : Finished(r)' <=> Finished(r)
  PROVE  Kept(i) /\ BlockedOK'
<1>1. Known' = Known
  BY SameLookup
<1>2. QED
  BY <1>1 DEF Kept, BlockedOK

LEMMA BlockedNew ==
  ASSUME TableInv, BlockedOK, NEW i \in Id, NEW fl, GC_register_my_thread_inner(i, fl), sect' = sect
  PROVE  Kept(i) /\ BlockedOK'
<1>1. /\ Known' = Known \cup {Fresh} /\ blocked' = blocked
      /\ \A r \in Known : /\ ~Finished(r) => ~Finished(r)'
                          /\ rid'[r] = rid[r] /\ blocked'[r] = blocked[r] /\ sp'[r] = sp[r]
  BY NewRecordKeeps DEF GC_register_my_thread_inner
<1>2. Kept(i)
  BY <1>1 DEF Kept
<1>3. BlockedOK'
  BY <1>1 DEF BlockedOK
<1>4. QED
  BY <1>2, <1>3

\* A record that is freed is not that of a thread in a blocking region.
LEMMA BlockedFreed ==
  ASSUME TableInv, BlockedOK, NEW i \in Id, NEW q \in Known, ~blocked[q], Finished(q) \/ rid[q] = i,
         GC_delete_gc_thread(q), UNCHANGED <<blocked, sect>>
  PROVE  Kept(i) /\ BlockedOK'
<1>1. /\ Known' = Known \ {q}
      /\ \A r \in Known \ {q} : /\ flags'[r] = flags[r] /\ rid'[r] = rid[r]
                                /\ blocked'[r] = blocked[r] /\ sp'[r] = sp[r]
  BY FreedKeeps
<1>2. Kept(i)
  BY <1>1 DEF Kept, Finished
<1>3. BlockedOK'
  BY <1>1 DEF BlockedOK, Finished
<1>4. QED
  BY <1>2, <1>3

LEMMA BlockedUnregister ==
  ASSUME TableInv, BlockedOK, NEW i \in Id, Registered(i), ~blocked[GC_lookup_thread(i)],
         GC_unregister_my_thread_inner(GC_lookup_thread(i)), UNCHANGED <<blocked, sect>>
  PROVE  Kept(i) /\ BlockedOK'
<1>1. \A r \in Known : rid[r] # i =>
        /\ r \in Known' /\ flags'[r] = flags[r] /\ rid'[r] = rid[r]
        /\ blocked'[r] = blocked[r] /\ sp'[r] = sp[r]
  BY UnregisterKeeps
<1>2. \A r \in Record : blocked[r] => rid[r] # i
  BY DEF BlockedOK, TableInv, FirstIsLive
<1>3. QED
  BY <1>1, <1>2 DEF Kept, BlockedOK, Finished

\* The record of a dead thread is revived.
LEMMA BlockedRevived ==
  ASSUME TableInv, BlockedOK, NEW i \in Id, NEW q \in Known, Finished(q), rid[q] = i,
         flags' = [flags EXCEPT ![q] = @ \ {"FINISHED"}], sp' = [sp EXCEPT ![q] = "base"],
         UNCHANGED <<chain, rid, blocked, sect>>
  PROVE  Kept(i) /\ BlockedOK'
<1>1. Known' = Known
  BY SameLookup
<1>2. Known \subseteq Record /\ flags \in [Record -> SUBSET Flag] /\ sp \in [Record -> Saved]
  BY DEF TableInv, TableTypeOK
<1>3. \A r \in Known \ {q} : flags'[r] = flags[r] /\ sp'[r] = sp[r]
  BY <1>2
<1>4. ~blocked[q]
  BY <1>2 DEF BlockedOK
<1>5. QED
  BY <1>1, <1>3, <1>4 DEF Kept, BlockedOK, Finished

\* The bounds of a blocking region, and of a section in which the collector
\* is active again.
LEMMA BlockedRegion ==
  ASSUME TableInv, BlockedOK, NEW i \in Id,
         \/ GC_do_blocking(i) \/ BlockingReturns(i) \/ GC_call_with_gc_active(i) \/ ActiveReturns(i)
  PROVE  Kept(i) /\ BlockedOK'
<1>1. PICK q : q = GC_lookup_thread(i)
  OBVIOUS
<1>2. Registered(i) /\ UNCHANGED <<chain, rid, flags>>
  BY DEF GC_do_blocking, BlockingReturns, GC_call_with_gc_active, ActiveReturns, Idle, Blocking
<1>3. q \in Known /\ q \in Record /\ rid[q] = i /\ ~Finished(q)
  BY <1>1, <1>2, OwnRecords
<1>4. Known' = Known /\ \A r : Finished(r)' = Finished(r)
  BY <1>2, SameLookup DEF Finished
<1>5. /\ Known \subseteq Record /\ blocked \in [Record -> BOOLEAN] /\ sp \in [Record -> Saved]
      /\ sect \in [Id -> Saved]
  BY DEF TableInv, TableTypeOK
<1>6. \A r \in Record : blocked[r] => r \in Known /\ ~Finished(r) /\ sp[r] = "blocking"
  BY DEF BlockedOK
<1>7. \A j \in Id : sect[j] \in {"base", "blocking"}
  BY DEF BlockedOK
<1>8. /\ \A r \in Record \ {q} : blocked'[r] = blocked[r] /\ sp'[r] = sp[r]
      /\ blocked'[q] => sp'[q] = "blocking"
      /\ \A j \in Id : sect'[j] \in {"base", "blocking"}
  <2>1. CASE GC_do_blocking(i)
    <3>1. /\ sp' = [sp EXCEPT ![q] = "blocking"] /\ blocked' = [blocked EXCEPT ![q] = TRUE]
          /\ sect' = sect
      BY <1>1, <2>1 DEF GC_do_blocking
    <3>2. QED
      BY <1>3, <1>5, <1>7, <3>1
  <2>2. CASE BlockingReturns(i)
    <3>1. /\ sp' = [sp EXCEPT ![q] = "stale"] /\ blocked' = [blocked EXCEPT ![q] = FALSE]
          /\ sect' = sect
      BY <1>1, <2>2 DEF BlockingReturns
    <3>2. QED
      BY <1>3, <1>5, <1>7, <3>1
  <2>3. CASE GC_call_with_gc_active(i)
    <3>1. /\ sp' = [sp EXCEPT ![q] = "stale"] /\ blocked' = [blocked EXCEPT ![q] = FALSE]
          /\ sect' = [sect EXCEPT ![i] = sp[q]] /\ blocked[q]
      BY <1>1, <2>3 DEF GC_call_with_gc_active, Blocking
    <3>2. sp[q] = "blocking"
      BY <1>3, <1>6, <3>1
    <3>3. QED
      BY <1>3, <1>5, <1>7, <3>1, <3>2
  <2>4. CASE ActiveReturns(i)
    <3>1. /\ sp' = [sp EXCEPT ![q] = sect[i]] /\ blocked' = [blocked EXCEPT ![q] = TRUE]
          /\ sect' = [sect EXCEPT ![i] = "base"] /\ sect[i] # "base"
      BY <1>1, <2>4 DEF ActiveReturns
    <3>2. sect[i] = "blocking"
      BY <1>7, <3>1
    <3>3. QED
      BY <1>3, <1>5, <1>7, <3>1, <3>2
  <2>5. QED
    BY <2>1, <2>2, <2>3, <2>4
<1>9. Kept(i)
  BY <1>2, <1>3, <1>4, <1>5, <1>8 DEF Kept
<1>10. BlockedOK'
  BY <1>3, <1>4, <1>6, <1>8 DEF BlockedOK
<1>11. QED
  BY <1>9, <1>10

LEMMA ProgramKept ==
  ASSUME TableInv, BlockedOK, NEW i \in Id, Program(i)
  PROVE  Kept(i) /\ BlockedOK'
<1>1. CASE \/ \E j \in Id, det \in BOOLEAN : pthread_create(i, j, det)
           \/ CreateReturns(i) \/ RealCall(i)
           \/ \E j \in Id : \E op \in {"join", "detach"} : LookUp(i, j, op)
  <2>1. UNCHANGED <<chain, rid, flags, blocked, sp, sect>>
    BY <1>1 DEF pthread_create, CreateReturns, RealCall, LookUp
  <2>2. QED
    BY <2>1, BlockedSame DEF Finished
<1>2. CASE GC_start_rtn_prepare_thread(i)
  BY <1>2, BlockedNew DEF GC_start_rtn_prepare_thread
<1>3. CASE \/ pthread_exit(i) \/ \E j \in Id : pthread_cancel(i, j)
  <2>1. PICK j \in Id : DisableGC(GC_lookup_thread(j))
    BY <1>3 DEF pthread_exit, pthread_cancel
  <2>2. UNCHANGED <<chain, rid, blocked, sp, sect>>
    BY <2>1 DEF DisableGC
  <2>3. \A r \in Known : Finished(r)' <=> Finished(r)
    BY <2>1 DEF DisableGC, Finished, TableInv, TableTypeOK
  <2>4. QED
    BY <2>2, <2>3, BlockedSame
<1>4. CASE GC_thread_exit_proc(i)
  <2>1. Registered(i) /\ mine[i] = GC_lookup_thread(i) /\ ~blocked[GC_lookup_thread(i)]
    BY <1>4 DEF GC_thread_exit_proc, TableInv, OwnRecord, Registered, Idle
  <2>2. QED
    BY <1>4, <2>1, BlockedUnregister DEF GC_thread_exit_proc
<1>5. CASE GC_unregister_my_thread(i)
  BY <1>5, BlockedUnregister DEF GC_unregister_my_thread, Idle
<1>6. CASE GC_register_my_thread(i)
  <2>1. CASE GC_register_my_thread_inner(i, {"DETACHED"})
    BY <1>6, <2>1, BlockedNew DEF GC_register_my_thread
  <2>2. CASE ~GC_register_my_thread_inner(i, {"DETACHED"})
    <3>1. PICK q : q = GC_lookup_thread(i)
      OBVIOUS
    <3>2. /\ q # 0 /\ Finished(q) /\ flags' = [flags EXCEPT ![q] = @ \ {"FINISHED"}]
          /\ sp' = [sp EXCEPT ![q] = "base"] /\ UNCHANGED <<chain, rid, blocked, sect>>
      BY <1>6, <2>2, <3>1 DEF GC_register_my_thread
    <3>3. q \in Known /\ rid[q] = i
      BY <3>1, <3>2, LookupType DEF TableInv
    <3>4. QED
      BY <3>2, <3>3, BlockedRevived
  <2>3. QED
    BY <2>1, <2>2
<1>7. CASE JoinReturns(i) \/ DetachReturns(i)
  <2>1. PICK q : q = call[i].rec
    OBVIOUS
  <2>2. /\ q \in Known /\ q \in Record /\ UNCHANGED <<blocked, sect>>
        /\ JoinReturns(i) => Finished(q) /\ GC_delete_gc_thread(q)
    BY <1>7, <2>1, KnownRecord DEF JoinReturns, DetachReturns, TableInv, ClaimsOK, Claims
  <2>3. CASE Finished(q)
    <3>1. GC_delete_gc_thread(q)
      BY <1>7, <2>1, <2>2, <2>3 DEF DetachReturns
    <3>2. ~blocked[q]
      BY <2>2, <2>3 DEF BlockedOK
    <3>3. QED
      BY <2>2, <2>3, <3>1, <3>2, BlockedFreed
  <2>4. CASE ~Finished(q)
    <3>1. flags' = [flags EXCEPT ![q] = @ \cup {"DETACHED"}] /\ UNCHANGED <<chain, rid, sp>>
      BY <1>7, <2>1, <2>2, <2>4 DEF DetachReturns
    <3>2. \A r \in Known : Finished(r)' <=> Finished(r)
      BY <2>2, <3>1 DEF Finished, TableInv, TableTypeOK
    <3>3. QED
      BY <2>2, <3>1, <3>2, BlockedSame
  <2>5. QED
    BY <2>3, <2>4
<1>8. CASE GC_do_blocking(i) \/ BlockingReturns(i) \/ GC_call_with_gc_active(i) \/ ActiveReturns(i)
  BY <1>8, BlockedRegion
<1>9. QED
  BY <1>1, <1>2, <1>3, <1>4, <1>5, <1>6, <1>7, <1>8 DEF Program

\* A thread is registered or unregistered only by itself.
LEMMA ProgramRegisters ==
  ASSUME TableInv, NEW i \in Id, Program(i)
  PROVE  \A j \in Id \ {i} : Registered(j)' => Registered(j)
<1> USE DEF TableInv, TableTypeOK
<1>1. CASE \E j \in Id, det \in BOOLEAN : pthread_create(i, j, det)
  BY <1>1 DEF pthread_create, Registered
<1>2. CASE GC_start_rtn_prepare_thread(i)
  BY <1>2 DEF GC_start_rtn_prepare_thread, Registered
<1>3. CASE GC_thread_exit_proc(i)
  BY <1>3 DEF GC_thread_exit_proc, Registered
<1>4. CASE GC_unregister_my_thread(i) \/ GC_register_my_thread(i)
  BY <1>4 DEF GC_unregister_my_thread, GC_register_my_thread, Registered
<1>5. CASE RealCall(i)
  BY <1>5 DEF RealCall, Registered
<1>6. CASE os' = os
  BY <1>6 DEF Registered
<1>7. CASE \/ CreateReturns(i) \/ JoinReturns(i) \/ DetachReturns(i)
           \/ \E j \in Id : \E op \in {"join", "detach"} : LookUp(i, j, op)
  BY <1>6, <1>7 DEF CreateReturns, JoinReturns, DetachReturns, LookUp
<1>8. CASE pthread_exit(i) \/ \E j \in Id : pthread_cancel(i, j)
  BY <1>6, <1>8 DEF pthread_exit, pthread_cancel, DisableGC
<1>9. CASE GC_do_blocking(i) \/ BlockingReturns(i) \/ GC_call_with_gc_active(i) \/ ActiveReturns(i)
  BY <1>6, <1>9 DEF GC_do_blocking, BlockingReturns, GC_call_with_gc_active, ActiveReturns
<1>10. QED
  BY <1>1, <1>2, <1>3, <1>4, <1>5, <1>7, <1>8, <1>9 DEF Program

LEMMA ProgramOthers ==
  ASSUME ThreadAssumption, NoRevival, TableInv, BlockedOK, NEW i \in Id, Program(i)
  PROVE  TableInv' /\ BlockedOK' /\ Others(i)
<1>1. TableInv'
  BY ProgramStep
<1>2. Kept(i) /\ BlockedOK'
  BY ProgramKept
<1>3. \A j \in Id \ {i} : Registered(j)' => Registered(j)
  BY ProgramRegisters
<1>4. Others(i)
  BY <1>1, <1>2, <1>3, RecordsKept DEF Kept
<1>5. QED
  BY <1>1, <1>2, <1>4

\* The program takes the lock for whole steps; only a new thread that has
\* collected still holds it, and its registration releases it.
LEMMA ProgramLock ==
  ASSUME NEW i \in Id, Program(i)
  PROVE  lock' = lock \/ (lock = i /\ lock' = NoThread)
<1>1. CASE GC_start_rtn_prepare_thread(i)
  BY <1>1 DEF GC_start_rtn_prepare_thread
<1>2. CASE ~GC_start_rtn_prepare_thread(i)
  BY <1>2 DEF Program, pthread_create, CreateReturns, pthread_exit, DisableGC,
              GC_thread_exit_proc, GC_unregister_my_thread, GC_register_my_thread, LookUp, RealCall,
              JoinReturns, DetachReturns, pthread_cancel, GC_do_blocking, BlockingReturns,
              GC_call_with_gc_active, ActiveReturns
<1>3. QED
  BY <1>1, <1>2

\* While another thread holds the lock, the program can only be in the calls
\* of the thread library.
LEMMA ProgramLocked ==
  ASSUME NEW i \in Id, Program(i), lock # NoThread, lock # i
  PROVE  RealCall(i)
BY DEF Program, pthread_create, GC_start_rtn_prepare_thread, CreateReturns, pthread_exit,
       GC_thread_exit_proc, GC_unregister_my_thread, GC_register_my_thread, LookUp,
       JoinReturns, DetachReturns, pthread_cancel, GC_do_blocking, BlockingReturns,
       GC_call_with_gc_active, ActiveReturns

\* They leave all records and the registered threads alone.
LEMMA RealCallSame ==
  ASSUME TableInv, NEW i \in Id, RealCall(i)
  PROVE  /\ UNCHANGED <<mine, chain, rid, flags, blocked, sp, sect, dont_gc, lock>>
         /\ Known' = Known
         /\ \A r : Finished(r)' = Finished(r)
         /\ \A j \in Id : Registered(j)' = Registered(j) /\ GC_lookup_thread(j)' = GC_lookup_thread(j)
<1>1. UNCHANGED <<mine, chain, rid, flags, blocked, sp, sect, dont_gc, lock>>
  BY DEF RealCall
<1>2. Known' = Known /\ \A j : GC_lookup_thread(j)' = GC_lookup_thread(j)
  BY <1>1, SameLookup
<1>3. \A j \in Id : Registered(j)' = Registered(j)
  BY DEF RealCall, Registered, TableInv, TableTypeOK
<1>4. QED
  BY <1>1, <1>2, <1>3 DEF Finished

-----------------------------------------------------------------------------
(***************************************************************************)
(* The invariant, action by action.                                        *)
(***************************************************************************)

\* The handler and the collector leave the table alone but for sp and lock.
SameTable ==
  /\ UNCHANGED <<os, released, mine, call, chain, rid, flags, blocked, sect, dont_gc>>
  /\ Known' = Known
  /\ \A r : Finished(r)' = Finished(r)
  /\ \A j : Registered(j)' = Registered(j) /\ GC_lookup_thread(j)' = GC_lookup_thread(j)

LEMMA TableKept ==
  ASSUME TableInv, UNCHANGED <<os, released, mine, call, chain, rid, flags, blocked, sect, dont_gc>>,
         sp' \in [Record -> Saved], lock' \in Id \cup {NoThread}
  PROVE  TableInv' /\ SameTable
<1>1. Known' = Known /\ \A j : GC_lookup_thread(j)' = GC_lookup_thread(j)
  BY SameLookup
<1>2. TableTypeOK'
  BY <1>1 DEF TableInv, TableTypeOK
<1>3. TableInv'
  BY <1>2, OtherFields
<1>4. SameTable
  BY <1>1 DEF SameTable, Finished, Registered
<1>5. QED
  BY <1>3, <1>4

\* A step of the handler in a thread that found its record.
LEMMA HandlerTable ==
  ASSUME IInv, NEW i \in Id, Registered(i), HandlerFrame,
         \/ sp' = sp
         \/ /\ ~blocked[GC_lookup_thread(i)]
            /\ \E v \in Saved : sp' = [sp EXCEPT ![GC_lookup_thread(i)] = v]
  PROVE  /\ TableInv' /\ SameTable /\ BlockedOK'
         /\ \A j \in Id \ {i} : Registered(j) => sp'[GC_lookup_thread(j)] = sp[GC_lookup_thread(j)]
<1>0. TableInv /\ BlockedOK /\ sp \in [Record -> Saved] /\ lock \in Id \cup {NoThread}
  BY DEF IInv, TypeOK, TableTypeOK
<1>1. PICK q : q = GC_lookup_thread(i)
  OBVIOUS
<1>2. /\ q \in Known /\ q \in Record
      /\ \A j \in Id : Registered(j) /\ GC_lookup_thread(j) = q => j = i
  BY <1>0, <1>1, OwnRecords
<1>3. sp' \in [Record -> Saved]
  BY <1>0, <1>1, <1>2
<1>4. TableInv' /\ SameTable
  BY <1>0, <1>3, TableKept DEF HandlerFrame
<1>5. \A r \in Record : r # q \/ blocked[r] => sp'[r] = sp[r]
  BY <1>0, <1>1, <1>2
<1>6. \A j \in Id : Registered(j) => GC_lookup_thread(j) \in Record
  BY <1>0, OwnRecords
<1>7. BlockedOK'
  BY <1>0, <1>4, <1>5 DEF BlockedOK, SameTable
<1>8. \A j \in Id \ {i} : Registered(j) => sp'[GC_lookup_thread(j)] = sp[GC_lookup_thread(j)]
  BY <1>2, <1>5, <1>6
<1>9. QED
  BY <1>4, <1>7, <1>8

\* A step of the collector.
LEMMA CollectorTable ==
  ASSUME IInv, CollectorFrame, lock' \in Id \cup {NoThread}
  PROVE  TableInv' /\ SameTable /\ BlockedOK'
<1>0. TableInv /\ BlockedOK /\ sp \in [Record -> Saved]
  BY DEF IInv, TypeOK, TableTypeOK
<1>1. TableInv' /\ SameTable
  BY <1>0, TableKept DEF CollectorFrame
<1>2. BlockedOK'
  BY <1>0, <1>1 DEF BlockedOK, SameTable, CollectorFrame
<1>3. QED
  BY <1>1, <1>2

\* A signal is delivered: the thread still owes its acknowledgement.
LEMMA DeliverStep ==
  ASSUME IInv, NEW i \in Id, Deliver(i)
  PROVE  IInv'
<1>0. /\ TypeOK /\ LockOK /\ HandlerOK /\ CountOK /\ LastOK /\ TodoOK
      /\ hpc \in [Id -> HPC]
  BY DEF IInv, TypeOK
<1>1. /\ hpc[i] = "out" /\ i \in suspend /\ hpc' = [hpc EXCEPT ![i] = "load"]
      /\ suspend' = suspend \ {i}
      /\ UNCHANGED <<my, restart, sem, last, sp>> /\ HandlerFrame
  BY DEF Deliver
<1>2. Registered(i) /\ ~blocked[GC_lookup_thread(i)]
  BY <1>0, <1>1 DEF HandlerOK
<1>3. TableInv' /\ SameTable /\ BlockedOK'
  BY <1>1, <1>2, HandlerTable
<1>4. TypeOK'
  BY <1>0, <1>1, <1>3 DEF TypeOK, TableInv, HPC, SameTable, HandlerFrame
<1>5. \A j \in Id : hpc'[j] = IF j = i THEN "load" ELSE hpc[j]
  BY <1>0, <1>1
<1>6. Owing' = Owing
  BY <1>1, <1>5 DEF Owing
<1>7. \A j \in Id : /\ Acked(j)' <=> Acked(j)
                    /\ j = i => ~Acked(j)
  BY <1>1, <1>5 DEF Acked
<1>8. LockOK'
  BY <1>0, <1>1, <1>5 DEF LockOK, HandlerFrame
<1>9. HandlerOK'
  BY <1>0, <1>1, <1>2, <1>3, <1>5, <1>7 DEF HandlerOK, HandlerFrame, SameTable
<1>10. CountOK'
  BY <1>0, <1>1, <1>6 DEF CountOK, HandlerFrame
<1>11. LastOK'
  BY <1>0, <1>1, <1>3, <1>6 DEF LastOK, HandlerFrame, SameTable
<1>12. TodoOK'
  BY <1>0, <1>1, <1>3, <1>6, <1>7 DEF TodoOK, HandlerFrame, SameTable
<1>13. QED
  BY <1>3, <1>4, <1>8, <1>9, <1>10, <1>11, <1>12 DEF IInv

\* No thread that owes an acknowledgement has stored the current count: the
\* test for a duplicate signal fails.
LEMMA LoadCountStep ==
  ASSUME IInv, NEW i \in Id, LoadCount(i)
  PROVE  IInv'
<1>0. /\ TypeOK /\ LockOK /\ HandlerOK /\ CountOK /\ LastOK /\ TodoOK /\ TableInv
      /\ hpc \in [Id -> HPC] /\ my \in [Id -> Nat] /\ sp \in [Record -> Saved] /\ stop_count \in Nat
  BY DEF IInv, TypeOK, TableTypeOK
<1>1. hpc[i] = "load" /\ i \in Owing /\ UNCHANGED <<restart, sem, last>> /\ HandlerFrame
  BY DEF LoadCount, Owing
<1>2. PICK q : q = GC_lookup_thread(i)
  OBVIOUS
<1>3. last[q] < stop_count /\ last \in [Record -> Nat]
  BY <1>0, <1>1, <1>2 DEF LastOK, TypeOK
<1>4. Registered(i) /\ ~blocked[q] /\ q \in Record
  BY <1>0, <1>1, <1>2, OwnRecords DEF HandlerOK
<1>5. /\ my' = [my EXCEPT ![i] = stop_count] /\ hpc' = [hpc EXCEPT ![i] = "post"]
      /\ sp' = [sp EXCEPT ![q] = "handler"] /\ UNCHANGED suspend
  BY <1>2, <1>3, <1>4 DEF LoadCount
<1>6. /\ TableInv' /\ SameTable /\ BlockedOK'
      /\ \A j \in Id \ {i} : Registered(j) => sp'[GC_lookup_thread(j)] = sp[GC_lookup_thread(j)]
  BY <1>1, <1>2, <1>4, <1>5, HandlerTable DEF Saved
<1>7. TypeOK'
  BY <1>0, <1>1, <1>5, <1>6 DEF TypeOK, TableInv, HPC, SameTable, HandlerFrame
<1>8. \A j \in Id : /\ hpc'[j] = IF j = i THEN "post" ELSE hpc[j]
                    /\ my'[j] = IF j = i THEN stop_count ELSE my[j]
  BY <1>0, <1>5
<1>9. Owing' = Owing
  BY <1>1, <1>5, <1>8 DEF Owing
<1>10. \A j \in Id : Acked(j)' <=> Acked(j) /\ j # i
  BY <1>1, <1>8 DEF Acked
<1>11. LockOK'
  BY <1>0, <1>1, <1>5, <1>8 DEF LockOK, HandlerFrame
<1>12. sp'[q] = "handler"
  BY <1>0, <1>4, <1>5
<1>13. ~Acked(i) /\ i \notin suspend
  BY <1>0, <1>1 DEF Acked, HandlerOK
<1>14. HandlerOK'
  BY <1>0, <1>1, <1>2, <1>4, <1>5, <1>6, <1>8, <1>10, <1>12, <1>13 DEF HandlerOK, HandlerFrame, SameTable
<1>15. CountOK'
  BY <1>0, <1>1, <1>9 DEF CountOK, HandlerFrame
<1>16. LastOK'
  BY <1>0, <1>1, <1>6, <1>9 DEF LastOK, HandlerFrame, SameTable
<1>17. TodoOK'
  BY <1>0, <1>1, <1>6, <1>8, <1>9, <1>10 DEF TodoOK, HandlerFrame, SameTable
<1>18. QED
  BY <1>6, <1>7, <1>11, <1>14, <1>15, <1>16, <1>17 DEF IInv

\* The acknowledgement goes from the thread to the semaphore.
LEMMA PostAckStep ==
  ASSUME IInv, NEW i \in Id, PostAck(i)
  PROVE  IInv'
<1>0. /\ TypeOK /\ LockOK /\ HandlerOK /\ CountOK /\ LastOK /\ TodoOK /\ TableInv
      /\ hpc \in [Id -> HPC] /\ my \in [Id -> Nat] /\ stop_count \in Nat /\ sem \in Nat
  BY DEF IInv, TypeOK
<1>1. /\ hpc[i] = "post" /\ i \in Owing /\ UNCHANGED <<my, suspend, restart, last, sp>> /\ HandlerFrame
      /\ hpc' = [hpc EXCEPT ![i] = "set"] /\ sem' = sem + 1
  BY DEF PostAck, Owing
<1>2. Registered(i) /\ ~blocked[GC_lookup_thread(i)] /\ my[i] = stop_count /\ i \notin suspend
  BY <1>0, <1>1 DEF HandlerOK, Acked
<1>3. TableInv' /\ SameTable /\ BlockedOK'
  BY <1>1, <1>2, HandlerTable
<1>4. TypeOK'
  BY <1>0, <1>1, <1>3 DEF TypeOK, TableInv, HPC, SameTable, HandlerFrame
<1>5. \A j \in Id : hpc'[j] = IF j = i THEN "set" ELSE hpc[j]
  BY <1>0, <1>1
<1>6. Owing' = Owing \ {i}
  BY <1>1, <1>2, <1>5 DEF Owing
<1>7. \A j \in Id : Acked(j)' <=> Acked(j) \/ j = i
  BY <1>1, <1>5 DEF Acked
<1>8. LockOK'
  BY <1>0, <1>1, <1>5 DEF LockOK, HandlerFrame
<1>9. gc \in {"suspend", "wait"}
  BY <1>0, <1>1 DEF CountOK
<1>10. HandlerOK'
  BY <1>0, <1>1, <1>2, <1>3, <1>5, <1>7, <1>9 DEF HandlerOK, HandlerFrame, SameTable
<1>11. CountOK'
  <2>1. PICK D, E : D = Owing /\ E = Owing'
    OBVIOUS
  <2>2. IsFiniteSet(D) /\ i \in D /\ E = D \ {i}
    BY <1>0, <1>1, <1>6, <2>1 DEF CountOK
  <2>3. IsFiniteSet(E) /\ Cardinality(E) = Cardinality(D) - 1 /\ Cardinality(D) \in Nat
    BY <2>2, FS_RemoveElement, FS_CardinalityType
  <2>4. sem' + Cardinality(E) = sem + Cardinality(D)
    BY <1>0, <1>1, <2>3
  <2>5. QED
    BY <1>0, <1>1, <1>9, <2>1, <2>3, <2>4 DEF CountOK, HandlerFrame
<1>12. LastOK'
  BY <1>0, <1>1, <1>3, <1>6 DEF LastOK, HandlerFrame, SameTable
<1>13. TodoOK'
  BY <1>0, <1>1, <1>2, <1>3, <1>6, <1>7, <1>9 DEF TodoOK, HandlerFrame, SameTable
<1>14. QED
  BY <1>3, <1>4, <1>8, <1>10, <1>11, <1>12, <1>13 DEF IInv

\* The count that is stored is older than the current one if the thread has
\* another signal pending.
LEMMA SetCountStep ==
  ASSUME IInv, NEW i \in Id, SetCount(i)
  PROVE  IInv'
<1>0. /\ TypeOK /\ LockOK /\ HandlerOK /\ CountOK /\ LastOK /\ TodoOK /\ TableInv
      /\ hpc \in [Id -> HPC] /\ my \in [Id -> Nat] /\ stop_count \in Nat /\ last \in [Record -> Nat]
  BY DEF IInv, TypeOK
<1>1. PICK q : q = GC_lookup_thread(i)
  OBVIOUS
<1>2. /\ hpc[i] = "set" /\ Acked(i) /\ UNCHANGED <<my, suspend, restart, sem, sp>> /\ HandlerFrame
      /\ hpc' = [hpc EXCEPT ![i] = "sigsuspend"] /\ last' = [last EXCEPT ![q] = my[i]]
  BY <1>1 DEF SetCount, Acked
<1>3. Registered(i) /\ ~blocked[q]
  BY <1>0, <1>1, <1>2 DEF HandlerOK
<1>4. /\ q \in Record /\ q \in Known
      /\ \A j \in Id : Registered(j) /\ GC_lookup_thread(j) = q => j = i
  BY <1>0, <1>1, <1>3, OwnRecords
<1>5. TableInv' /\ SameTable /\ BlockedOK'
  BY <1>1, <1>2, <1>3, HandlerTable
<1>6. TypeOK'
  BY <1>0, <1>2, <1>4, <1>5 DEF TypeOK, TableInv, HPC, SameTable, HandlerFrame
<1>7. \A j \in Id : hpc'[j] = IF j = i THEN "sigsuspend" ELSE hpc[j]
  BY <1>0, <1>2
<1>8. Owing' = Owing /\ (i \in Owing => i \in suspend)
  BY <1>2, <1>7 DEF Owing
<1>9. \A j \in Id : Acked(j)' <=> Acked(j)
  BY <1>2, <1>7 DEF Acked
<1>10. LockOK'
  BY <1>0, <1>2, <1>7 DEF LockOK, HandlerFrame
<1>11. HandlerOK'
  BY <1>0, <1>2, <1>5, <1>7, <1>9 DEF HandlerOK, HandlerFrame, SameTable
<1>12. CountOK'
  BY <1>0, <1>2, <1>8 DEF CountOK, HandlerFrame
<1>13. LastOK'
  <2>1. \A r \in Record : last'[r] = IF r = q THEN my[i] ELSE last[r]
    BY <1>0, <1>2
  <2>2. /\ my[i] <= stop_count
        /\ i \in suspend \/ gc = "count" => my[i] < stop_count
        /\ gc = "suspend" /\ q \in todo => my[i] < stop_count
    BY <1>0, <1>1, <1>2, <1>3 DEF HandlerOK, TodoOK
  <2>3. \A j \in Owing : /\ j \in Id /\ Registered(j) /\ GC_lookup_thread(j) \in Record
                         /\ GC_lookup_thread(j) = q => j = i
    BY <1>0, <1>4, OwnRecords DEF Owing, HandlerOK
  <2>4. todo \subseteq Record
    BY <1>0, KnownRecord DEF TypeOK, TableInv
  <2>5. QED
    BY <1>0, <1>2, <1>5, <1>8, <2>1, <2>2, <2>3, <2>4 DEF LastOK, HandlerFrame, SameTable
<1>14. TodoOK'
  BY <1>0, <1>2, <1>5, <1>8, <1>9 DEF TodoOK, HandlerFrame, SameTable
<1>15. QED
  BY <1>5, <1>6, <1>10, <1>11, <1>12, <1>13, <1>14 DEF IInv

\* The thread stays in the handler's loop.
LEMMA LoopStep ==
  ASSUME IInv, NEW i \in Id, Acked(i), NEW p \in {"sigsuspend", "load_stopped", "load_count"},
         hpc' = [hpc EXCEPT ![i] = p], restart' \subseteq Id,
         UNCHANGED <<my, suspend, sem, last, sp>>, HandlerFrame
  PROVE  IInv'
<1>0. /\ TypeOK /\ LockOK /\ HandlerOK /\ CountOK /\ LastOK /\ TodoOK /\ hpc \in [Id -> HPC]
  BY DEF IInv, TypeOK
<1>1. Registered(i) /\ ~blocked[GC_lookup_thread(i)]
  BY <1>0 DEF HandlerOK, Acked
<1>2. TableInv' /\ SameTable /\ BlockedOK'
  BY <1>1, HandlerTable
<1>3. TypeOK'
  BY <1>0, <1>2 DEF TypeOK, TableInv, HPC, SameTable, HandlerFrame
<1>4. \A j \in Id : hpc'[j] = IF j = i THEN p ELSE hpc[j]
  BY <1>0
<1>5. Owing' = Owing
  BY <1>4 DEF Owing, Acked
<1>6. \A j \in Id : Acked(j)' <=> Acked(j)
  BY <1>4 DEF Acked
<1>7. LockOK'
  BY <1>0, <1>4 DEF LockOK, HandlerFrame, Acked
<1>8. HandlerOK'
  BY <1>0, <1>2, <1>4, <1>6 DEF HandlerOK, HandlerFrame, SameTable, Acked
<1>9. CountOK'
  BY <1>0, <1>5 DEF CountOK, HandlerFrame
<1>10. LastOK'
  BY <1>0, <1>2, <1>5 DEF LastOK, HandlerFrame, SameTable
<1>11. TodoOK'
  BY <1>0, <1>2, <1>5, <1>6 DEF TodoOK, HandlerFrame, SameTable
<1>12. QED
  BY <1>2, <1>3, <1>7, <1>8, <1>9, <1>10, <1>11 DEF IInv

\* The thread leaves the handler, after the collection is over, or to take
\* the signal of the next one.
LEMMA ReturnStep ==
  ASSUME IInv, NEW i \in Id, Acked(i), ~stopped \/ my[i] # stop_count,
         HandlerReturns(i), UNCHANGED <<restart, sem, last>>, HandlerFrame
  PROVE  IInv'
<1>0. /\ TypeOK /\ LockOK /\ HandlerOK /\ CountOK /\ LastOK /\ TodoOK /\ TableInv
      /\ hpc \in [Id -> HPC] /\ my \in [Id -> Nat] /\ stop_count \in Nat /\ sp \in [Record -> Saved]
  BY DEF IInv, TypeOK, TableTypeOK
<1>1. PICK q : q = GC_lookup_thread(i)
  OBVIOUS
<1>2. Registered(i) /\ ~blocked[q] /\ q \in Record /\ sp[q] = "handler"
  BY <1>0, <1>1, OwnRecords DEF HandlerOK, Acked
<1>3. /\ my' = [my EXCEPT ![i] = 0] /\ hpc' = [hpc EXCEPT ![i] = IF i \in suspend THEN "load" ELSE "out"]
      /\ suspend' = suspend \ {i} /\ sp' = [sp EXCEPT ![q] = "stale"]
  BY <1>0, <1>1, <1>2 DEF HandlerReturns
<1>4. /\ TableInv' /\ SameTable /\ BlockedOK'
      /\ \A j \in Id \ {i} : Registered(j) => sp'[GC_lookup_thread(j)] = sp[GC_lookup_thread(j)]
  BY <1>1, <1>2, <1>3, HandlerTable DEF Saved
<1>5. TypeOK'
  BY <1>0, <1>3, <1>4 DEF TypeOK, TableInv, HPC, SameTable, HandlerFrame
<1>6. \A j \in Id : /\ j # i => hpc'[j] = hpc[j] /\ my'[j] = my[j]
                    /\ j = i => hpc'[j] = IF i \in suspend THEN "load" ELSE "out"
  BY <1>0, <1>3
<1>7. Owing' = Owing
  BY <1>3, <1>6 DEF Owing, Acked
<1>8. \A j \in Id : Acked(j)' <=> Acked(j) /\ j # i
  BY <1>6 DEF Acked
<1>9. LockOK'
  BY <1>0, <1>3, <1>6 DEF LockOK, HandlerFrame, Acked
<1>10. HandlerOK'
  <2>1. \A j \in Id : hpc[j] = "post" \/ Acked(j) => hpc[j] # "out"
    BY DEF Acked
  <2>2. ~Acked(i)' /\ hpc'[i] # "post" /\ i \notin suspend' /\ ~blocked'[q]
    BY <1>2, <1>3, <1>4, <1>6, <1>8 DEF SameTable
  <2>3. \A j \in Id \ {i} : /\ hpc'[j] = hpc[j] /\ my'[j] = my[j] /\ (Acked(j)' <=> Acked(j))
                            /\ j \in suspend' <=> j \in suspend
    BY <1>3, <1>6, <1>8
  <2>4. Registered(i)' /\ GC_lookup_thread(i)' = q
    BY <1>1, <1>2, <1>4 DEF SameTable
  <2>5. UNCHANGED <<blocked, stop_count, gc>>
    BY DEF HandlerFrame
  <2>6. \A j \in Id : Registered(j)' = Registered(j) /\ GC_lookup_thread(j)' = GC_lookup_thread(j)
    BY <1>4 DEF SameTable
  <2>7. ASSUME NEW j \in Id \ {i}
        PROVE  /\ j \in suspend' \/ hpc'[j] # "out" => Registered(j)' /\ ~blocked'[GC_lookup_thread(j)']
               /\ hpc'[j] = "post" \/ Acked(j)' => sp'[GC_lookup_thread(j)'] = "handler"
               /\ hpc'[j] = "post" => my'[j] = stop_count'
               /\ j \in suspend' => hpc'[j] = "out" \/ Acked(j)'
               /\ Acked(j)' => my'[j] <= stop_count'
               /\ Acked(j)' /\ (j \in suspend' \/ gc' = "count") => my'[j] < stop_count'
    BY <1>0, <1>4, <2>1, <2>3, <2>5, <2>6 DEF HandlerOK
  <2>8. QED
    BY <2>2, <2>4, <2>7 DEF HandlerOK
<1>11. CountOK'
  BY <1>0, <1>7 DEF CountOK, HandlerFrame
<1>12. LastOK'
  BY <1>0, <1>4, <1>7 DEF LastOK, HandlerFrame, SameTable
<1>13. TodoOK'
  <2>1. gc \in {"suspend", "wait", "stopped"} => my[i] # stop_count
    BY <1>0 DEF LockOK
  <2>2. QED
    BY <1>0, <1>4, <1>6, <1>7, <1>8, <2>1 DEF TodoOK, HandlerFrame, SameTable
<1>14. QED
  BY <1>4, <1>5, <1>9, <1>10, <1>11, <1>12, <1>13 DEF IInv

LEMMA RestartIgnoredStep ==
  ASSUME IInv, NEW i \in Id, RestartIgnored(i)
  PROVE  IInv'
<1>0. /\ TypeOK /\ LockOK /\ HandlerOK /\ CountOK /\ LastOK /\ TodoOK /\ TableInv /\ BlockedOK
      /\ sp \in [Record -> Saved] /\ lock \in Id \cup {NoThread}
  BY DEF IInv, TypeOK, TableTypeOK
<1>1. UNCHANGED <<hpc, my, suspend, sem, last, sp>> /\ restart' = restart \ {i} /\ HandlerFrame
  BY DEF RestartIgnored
<1>2. TableInv' /\ SameTable
  BY <1>0, <1>1, TableKept DEF HandlerFrame
<1>3. Owing' = Owing /\ \A j \in Id : Acked(j)' <=> Acked(j)
  BY <1>1 DEF Owing, Acked
<1>4. TypeOK' /\ BlockedOK'
  BY <1>0, <1>1, <1>2 DEF TypeOK, TableInv, BlockedOK, SameTable, HandlerFrame
<1>5. LockOK' /\ CountOK'
  BY <1>0, <1>1, <1>3 DEF LockOK, CountOK, HandlerFrame
<1>6. HandlerOK'
  BY <1>0, <1>1, <1>2, <1>3 DEF HandlerOK, HandlerFrame, SameTable
<1>7. LastOK' /\ TodoOK'
  BY <1>0, <1>1, <1>2, <1>3 DEF LastOK, TodoOK, HandlerFrame, SameTable
<1>8. QED
  BY <1>2, <1>4, <1>5, <1>6, <1>7 DEF IInv

LEMMA HandlerStep ==
  ASSUME IInv, NEW i \in Id, Handler(i) \/ Interrupted(i)
  PROVE  IInv'
<1>0. TypeOK /\ restart \subseteq Id
  BY DEF IInv, TypeOK
<1>1. CASE Deliver(i)
  BY <1>1, DeliverStep
<1>2. CASE LoadCount(i)
  BY <1>2, LoadCountStep
<1>3. CASE PostAck(i)
  BY <1>3, PostAckStep
<1>4. CASE SetCount(i)
  BY <1>4, SetCountStep
<1>5. CASE Restarted(i) \/ Interrupted(i)
  <2>1. /\ Acked(i) /\ hpc' = [hpc EXCEPT ![i] = "load_stopped"] /\ restart' \subseteq Id
        /\ UNCHANGED <<my, suspend, sem, last, sp>> /\ HandlerFrame
    BY <1>0, <1>5 DEF Restarted, Interrupted, Acked
  <2>2. QED
    BY <2>1, LoopStep
<1>6. CASE LoadStopped(i) \/ LoadAgain(i)
  <2>1. Acked(i) /\ UNCHANGED <<restart, sem, last>> /\ HandlerFrame
    BY <1>6 DEF LoadStopped, LoadAgain, Acked
  <2>2. \/ HandlerReturns(i) /\ (~stopped \/ my[i] # stop_count)
        \/ \E p \in {"sigsuspend", "load_count"} :
             hpc' = [hpc EXCEPT ![i] = p] /\ UNCHANGED <<my, suspend, sp>>
    BY <1>6 DEF LoadStopped, LoadAgain
  <2>3. CASE HandlerReturns(i) /\ (~stopped \/ my[i] # stop_count)
    BY <2>1, <2>3, ReturnStep
  <2>4. CASE \E p \in {"sigsuspend", "load_count"} :
               hpc' = [hpc EXCEPT ![i] = p] /\ UNCHANGED <<my, suspend, sp>>
    BY <1>0, <2>1, <2>4, LoopStep
  <2>5. QED
    BY <2>2, <2>3, <2>4
<1>7. CASE RestartIgnored(i)
  BY <1>7, RestartIgnoredStep
<1>8. QED
  BY <1>1, <1>2, <1>3, <1>4, <1>5, <1>6, <1>7 DEF Handler

\* The steps of the collector change neither hpc nor my.
LEMMA AckedSame ==
  ASSUME CollectorFrame
  PROVE  \A j \in Id : Acked(j)' <=> Acked(j)
BY DEF CollectorFrame, Acked

\* A new collection: every count that was stored is now an old one.
LEMMA CollectStep ==
  ASSUME IInv, NEW c \in Id, Collect(c)
  PROVE  IInv'
<1>0. /\ TypeOK /\ LockOK /\ HandlerOK /\ CountOK /\ LastOK /\ TodoOK /\ TableInv
      /\ stop_count \in Nat /\ last \in [Record -> Nat] /\ my \in [Id -> Nat]
  BY DEF IInv, TypeOK
<1>1. /\ lock = NoThread /\ hpc[c] = "out" /\ lock' = c /\ stop_count' = stop_count + 1 /\ gc' = "count"
      /\ UNCHANGED <<stopped, sem, suspend, restart, todo, sent, n_live>> /\ CollectorFrame
  BY DEF Collect
<1>2. gc = "idle" /\ Owing = {} /\ sem = 0
  BY <1>0, <1>1 DEF LockOK, CountOK
<1>3. TableInv' /\ SameTable /\ BlockedOK'
  BY <1>1, CollectorTable
<1>4. Owing' = Owing /\ c \notin suspend
  BY <1>1, <1>2 DEF Owing, CollectorFrame
<1>5. TypeOK'
  BY <1>0, <1>1, <1>3 DEF TypeOK, TableInv, GPC, SameTable, CollectorFrame
<1>6. LockOK'
  BY <1>0, <1>1, <1>2, <1>4, ThreadAssumption DEF LockOK, CollectorFrame
<1>7. HandlerOK'
  BY <1>0, <1>1, <1>2, <1>3, AckedSame DEF HandlerOK, CollectorFrame, SameTable, Owing
<1>8. CountOK'
  BY <1>0, <1>1, <1>2, <1>4 DEF CountOK
<1>9. LastOK'
  <2>1. \A r \in Record : last'[r] \in Nat /\ last'[r] <= stop_count
    BY <1>0, <1>1 DEF LastOK, CollectorFrame
  <2>2. QED
    BY <1>0, <1>1, <1>2, <1>4, <2>1 DEF LastOK
<1>10. TodoOK'
  BY <1>1 DEF TodoOK
<1>11. QED
  BY <1>3, <1>5, <1>6, <1>7, <1>8, <1>9, <1>10 DEF IInv

\* The loop over the threads begins.
LEMMA SetStoppedStep ==
  ASSUME IInv, SetStopped
  PROVE  IInv'
<1>0. /\ TypeOK /\ LockOK /\ HandlerOK /\ CountOK /\ LastOK /\ TableInv
      /\ lock \in Id \cup {NoThread}
  BY DEF IInv, TypeOK, TableTypeOK
<1>1. /\ gc = "count" /\ stopped' = TRUE /\ gc' = "suspend" /\ todo' = Known /\ sent' = 0
      /\ UNCHANGED <<lock, stop_count, sem, suspend, restart, n_live>> /\ CollectorFrame
  BY DEF SetStopped
<1>2. Owing = {} /\ sem = 0 /\ Owing' = Owing
  BY <1>0, <1>1 DEF CountOK, Owing, CollectorFrame
<1>3. TableInv' /\ SameTable /\ BlockedOK'
  BY <1>0, <1>1, CollectorTable
<1>4. TypeOK'
  BY <1>0, <1>1, <1>3 DEF TypeOK, TableInv, GPC, SameTable, CollectorFrame
<1>5. LockOK'
  BY <1>0, <1>1 DEF LockOK, CollectorFrame
<1>6. HandlerOK'
  BY <1>0, <1>1, <1>2, <1>3, AckedSame DEF HandlerOK, CollectorFrame, SameTable, Owing
<1>7. CountOK'
  BY <1>0, <1>1, <1>2, FS_EmptySet DEF CountOK
<1>8. LastOK'
  BY <1>0, <1>1, <1>2, KnownRecord DEF LastOK, CollectorFrame, TableInv
<1>9. TodoOK'
  <2>1. \A j \in Id : Registered(j) => GC_lookup_thread(j) \in Known
    BY <1>0, OwnRecords
  <2>2. \A j \in Id : Acked(j) => my[j] < stop_count
    BY <1>0, <1>1 DEF HandlerOK
  <2>3. QED
    BY <1>1, <1>2, <1>3, <2>1, <2>2, AckedSame DEF TodoOK, SameTable, CollectorFrame
<1>10. QED
  BY <1>3, <1>4, <1>5, <1>6, <1>7, <1>8, <1>9 DEF IInv

\* A record is passed over, or its thread is signalled.
LEMMA SuspendOneStep ==
  ASSUME IInv, SuspendOne
  PROVE  IInv'
<1>0. /\ TypeOK /\ LockOK /\ HandlerOK /\ CountOK /\ LastOK /\ TodoOK /\ TableInv
      /\ lock \in Id \cup {NoThread} /\ sent \in Nat /\ sem \in Nat /\ gc # "resend"
      /\ todo \subseteq Known /\ Known \subseteq Record /\ hpc \in [Id -> HPC]
  BY KnownRecord DEF IInv, TypeOK, TableTypeOK, LockOK, TableInv
<1>1. PICK r \in todo :
        /\ todo' = todo \ {r}
        /\ IF Skip(r) \/ ~Alive(rid[r])
           THEN UNCHANGED <<suspend, sent>>
           ELSE suspend' = suspend \cup {rid[r]} /\ sent' = sent + 1
  BY DEF SuspendOne
<1>2. /\ gc = "suspend"
      /\ UNCHANGED <<lock, stop_count, stopped, gc, sem, restart, n_live>> /\ CollectorFrame
  BY <1>0 DEF SuspendOne
<1>3. TableInv' /\ SameTable /\ BlockedOK'
  BY <1>0, <1>2, CollectorTable
<1>4. last[r] < stop_count /\ last[r] # stop_count /\ last[r] \in Nat /\ stop_count \in Nat
  BY <1>0, <1>1, <1>2 DEF LastOK, TypeOK
<1>5. CASE Skip(r) \/ ~Alive(rid[r])
  <2>1. UNCHANGED <<suspend, sent>>
    BY <1>1, <1>5
  <2>2. Owing' = Owing
    BY <1>2, <2>1 DEF Owing, CollectorFrame
  <2>3. \A j \in Id \ {lock} : Registered(j) /\ ~blocked[GC_lookup_thread(j)] => GC_lookup_thread(j) # r
    BY <1>0, <1>4, <1>5, OwnRecords DEF Skip, Alive, Registered
  <2>4. TypeOK' /\ LockOK' /\ CountOK'
    BY <1>0, <1>1, <1>2, <1>3, <2>1, <2>2 DEF TypeOK, LockOK, CountOK, TableInv, SameTable, CollectorFrame
  <2>5. HandlerOK'
    BY <1>0, <1>2, <1>3, <2>1, AckedSame DEF HandlerOK, CollectorFrame, SameTable
  <2>6. LastOK'
    BY <1>0, <1>1, <1>2, <1>3, <2>2 DEF LastOK, CollectorFrame, SameTable
  <2>7. TodoOK'
    BY <1>0, <1>1, <1>2, <1>3, <2>2, <2>3, AckedSame DEF TodoOK, CollectorFrame, SameTable
  <2>8. QED
    BY <1>3, <2>4, <2>5, <2>6, <2>7 DEF IInv
<1>6. CASE ~(Skip(r) \/ ~Alive(rid[r]))
  <2>1. PICK t : t = rid[r]
    OBVIOUS
  <2>2. suspend' = suspend \cup {t} /\ sent' = sent + 1
    BY <1>1, <1>6, <2>1
  <2>3. t \in Id /\ Registered(t) /\ GC_lookup_thread(t) = r /\ ~blocked[r] /\ t # lock
    BY <1>0, <1>1, <1>6, <2>1 DEF Skip, TableInv, TableTypeOK, FirstIsLive
  <2>4. t \notin Owing /\ (Acked(t) => my[t] < stop_count)
    BY <1>0, <1>1, <1>2, <2>3 DEF TodoOK
  <2>5. Owing' = Owing \cup {t}
    BY <1>2, <2>2, <2>3 DEF Owing, CollectorFrame
  <2>6. hpc[t] = "out" \/ Acked(t)
    BY <1>0, <2>3, <2>4 DEF Owing, Acked, HPC
  <2>7. TypeOK' /\ LockOK'
    BY <1>0, <1>1, <1>2, <1>3, <2>2, <2>3 DEF TypeOK, LockOK, TableInv, SameTable, CollectorFrame
  <2>8. CountOK'
    <3>1. PICK D, E : D = Owing /\ E = Owing'
      OBVIOUS
    <3>2. IsFiniteSet(D) /\ t \notin D /\ E = D \cup {t}
      BY <1>0, <2>4, <2>5, <3>1 DEF CountOK
    <3>3. IsFiniteSet(E) /\ Cardinality(E) = Cardinality(D) + 1 /\ Cardinality(D) \in Nat
      BY <3>2, FS_AddElement, FS_CardinalityType
    <3>4. sent = sem + Cardinality(D)
      BY <1>0, <1>2, <3>1 DEF CountOK
    <3>5. sent' = sem' + Cardinality(E)
      BY <1>0, <1>2, <2>2, <3>3, <3>4
    <3>6. QED
      BY <1>2, <3>1, <3>3, <3>5 DEF CountOK
  <2>9. HandlerOK'
    BY <1>0, <1>2, <1>3, <2>2, <2>3, <2>4, <2>6, AckedSame DEF HandlerOK, CollectorFrame, SameTable
  <2>10. LastOK'
    BY <1>0, <1>1, <1>2, <1>3, <1>4, <2>3, <2>5 DEF LastOK, CollectorFrame, SameTable
  <2>11. TodoOK'
    <3>1. \A j \in Id : Registered(j) /\ GC_lookup_thread(j) = r => j = t
      BY <1>0, <2>1, OwnRecords
    <3>2. t \in Owing'
      BY <2>5
    <3>3. QED
      BY <1>0, <1>1, <1>2, <1>3, <2>3, <2>5, <3>1, <3>2, AckedSame DEF TodoOK, CollectorFrame, SameTable
  <2>12. QED
    BY <1>3, <2>7, <2>8, <2>9, <2>10, <2>11 DEF IInv
<1>7. QED
  BY <1>5, <1>6

\* The steps of the collector that change only its counters and todo.
CollectorSame ==
  /\ UNCHANGED <<stop_count, suspend>> /\ restart' \subseteq Id
  /\ CollectorFrame

LEMMA CollectorSameParts ==
  ASSUME IInv, CollectorSame, lock' \in Id \cup {NoThread}, gc' # "count"
  PROVE  TableInv' /\ SameTable /\ BlockedOK' /\ Owing' = Owing /\ HandlerOK'
<1>1. TableInv' /\ SameTable /\ BlockedOK'
  BY CollectorTable DEF CollectorSame
<1>2. Owing' = Owing
  BY DEF Owing, CollectorSame, CollectorFrame
<1>3. HandlerOK'
  BY <1>1, AckedSame DEF IInv, HandlerOK, CollectorSame, CollectorFrame, SameTable
<1>4. QED
  BY <1>1, <1>2, <1>3

LEMMA AllSentStep ==
  ASSUME IInv, AllSent
  PROVE  IInv'
<1>0. /\ TypeOK /\ LockOK /\ CountOK /\ LastOK /\ TodoOK /\ lock \in Id \cup {NoThread}
      /\ restart \subseteq Id
  BY DEF IInv, TypeOK, TableTypeOK
<1>1. /\ gc = "suspend" /\ todo = {} /\ n_live' = sent /\ sent' = 0 /\ gc' = "wait"
      /\ UNCHANGED <<lock, stop_count, stopped, sem, suspend, restart, todo>> /\ CollectorFrame
  BY <1>0 DEF AllSent, LockOK
<1>2. TableInv' /\ SameTable /\ BlockedOK' /\ Owing' = Owing /\ HandlerOK'
  BY <1>0, <1>1, CollectorSameParts DEF CollectorSame
<1>3. TypeOK' /\ LockOK' /\ CountOK'
  BY <1>0, <1>1, <1>2 DEF TypeOK, LockOK, CountOK, TableInv, GPC, SameTable, CollectorFrame
<1>4. LastOK'
  BY <1>0, <1>1, <1>2 DEF LastOK, CollectorFrame, SameTable
<1>5. TodoOK'
  BY <1>0, <1>1, <1>2, AckedSame DEF TodoOK, CollectorFrame, SameTable
<1>6. QED
  BY <1>2, <1>3, <1>4, <1>5 DEF IInv

LEMMA SemWaitStep ==
  ASSUME IInv, SemWait
  PROVE  IInv'
<1>0. /\ TypeOK /\ LockOK /\ CountOK /\ LastOK /\ TodoOK /\ lock \in Id \cup {NoThread}
      /\ restart \subseteq Id /\ sem \in Nat /\ n_live \in Nat
  BY DEF IInv, TypeOK, TableTypeOK
<1>1. /\ gc = "wait" /\ n_live > 0 /\ sem > 0 /\ sem' = sem - 1 /\ n_live' = n_live - 1
      /\ UNCHANGED <<lock, stop_count, stopped, gc, suspend, restart, todo, sent>> /\ CollectorFrame
  BY DEF SemWait
<1>2. TableInv' /\ SameTable /\ BlockedOK' /\ Owing' = Owing /\ HandlerOK'
  BY <1>0, <1>1, CollectorSameParts DEF CollectorSame
<1>3. TypeOK' /\ LockOK'
  BY <1>0, <1>1, <1>2 DEF TypeOK, LockOK, TableInv, GPC, SameTable, CollectorFrame
<1>4. CountOK'
  <2>1. PICK D : D = Owing
    OBVIOUS
  <2>2. IsFiniteSet(D) /\ Cardinality(D) \in Nat /\ n_live = sem + Cardinality(D)
    BY <1>0, <1>1, <2>1, FS_CardinalityType DEF CountOK
  <2>3. n_live' = sem' + Cardinality(D)
    BY <1>0, <1>1, <2>2
  <2>4. QED
    BY <1>1, <1>2, <2>1, <2>2, <2>3 DEF CountOK
<1>5. LastOK' /\ TodoOK'
  BY <1>0, <1>1, <1>2, AckedSame DEF LastOK, TodoOK, CollectorFrame, SameTable
<1>6. QED
  BY <1>2, <1>3, <1>4, <1>5 DEF IInv

\* All the signals are acknowledged, and all acknowledgements counted.
LEMMA NoneOwing ==
  ASSUME IInv, gc = "wait", n_live = 0
  PROVE  Owing = {} /\ sem = 0
<1>1. PICK D : D = Owing
  OBVIOUS
<1>2. IsFiniteSet(D) /\ Cardinality(D) \in Nat /\ n_live = sem + Cardinality(D) /\ sem \in Nat
  BY <1>1, FS_CardinalityType DEF IInv, CountOK, TypeOK
<1>3. sem = 0 /\ Cardinality(D) = 0
  BY <1>2
<1>4. D = {}
  BY <1>2, <1>3, FS_EmptySet
<1>5. QED
  BY <1>1, <1>3, <1>4

LEMMA WorldStoppedStep ==
  ASSUME IInv, WorldStopped
  PROVE  IInv'
<1>0. /\ TypeOK /\ LockOK /\ CountOK /\ LastOK /\ TodoOK /\ lock \in Id \cup {NoThread}
      /\ restart \subseteq Id
  BY DEF IInv, TypeOK, TableTypeOK
<1>1. /\ gc = "wait" /\ n_live = 0 /\ gc' = "stopped"
      /\ UNCHANGED <<lock, stop_count, stopped, sem, suspend, restart, todo, sent, n_live>>
      /\ CollectorFrame
  BY DEF WorldStopped
<1>2. TableInv' /\ SameTable /\ BlockedOK' /\ Owing' = Owing /\ HandlerOK'
  BY <1>0, <1>1, CollectorSameParts DEF CollectorSame
<1>3. Owing = {} /\ sem = 0
  BY <1>1, NoneOwing
<1>4. TypeOK' /\ LockOK' /\ CountOK'
  BY <1>0, <1>1, <1>2, <1>3 DEF TypeOK, LockOK, CountOK, TableInv, GPC, SameTable, CollectorFrame
<1>5. LastOK' /\ TodoOK'
  BY <1>0, <1>1, <1>2, AckedSame DEF LastOK, TodoOK, CollectorFrame, SameTable
<1>6. QED
  BY <1>2, <1>4, <1>5 DEF IInv

\* The steps that wake the threads up.
LEMMA StartStep ==
  ASSUME IInv, GC_start_world \/ RestartOne \/ CollectionEnds
  PROVE  IInv'
<1>0. /\ TypeOK /\ LockOK /\ CountOK /\ LastOK /\ TodoOK /\ TableInv /\ lock \in Id \cup {NoThread}
      /\ restart \subseteq Id /\ todo \subseteq Known /\ Known \subseteq Record /\ rid \in [Record -> Id]
      /\ lock # NoThread => hpc[lock] = "out" /\ lock \notin suspend
  BY KnownRecord DEF IInv, TypeOK, TableTypeOK, LockOK, TableInv
<1>1. /\ UNCHANGED <<stop_count, sem, suspend, sent, n_live>> /\ CollectorFrame
      /\ gc \in {"stopped", "restart"} /\ gc' \in {"restart", "idle"} /\ stopped' = FALSE
      /\ lock' \in {lock, NoThread}
      /\ gc' = "restart" => lock' = lock
      /\ restart' \subseteq Id /\ todo' \subseteq Known
      /\ gc' = "idle" => todo' = {}
  <2>1. CASE GC_start_world
    BY <1>0, <2>1 DEF GC_start_world
  <2>2. CASE RestartOne
    <3>1. PICK r \in todo : /\ todo' = todo \ {r}
                            /\ restart' = restart \/ restart' = restart \cup {rid[r]}
      BY <2>2 DEF RestartOne
    <3>2. restart' \subseteq Id
      BY <1>0, <3>1
    <3>3. QED
      BY <1>0, <2>2, <3>1, <3>2 DEF RestartOne, LockOK
  <2>3. CASE CollectionEnds
    BY <1>0, <2>3 DEF CollectionEnds, LockOK
  <2>4. QED
    BY <2>1, <2>2, <2>3
<1>2. TableInv' /\ SameTable /\ BlockedOK' /\ Owing' = Owing /\ HandlerOK'
  BY <1>0, <1>1, CollectorSameParts DEF CollectorSame
<1>3. TypeOK' /\ CountOK'
  BY <1>0, <1>1, <1>2 DEF TypeOK, CountOK, TableInv, GPC, SameTable, CollectorFrame
<1>4. LockOK'
  BY <1>0, <1>1 DEF LockOK, CollectorFrame
<1>5. LastOK' /\ TodoOK'
  BY <1>0, <1>1, <1>2 DEF LastOK, TodoOK, CollectorFrame, SameTable
<1>6. QED
  BY <1>2, <1>3, <1>4, <1>5 DEF IInv

LEMMA CollectorStepInv ==
  ASSUME IInv, CollectorStep
  PROVE  IInv'
<1>1. ~AllAcked /\ ~Timeout /\ ~Resent
  BY DEF IInv, LockOK, AllAcked, Timeout, Resent
<1>2. QED
  BY <1>1, SetStoppedStep, SuspendOneStep, AllSentStep, SemWaitStep, WorldStoppedStep, StartStep
     DEF CollectorStep

\* While a thread collects, the program only gets on in the calls of the
\* thread library; otherwise no thread owes an acknowledgement.
LEMMA MutatorStep ==
  ASSUME NoRevival, IInv, NEW i \in Id, Mutator(i)
  PROVE  IInv'
<1>0. /\ TypeOK /\ LockOK /\ HandlerOK /\ CountOK /\ LastOK /\ TodoOK /\ TableInv /\ BlockedOK
      /\ last \in [Record -> Nat] /\ stop_count \in Nat /\ todo \subseteq Known
  BY DEF IInv, TypeOK
<1>1. /\ hpc[i] = "out" /\ (lock = i => gc = "idle") /\ Program(i)
      /\ last' = [r \in Record |-> IF r \in Known' THEN last[r] ELSE 0]
      /\ UNCHANGED <<retry, stop_count, stopped, sem, suspend, restart, hpc, my,
                     gc, todo, sent, n_live, lost>>
  BY DEF Mutator
<1>2. TableInv' /\ BlockedOK' /\ Others(i)
  BY <1>0, <1>1, ProgramOthers, ThreadAssumption
<1>3. Owing' = Owing /\ \A j \in Id : Acked(j)' <=> Acked(j)
  BY <1>1 DEF Owing, Acked
<1>4. \A r \in Record : last'[r] \in Nat /\ (last'[r] = last[r] \/ last'[r] = 0)
  BY <1>0, <1>1
<1>5. lock' = lock \/ (lock = i /\ lock' = NoThread)
  BY <1>1, ProgramLock
<1>6. LockOK' /\ CountOK'
  BY <1>0, <1>1, <1>3, <1>5 DEF LockOK, CountOK
<1>7. CASE gc = "idle"
  <2>1. Owing = {} /\ todo = {}
    BY <1>0, <1>7 DEF CountOK, TodoOK
  <2>2. TypeOK'
    BY <1>0, <1>1, <1>2, <1>4, <2>1 DEF TypeOK, TableInv
  <2>3. i \notin suspend /\ ~Acked(i) /\ hpc[i] # "post"
    BY <1>1, <2>1 DEF Owing, Acked
  <2>4. ASSUME NEW j \in Id \ {i}
        PROVE  /\ j \in suspend' \/ hpc'[j] # "out" => Registered(j)' /\ ~blocked'[GC_lookup_thread(j)']
               /\ hpc'[j] = "post" \/ Acked(j)' => sp'[GC_lookup_thread(j)'] = "handler"
    <3>1. /\ Registered(j)' = Registered(j)
          /\ Registered(j) =>
               /\ GC_lookup_thread(j)' = GC_lookup_thread(j)
               /\ blocked'[GC_lookup_thread(j)] = blocked[GC_lookup_thread(j)]
               /\ sp'[GC_lookup_thread(j)] = sp[GC_lookup_thread(j)]
      BY <1>2 DEF Others
    <3>2. hpc[j] = "post" \/ Acked(j) => hpc[j] # "out"
      BY DEF Acked
    <3>3. QED
      BY <1>0, <1>1, <1>3, <3>1, <3>2 DEF HandlerOK
  <2>5. HandlerOK'
    BY <1>0, <1>1, <1>3, <2>3, <2>4 DEF HandlerOK
  <2>6. LastOK'
    BY <1>0, <1>1, <1>3, <1>4, <1>7, <2>1 DEF LastOK
  <2>7. TodoOK'
    BY <1>0, <1>1, <1>7 DEF TodoOK
  <2>8. QED
    BY <1>2, <1>6, <2>2, <2>5, <2>6, <2>7 DEF IInv
<1>8. CASE gc # "idle"
  <2>1. RealCall(i)
    BY <1>0, <1>1, <1>8, ProgramLocked DEF LockOK
  <2>2. /\ UNCHANGED <<mine, chain, rid, flags, blocked, sp, sect, dont_gc, lock>>
        /\ Known' = Known
        /\ \A j \in Id : Registered(j)' = Registered(j) /\ GC_lookup_thread(j)' = GC_lookup_thread(j)
    BY <1>0, <2>1, RealCallSame
  <2>3. TypeOK'
    BY <1>0, <1>1, <1>2, <1>4, <2>2 DEF TypeOK, TableInv
  <2>4. HandlerOK'
    BY <1>0, <1>1, <1>3, <2>2 DEF HandlerOK
  <2>5. LastOK'
    <3>1. \A j \in Owing : GC_lookup_thread(j) \in Known /\ GC_lookup_thread(j) \in Record
      BY <1>0, OwnRecords DEF HandlerOK, Owing
    <3>2. \A r \in Known : r \in Record => last'[r] = last[r]
      BY <1>1, <2>2
    <3>3. Known \subseteq Record
      BY <1>0, KnownRecord DEF TableInv
    <3>4. \A r \in Record : last'[r] <= stop_count
      BY <1>0, <1>4 DEF LastOK
    <3>5. gc = "count" => \A r \in Record : last'[r] < stop_count
      <4>1. SUFFICES ASSUME gc = "count", NEW r \in Record PROVE last'[r] < stop_count
        OBVIOUS
      <4>2. last[r] < stop_count /\ last[r] \in Nat
        BY <1>0, <4>1 DEF LastOK
      <4>3. QED
        BY <1>0, <1>4, <4>2
    <3>6. \A j \in Owing : j \in Id
      BY DEF Owing
    <3>7. QED
      BY <1>0, <1>1, <1>3, <2>2, <3>1, <3>2, <3>3, <3>4, <3>5, <3>6 DEF LastOK
  <2>6. TodoOK'
    BY <1>0, <1>1, <1>3, <2>2 DEF TodoOK
  <2>7. QED
    BY <1>2, <1>6, <2>3, <2>4, <2>5, <2>6 DEF IInv
<1>9. QED
  BY <1>7, <1>8

\* A thread that is over is not registered, and so has no signal pending.
LEMMA ExitStep ==
  ASSUME IInv, NEW i \in Id, Exit(i)
  PROVE  IInv'
<1>0. /\ TypeOK /\ LockOK /\ HandlerOK /\ CountOK /\ LastOK /\ TodoOK /\ TableInv /\ BlockedOK
  BY DEF IInv
<1>1. /\ OsExit(i) /\ hpc[i] = "out" /\ suspend' = suspend \ {i} /\ restart' = restart \ {i}
      /\ UNCHANGED <<retry, stop_count, stopped, sem, last, hpc, my, gc, todo, sent, n_live, lost>>
  BY DEF Exit
<1>2. TableInv'
  BY <1>0, <1>1, OsExitStep, ThreadAssumption
<1>3. /\ UNCHANGED <<chain, rid, flags, blocked, sp, sect, lock>>
      /\ os[i] = "ended" /\ os' = [os EXCEPT ![i] = IF i \in released THEN "none" ELSE "zombie"]
  BY <1>1 DEF OsExit
<1>4. Known' = Known /\ \A j : GC_lookup_thread(j)' = GC_lookup_thread(j)
  BY <1>3, SameLookup
<1>5. \A j \in Id : Registered(j)' = Registered(j)
  BY <1>0, <1>3 DEF Registered, TableInv, TableTypeOK
<1>6. i \notin suspend
  BY <1>0, <1>3 DEF HandlerOK, Registered
<1>7. suspend' = suspend
  BY <1>1, <1>6
<1>8. Owing' = Owing /\ \A j \in Id : Acked(j)' <=> Acked(j)
  BY <1>1, <1>7 DEF Owing, Acked
<1>9. TypeOK' /\ LockOK' /\ CountOK'
  BY <1>0, <1>1, <1>2, <1>3, <1>4, <1>7, <1>8 DEF TypeOK, LockOK, CountOK, TableInv
<1>10. HandlerOK'
  BY <1>0, <1>1, <1>3, <1>4, <1>5, <1>7, <1>8 DEF HandlerOK
<1>11. LastOK' /\ TodoOK'
  BY <1>0, <1>1, <1>3, <1>4, <1>5, <1>8 DEF LastOK, TodoOK
<1>12. BlockedOK'
  BY <1>0, <1>3, <1>4 DEF BlockedOK, Finished
<1>13. QED
  BY <1>2, <1>9, <1>10, <1>11, <1>12 DEF IInv

LEMMA InitInv ==
  ASSUME RetrySignals = {FALSE}, Init
  PROVE  IInv
<1> USE DEF Init
<1>1. TableInv
  BY TableInitInv, ThreadAssumption
<1>2. Owing = {} /\ \A i \in Id : ~Acked(i) /\ hpc[i] = "out" /\ sect[i] = "base"
  BY DEF Owing, Acked, TableInit
<1>3. \A r \in Record : ~blocked[r] /\ last[r] = 0
  BY DEF TableInit
<1>4. lock = NoThread
  BY DEF TableInit
<1>5. TypeOK /\ LockOK
  <2>1. retry = FALSE /\ gc = "idle" /\ stopped = FALSE /\ todo = {}
    OBVIOUS
  <2>2. last \in [Record -> Nat] /\ my \in [Id -> Nat] /\ hpc \in [Id -> HPC] /\ gc \in GPC
    BY DEF HPC, GPC
  <2>3. TypeOK
    <3>1. /\ stop_count = 0 /\ sem = 0 /\ sent = 0 /\ n_live = 0 /\ lost = 0
          /\ suspend = {} /\ restart = {}
      OBVIOUS
    <3>2. TableTypeOK
      BY <1>1 DEF TableInv
    <3> HIDE DEF Init
    <3>3. retry \in BOOLEAN /\ stopped \in BOOLEAN /\ todo \subseteq Known
      BY <2>1
    <3>4. {sent, n_live} \subseteq Nat /\ suspend \subseteq Id /\ restart \subseteq Id
      BY <3>1
    <3>5. stop_count \in Nat /\ sem \in Nat /\ lost \in Nat
      BY <3>1
    <3>6. QED
      BY <2>2, <3>2, <3>3, <3>4, <3>5 DEF TypeOK
  <2>4. LockOK
    BY <1>4, <2>1 DEF LockOK
  <2>5. QED
    BY <2>3, <2>4
<1>6. HandlerOK /\ BlockedOK
  BY <1>2, <1>3 DEF HandlerOK, BlockedOK
<1>7. CountOK /\ LastOK /\ TodoOK
  BY <1>2, <1>3, FS_EmptySet DEF CountOK, LastOK, TodoOK
<1>8. QED
  BY <1>1, <1>5, <1>6, <1>7 DEF IInv

LEMMA NextInv ==
  ASSUME NoRevival, IInv, [Next]_vars
  PROVE  IInv'
<1>1. CASE \E i \in Id : Mutator(i)
  BY <1>1, MutatorStep
<1>2. CASE \E i \in Id : Exit(i)
  BY <1>2, ExitStep
<1>3. CASE \E i \in Id : Collect(i)
  BY <1>3, CollectStep
<1>4. CASE \E i \in Id : Handler(i) \/ Interrupted(i)
  BY <1>4, HandlerStep
<1>5. \A i \in Id : ~LoseSignal(i)
  BY DEF LoseSignal, IInv, LockOK
<1>6. CASE CollectorStep
  BY <1>6, CollectorStepInv
<1>7. CASE UNCHANGED vars
  <2>1. /\ UNCHANGED table /\ UNCHANGED signals
    BY <1>7 DEF vars
  <2>2. Known' = Known /\ \A j : GC_lookup_thread(j)' = GC_lookup_thread(j)
    BY <2>1, SameLookup DEF table
  <2>3. TableInv'
    BY <2>1, TableNextInv, ThreadAssumption DEF IInv
  <2>4. \A j \in Id : (Acked(j)' <=> Acked(j)) /\ (Registered(j)' <=> Registered(j))
    BY <2>1 DEF Acked, Registered, signals, table
  <2>5. Owing' = Owing
    BY <2>1 DEF Owing, signals
  <2>6. TypeOK' /\ LockOK' /\ CountOK'
    BY <2>1, <2>2, <2>3, <2>5 DEF IInv, TypeOK, LockOK, CountOK, TableInv, signals, table
  <2>7. HandlerOK' /\ BlockedOK'
    BY <2>1, <2>2, <2>4 DEF IInv, HandlerOK, BlockedOK, Finished, signals, table
  <2>8. LastOK' /\ TodoOK'
    BY <2>1, <2>2, <2>4, <2>5 DEF IInv, LastOK, TodoOK, signals, table
  <2>9. QED
    BY <2>3, <2>6, <2>7, <2>8 DEF IInv
<1>8. QED
  BY <1>1, <1>2, <1>3, <1>4, <1>5, <1>6, <1>7 DEF Next

LEMMA Invariance ==
  ASSUME NoRevival, RetrySignals = {FALSE}
  PROVE  Spec => []IInv
<1>1. Init => IInv
  BY InitInv
<1>2. IInv /\ [Next]_vars => IInv'
  BY NextInv
<1>3. QED
  BY <1>1, <1>2, PTL DEF Spec

\* Without GC_retry_signals no acknowledgement is left over when a collection
\* ends (GC_suspend_ack_sem in GC_stop_world).
THEOREM NoAckLeft ==
  ASSUME NoRevival, RetrySignals = {FALSE}
  PROVE  Spec => []NoStaleAck
<1>1. IInv => NoStaleAck
  BY DEF IInv, CountOK, NoStaleAck
<1>2. QED
  BY <1>1, Invariance, PTL

\* When GC_push_all_stacks looks at the saved stack pointers, each covers what
\* its thread has on the stack: the thread is in the handler or in a blocking
\* region, and has not run since it saved the pointer.
THEOREM StacksAreCovered ==
  ASSUME NoRevival, RetrySignals = {FALSE}
  PROVE  Spec => []StacksCovered
<1>1. IInv => StacksCovered
  <2>1. SUFFICES ASSUME IInv, gc = "stopped", NEW r \in Known, rid[r] # lock, ~Finished(r)
                 PROVE  sp[r] = "blocking" \/ (sp[r] = "handler" /\ ~blocked[r])
    BY DEF StacksCovered
  <2>2. PICK i : i = rid[r]
    OBVIOUS
  <2>3. /\ i \in Id \ {lock} /\ r \in Record /\ Registered(i) /\ GC_lookup_thread(i) = r
        /\ blocked[r] \in BOOLEAN
    BY <2>1, <2>2, KnownRecord DEF IInv, TableInv, TableTypeOK, FirstIsLive
  <2>4. CASE blocked[r]
    BY <2>1, <2>3, <2>4 DEF IInv, BlockedOK
  <2>5. CASE ~blocked[r]
    <3>1. Owing = {}
      BY <2>1 DEF IInv, CountOK
    <3>2. Acked(i)
      BY <2>1, <2>3, <2>5, <3>1 DEF IInv, TodoOK
    <3>3. QED
      BY <2>1, <2>3, <2>5, <3>2 DEF IInv, HandlerOK
  <2>6. QED
    BY <2>4, <2>5
<1>2. QED
  BY <1>1, Invariance, PTL

-----------------------------------------------------------------------------
(***************************************************************************)
(* The handshake implements World.                                         *)
(***************************************************************************)

Collecting == IF gc = "stopped" THEN lock ELSE NoThread

\* A step of World, or one that World does not see.
WorldStep == W!Next \/ UNCHANGED <<Running, Collecting>>

\* While the world is not stopped, one thread may start or stop running.
LEMMA OneMoves ==
  ASSUME NEW i \in Id, gc # "stopped", gc' # "stopped",
         \A j \in Id \ {i} : j \in Running' <=> j \in Running
  PROVE  WorldStep
<1>1. PICK R, S : R = Running /\ S = Running'
  OBVIOUS
<1>2. R \subseteq Id /\ S \subseteq Id
  BY <1>1 DEF Running
<1>3. Collecting = NoThread /\ Collecting' = NoThread /\ i # NoThread
  BY ThreadAssumption DEF Collecting
<1>4. \A j \in Id \ {i} : j \in S <=> j \in R
  BY <1>1
<1>5. CASE i \in S
  <2>1. S = R \cup {i}
    BY <1>2, <1>4, <1>5
  <2>2. W!Enter(i)
    BY <1>1, <1>3, <2>1 DEF W!Enter, Collecting
  <2>3. QED
    BY <2>2 DEF WorldStep, W!Next
<1>6. CASE i \notin S
  <2>1. S = R \ {i}
    BY <1>2, <1>4, <1>6
  <2>2. W!Leave(i)
    BY <1>1, <1>3, <2>1 DEF W!Leave, Collecting
  <2>3. QED
    BY <2>2 DEF WorldStep, W!Next
<1>7. QED
  BY <1>5, <1>6

\* What decides whether a thread runs.
LEMMA RunsSame ==
  ASSUME NEW j \in Id, hpc'[j] = "out" <=> hpc[j] = "out", lock' = j <=> lock = j,
         Registered(j)' <=> Registered(j),
         Registered(j) => GC_lookup_thread(j)' = GC_lookup_thread(j)
                          /\ (blocked'[GC_lookup_thread(j)] <=> blocked[GC_lookup_thread(j)])
  PROVE  j \in Running' <=> j \in Running
BY DEF Running

LEMMA RunningIs ==
  ASSUME \A j \in Id : j \in Running' <=> j \in Running
  PROVE  Running' = Running
<1>1. PICK R, S : R = Running /\ S = Running'
  OBVIOUS
<1>2. R \subseteq Id /\ S \subseteq Id
  BY <1>1 DEF Running
<1>3. QED
  BY <1>1, <1>2

\* While the world is stopped no thread enters or leaves the handler.
LEMMA HandlerStaysIn ==
  ASSUME IInv, NEW i \in Id, Handler(i) \/ Interrupted(i), gc = "stopped"
  PROVE  hpc'[i] = "out" <=> hpc[i] = "out"
<1>0. Owing = {} /\ stopped /\ hpc \in [Id -> HPC] /\ HandlerOK /\ TodoOK /\ LockOK
  BY DEF IInv, CountOK, LockOK, TypeOK
<1>1. i \notin suspend /\ hpc[i] \notin {"load", "post"}
  BY <1>0 DEF Owing
<1>2. CASE LoadStopped(i) \/ LoadAgain(i)
  <2>1. hpc[i] # "out" /\ i # lock
    BY <1>0, <1>2, ThreadAssumption DEF LoadStopped, LoadAgain, LockOK
  <2>2. my[i] = stop_count
    BY <1>0, <2>1 DEF TodoOK, HandlerOK
  <2>3. QED
    BY <1>0, <1>2, <2>1, <2>2 DEF LoadStopped, LoadAgain
<1>3. CASE ~(LoadStopped(i) \/ LoadAgain(i))
  BY <1>0, <1>1, <1>3 DEF Handler, Interrupted, Deliver, LoadCount, PostAck, SetCount, Restarted,
     RestartIgnored
<1>4. QED
  BY <1>2, <1>3

LEMMA HandlerWorld ==
  ASSUME IInv, NEW i \in Id, Handler(i) \/ Interrupted(i)
  PROVE  WorldStep
<1>1. HandlerFrame
  BY DEF Handler, Interrupted, Deliver, LoadCount, PostAck, SetCount, Restarted, LoadStopped,
         LoadAgain, RestartIgnored
<1>2. hpc \in [Id -> HPC]
  BY DEF IInv, TypeOK
<1>3. \A j \in Id \ {i} : hpc'[j] = hpc[j]
  BY <1>2 DEF Handler, Interrupted, Deliver, LoadCount, PostAck, SetCount, Restarted, LoadStopped,
         LoadAgain, RestartIgnored, HandlerReturns
<1>4. /\ UNCHANGED <<lock, gc, blocked>>
      /\ \A j : Registered(j)' = Registered(j) /\ GC_lookup_thread(j)' = GC_lookup_thread(j)
  BY <1>1, SameLookup DEF HandlerFrame, Registered
<1>5. \A j \in Id \ {i} : j \in Running' <=> j \in Running
  BY <1>3, <1>4, RunsSame
<1>6. CASE gc = "stopped"
  <2>1. hpc'[i] = "out" <=> hpc[i] = "out"
    BY <1>6, HandlerStaysIn
  <2>2. i \in Running' <=> i \in Running
    BY <1>4, <2>1, RunsSame
  <2>3. Running' = Running
    BY <1>5, <2>2, RunningIs
  <2>4. QED
    BY <1>4, <2>3 DEF WorldStep, Collecting
<1>7. CASE gc # "stopped"
  BY <1>4, <1>5, <1>7, OneMoves
<1>8. QED
  BY <1>6, <1>7

LEMMA MutatorWorld ==
  ASSUME NoRevival, IInv, NEW i \in Id, Mutator(i)
  PROVE  WorldStep
<1>1. Program(i) /\ UNCHANGED <<hpc, gc>> /\ (lock = i => gc = "idle")
  BY DEF Mutator
<1>2. TableInv /\ BlockedOK /\ LockOK
  BY DEF IInv
<1>3. CASE gc = "stopped"
  <2>1. RealCall(i)
    BY <1>1, <1>2, <1>3, ProgramLocked DEF LockOK
  <2>2. /\ UNCHANGED <<blocked, lock>>
        /\ \A j \in Id : Registered(j)' = Registered(j) /\ GC_lookup_thread(j)' = GC_lookup_thread(j)
    BY <1>2, <2>1, RealCallSame
  <2>3. \A j \in Id : j \in Running' <=> j \in Running
    BY <1>1, <2>2, RunsSame
  <2>4. QED
    BY <1>1, <2>2, <2>3, RunningIs DEF WorldStep, Collecting
<1>4. CASE gc # "stopped"
  <2>1. Others(i)
    BY <1>1, <1>2, ProgramOthers, ThreadAssumption
  <2>2. \A j \in Id \ {i} : lock' = j <=> lock = j
    BY <1>1, ProgramLock, ThreadAssumption
  <2>3. \A j \in Id \ {i} : j \in Running' <=> j \in Running
    BY <1>1, <2>1, <2>2, RunsSame DEF Others
  <2>4. QED
    BY <1>1, <1>4, <2>3, OneMoves
<1>5. QED
  BY <1>3, <1>4

LEMMA ExitWorld ==
  ASSUME IInv, NEW i \in Id, Exit(i)
  PROVE  WorldStep
<1>1. UNCHANGED <<hpc, gc, lock, chain, rid, blocked>>
  BY DEF Exit, OsExit
<1>2. \A j \in Id : Registered(j)' = Registered(j)
  BY DEF Exit, OsExit, Registered, IInv, TableInv, TableTypeOK
<1>3. \A j \in Id : GC_lookup_thread(j)' = GC_lookup_thread(j)
  BY <1>1, SameLookup
<1>4. \A j \in Id : j \in Running' <=> j \in Running
  BY <1>1, <1>2, <1>3, RunsSame
<1>5. QED
  BY <1>1, <1>4, RunningIs DEF WorldStep, Collecting

LEMMA CollectorWorld ==
  ASSUME IInv, CollectorStep
  PROVE  WorldStep
<1>0. LockOK /\ TodoOK /\ HandlerOK /\ TableInv /\ lock \in Id \cup {NoThread}
  BY DEF IInv, TypeOK, TableTypeOK
<1>1. CollectorFrame
  BY DEF CollectorStep, SetStopped, SuspendOne, AllSent, AllAcked, Timeout, Resent, SemWait,
         WorldStopped, GC_start_world, RestartOne, CollectionEnds
<1>2. /\ UNCHANGED <<hpc, blocked>>
      /\ \A j : Registered(j)' = Registered(j) /\ GC_lookup_thread(j)' = GC_lookup_thread(j)
  BY <1>1, SameLookup DEF CollectorFrame, Registered
<1>3. \A j \in Id : (lock' = j <=> lock = j) => (j \in Running' <=> j \in Running)
  BY <1>2, RunsSame
<1>4. CASE CollectionEnds
  <2>1. /\ gc = "restart" /\ gc' = "idle" /\ lock \in Id /\ lock' \in {lock, NoThread}
    BY <1>0, <1>4 DEF CollectionEnds, LockOK
  <2>2. PICK c \in Id : c = lock
    BY <2>1
  <2>3. \A j \in Id \ {c} : lock' = j <=> lock = j
    BY <2>1, <2>2, ThreadAssumption
  <2>4. \A j \in Id \ {c} : j \in Running' <=> j \in Running
    BY <1>3, <2>3
  <2>5. QED
    BY <2>1, <2>4, OneMoves
<1>5. CASE ~CollectionEnds
  <2>1. lock' = lock
    BY <1>5 DEF CollectorStep, SetStopped, SuspendOne, AllSent, AllAcked, Timeout, Resent, SemWait,
         WorldStopped, GC_start_world, RestartOne
  <2>2. Running' = Running
    BY <1>3, <2>1, RunningIs
  <2>3. CASE WorldStopped
    <3>1. gc = "wait" /\ n_live = 0 /\ gc' = "stopped"
      BY <2>3 DEF WorldStopped
    <3>2. Owing = {}
      BY <3>1, NoneOwing
    <3>3. lock \in Id /\ hpc[lock] = "out"
      BY <1>0, <3>1 DEF LockOK
    <3>4. \A j \in Id \ {lock} : Registered(j) /\ ~blocked[GC_lookup_thread(j)] => Acked(j)
      BY <1>0, <3>1, <3>2 DEF TodoOK
    <3>5. Running = {lock}
      BY <3>3, <3>4 DEF Running, Acked
    <3>6. W!Stop(lock)
      BY <2>1, <2>2, <3>1, <3>5 DEF W!Stop
    <3>7. QED
      BY <3>3, <3>6 DEF WorldStep, W!Next
  <2>4. CASE GC_start_world
    <3>1. gc' = "restart"
      BY <2>4 DEF GC_start_world
    <3>2. W!Start
      BY <2>2, <3>1 DEF W!Start
    <3>3. QED
      BY <3>2, ThreadAssumption DEF WorldStep, W!Next
  <2>5. CASE ~WorldStopped /\ ~GC_start_world
    <3>1. gc # "stopped" /\ gc' # "stopped"
      BY <1>0, <1>5, <2>5 DEF CollectorStep, SetStopped, SuspendOne, AllSent, AllAcked, Timeout,
         Resent, SemWait, RestartOne
    <3>2. QED
      BY <2>2, <3>1 DEF WorldStep, Collecting
  <2>6. QED
    BY <2>3, <2>4, <2>5
<1>6. QED
  BY <1>4, <1>5

LEMMA CollectWorld ==
  ASSUME IInv, NEW c \in Id, Collect(c)
  PROVE  WorldStep
<1>1. /\ lock = NoThread /\ lock' = c /\ gc' = "count" /\ CollectorFrame /\ gc = "idle"
  BY DEF Collect, IInv, LockOK
<1>2. /\ UNCHANGED <<hpc, blocked>>
      /\ \A j : Registered(j)' = Registered(j) /\ GC_lookup_thread(j)' = GC_lookup_thread(j)
  BY <1>1, SameLookup DEF CollectorFrame, Registered
<1>3. \A j \in Id \ {c} : lock' = j <=> lock = j
  BY <1>1, ThreadAssumption
<1>4. \A j \in Id \ {c} : j \in Running' <=> j \in Running
  BY <1>2, <1>3, RunsSame
<1>5. QED
  BY <1>1, <1>4, OneMoves

\* The signals, the acknowledgements and the restart implement World: while
\* one thread collects no other runs, and none starts to run before
\* GC_start_world, for GC_retry_signals = FALSE and any number of threads.
THEOREM ImplementsWorld ==
  ASSUME NoRevival, RetrySignals = {FALSE}
  PROVE  Spec => StopsTheWorld
<1>1. Init => W!Init
  BY DEF Init, W!Init, Running
<1>2. IInv /\ [Next]_vars => [W!Next]_<<Running, Collecting>>
  <2>1. SUFFICES ASSUME IInv, [Next]_vars PROVE WorldStep
    BY DEF WorldStep
  <2>2. CASE \E i \in Id : Mutator(i)
    BY <2>1, <2>2, MutatorWorld, NoRevival
  <2>3. CASE \E i \in Id : Exit(i)
    BY <2>1, <2>3, ExitWorld
  <2>4. CASE \E i \in Id : Collect(i)
    BY <2>1, <2>4, CollectWorld
  <2>5. CASE \E i \in Id : Handler(i) \/ Interrupted(i)
    BY <2>1, <2>5, HandlerWorld
  <2>6. \A i \in Id : ~LoseSignal(i)
    BY <2>1 DEF LoseSignal, IInv, LockOK
  <2>7. CASE CollectorStep
    BY <2>1, <2>7, CollectorWorld
  <2>8. CASE UNCHANGED vars
    <3>1. UNCHANGED <<hpc, gc, lock, blocked>>
      BY <2>8 DEF vars, table, signals
    <3>2. \A j \in Id : Registered(j)' = Registered(j) /\ GC_lookup_thread(j)' = GC_lookup_thread(j)
      BY <2>8, SameLookup DEF vars, table, Registered
    <3>3. \A j \in Id : j \in Running' <=> j \in Running
      BY <3>1, <3>2, RunsSame
    <3>4. QED
      BY <3>1, <3>3, RunningIs DEF WorldStep, Collecting
  <2>9. QED
    BY <2>1, <2>2, <2>3, <2>4, <2>5, <2>6, <2>7, <2>8 DEF Next
<1>3. QED
  BY <1>1, <1>2, Invariance, NoRevival, PTL DEF Spec, StopsTheWorld, W!Spec, Collecting
=============================================================================
