-------------------------- MODULE PtrAnalysisProofs --------------------------
(***************************************************************************)
(* Proofs about PtrAnalysis, for any names and any program.                *)
(***************************************************************************)
EXTENDS PtrAnalysis, TLAPS, FiniteSetTheorems, WellFoundedInduction

\* A nonempty set of numbers has a least element (the order of the map).
LEMMA LeastElement ==
  ASSUME NEW S, S \subseteq Nat, S # {}
  PROVE  Least(S) \in S /\ \A m \in S : Least(S) <= m
<1> DEFINE R == {ss \in Nat \X Nat : ss[1] < ss[2]}
<1>1. IsWellFoundedOn(R, Nat)
  BY NatLessThanWellFounded DEF OpToRel
<1>2. \E n \in S : \A m \in S : <<m, n>> \notin R
  <2> HIDE DEF R
  <2> QED
    BY <1>1, WFMin
<1>3. PICK n \in S : \A m \in S : <<m, n>> \notin R
  BY <1>2
<1>4. \A m \in S : ~(m < n)
  BY <1>3
<1>5. \A m \in S : n <= m
  BY <1>4
<1>6. QED
  BY <1>5 DEF Least

-----------------------------------------------------------------------------
(***************************************************************************)
(* The visit of the program.                                               *)
(***************************************************************************)

\* A flow that is recorded, or that never will matter.
Recorded(f) ==
  f[1] \in {"init", "assign"} =>
    /\ entry[f[3]] # "absent"
    /\ entry[f[3]] = "data" => f[2] \in from[f[3]] \/ entry[f[2]] = "null"

\* What the visit of a node does at most: entries only appear, edges are only
\* added, and one flow at most.
LEMMA VisitKeeps ==
  ASSUME IInv, Visit,
         entry' \in [Names -> {"absent", "null", "data"}],
         \A x \in Names : entry[x] # "absent" => entry'[x] = entry[x],
         NEW F, IsFiniteSet(F), WithData' \subseteq WithData \cup F,
         from' \in [Names -> SUBSET Names],
         NEW G, IsFiniteSet(G),
         \A x \in Names : from[x] \subseteq from'[x] /\ from'[x] \subseteq from[x] \cup G,
         NEW f \in {"init", "assign", "call", "return"} \X Names \X Names,
         flows' = flows \/ (flows' = flows \cup {f} /\ Recorded(f)'),
         singleton' \in [Names -> BOOLEAN], declared' \subseteq Names
  PROVE  IInv'
<1>0. TypeOK /\ FiniteOK /\ FlowsOK /\ CallsOK
  BY DEF IInv
<1>1. /\ pc = "visit" /\ visits < MaxVisits /\ visits' = visits + 1
      /\ UNCHANGED <<pc, seeds, cursor, calls, file>>
  BY DEF Visit
<1>2. calls = <<>> /\ Len(calls) = 0
  BY <1>0, <1>1 DEF CallsOK
<1>3. TypeOK'
  <2>1. visits' \in 0 .. MaxVisits
    BY <1>0, <1>1, NamesAssumption DEF TypeOK
  <2>2. flows' \subseteq {"init", "assign", "call", "return"} \X Names \X Names
    BY <1>0 DEF TypeOK
  <2>3. QED
    BY <1>0, <1>1, <2>1, <2>2 DEF TypeOK
<1>4. FiniteOK'
  <2>1. PICK D, E : D = WithData /\ E = WithData'
    OBVIOUS
  <2>2. IsFiniteSet(D \cup F) /\ E \subseteq D \cup F
    BY <1>0, <2>1, FS_Union DEF FiniteOK
  <2>3. IsFiniteSet(E)
    BY <2>2, FS_Subset
  <2>4. ASSUME NEW x \in Names PROVE IsFiniteSet(from'[x])
    <3>1. IsFiniteSet(from[x] \cup G)
      BY <1>0, FS_Union DEF FiniteOK
    <3>2. QED
      BY <3>1, FS_Subset
  <2>5. QED
    BY <2>1, <2>3, <2>4 DEF FiniteOK
<1>5. FlowsOK'
  <2>1. ASSUME NEW g \in flows PROVE Recorded(g)'
    <3>1. Recorded(g) /\ g[2] \in Names /\ g[3] \in Names
      BY <1>0, <1>1 DEF FlowsOK, Recorded, TypeOK
    <3>2. QED
      BY <1>0, <3>1 DEF Recorded, TypeOK
  <2>2. QED
    BY <2>1 DEF FlowsOK, Recorded
<1>6. CallsOK' /\ PassOK' /\ FileOK'
  BY <1>1, <1>2 DEF CallsOK, PassOK, FileOK, IInv
<1>7. QED
  BY <1>3, <1>4, <1>5, <1>6 DEF IInv

\* Looking names up makes no data; inserting one makes data at most there.
LEMMA Lookups ==
  ASSUME NEW e \in [Names -> {"absent", "null", "data"}], NEW x \in Names
  PROVE  /\ Lookup(e, x) \in [Names -> {"absent", "null", "data"}]
         /\ InsertInMap(e, x) \in [Names -> {"absent", "null", "data"}]
         /\ \A z \in Names : e[z] # "absent" => Lookup(e, x)[z] = e[z] /\ InsertInMap(e, x)[z] = e[z]
         /\ \A z \in Names : Lookup(e, x)[z] = "data" <=> e[z] = "data"
         /\ \A z \in Names : InsertInMap(e, x)[z] = "data" => e[z] = "data" \/ z = x
         /\ Lookup(e, x)[x] # "absent" /\ InsertInMap(e, x)[x] # "absent"
         /\ e[x] # "data" => Lookup(e, x)[x] = "null"
BY DEF Lookup, InsertInMap

LEMMA NamesOf ==
  /\ Vars \subseteq Names /\ Funs \subseteq Names /\ Params \subseteq Names
  /\ \A f \in Funs : ParamOf[f] \in Names
BY DEF Names, Params

\* The visit of a declaration.
LEMMA DeclSteps ==
  ASSUME IInv, NEW x \in Vars, NEW y \in Names,
         VisitDecl(x) \/ VisitDeclNewArray(x) \/ VisitDeclInit(x, y)
  PROVE  IInv'
<1>0. /\ entry \in [Names -> {"absent", "null", "data"}] /\ from \in [Names -> SUBSET Names]
      /\ singleton \in [Names -> BOOLEAN] /\ declared \subseteq Names /\ x \in Names
  BY NamesOf DEF IInv, TypeOK
<1>1. Visit /\ entry' = InsertInMap(entry, x) /\ declared' = declared \cup {x}
  BY DEF VisitDecl, VisitDeclNewArray, VisitDeclInit
<1>2. PICK f : f = <<"init", y, x>>
  OBVIOUS
<1>3. f \in {"init", "assign", "call", "return"} \X Names \X Names /\ f[2] = y /\ f[3] = x
  BY <1>0, <1>2
<1>4. /\ entry' \in [Names -> {"absent", "null", "data"}] /\ entry'[x] # "absent"
      /\ \A z \in Names : entry[z] # "absent" => entry'[z] = entry[z]
      /\ \A z \in Names : entry'[z] = "data" => entry[z] = "data" \/ z = x
  BY <1>0, <1>1, Lookups
<1>5. WithData' \subseteq WithData \cup {x}
  BY <1>4 DEF WithData
<1>6. IsFiniteSet({x}) /\ IsFiniteSet({y})
  BY FS_Singleton
<1>7. declared' \subseteq Names
  BY <1>0, <1>1
<1>8. singleton' \in [Names -> BOOLEAN]
  BY <1>0 DEF VisitDecl, VisitDeclNewArray, VisitDeclInit
<1>9. CASE VisitDeclInit(x, y)
  <2>1. from' = [from EXCEPT ![x] = @ \cup {y}] /\ flows' = flows \cup {f}
    BY <1>2, <1>9 DEF VisitDeclInit
  <2>2. /\ from' \in [Names -> SUBSET Names] /\ y \in from'[x]
        /\ \A z \in Names : from[z] \subseteq from'[z] /\ from'[z] \subseteq from[z] \cup {y}
    BY <1>0, <2>1
  <2>3. Recorded(f)'
    BY <1>3, <1>4, <2>2 DEF Recorded
  <2>4. QED
    BY <1>1, <1>3, <1>4, <1>5, <1>6, <1>7, <1>8, <2>1, <2>2, <2>3, VisitKeeps
<1>10. CASE UNCHANGED <<from, flows>>
  BY <1>0, <1>1, <1>3, <1>4, <1>5, <1>6, <1>7, <1>8, <1>10, VisitKeeps
<1>11. QED
  BY <1>9, <1>10 DEF VisitDecl, VisitDeclNewArray, VisitDeclInit

\* The visit of a function, of a call and of a return.
LEMMA FunctionSteps ==
  ASSUME IInv, NEW f \in Funs, NEW x \in Names,
         VisitFunctionDecl(f) \/ VisitCallExpr(f, x) \/ VisitReturnStmt(f, x)
  PROVE  IInv'
<1>0. /\ entry \in [Names -> {"absent", "null", "data"}] /\ from \in [Names -> SUBSET Names]
      /\ singleton \in [Names -> BOOLEAN] /\ declared \subseteq Names /\ f \in Names
  BY NamesOf DEF IInv, TypeOK
<1>1. PICK p \in Names : p = ParamOf[f]
  BY NamesOf
<1>2. PICK g : g = <<"return", f, f>>
  OBVIOUS
<1>3. CASE VisitFunctionDecl(f)
  <2>1. /\ Visit /\ entry' = InsertInMap(InsertInMap(entry, f), p) /\ declared' = declared \cup {f, p}
        /\ UNCHANGED <<singleton, from, flows>>
    BY <1>1, <1>3 DEF VisitFunctionDecl
  <2>2. PICK e : e = InsertInMap(entry, f)
    OBVIOUS
  <2>3. /\ e \in [Names -> {"absent", "null", "data"}]
        /\ \A z \in Names : entry[z] # "absent" => e[z] = entry[z]
        /\ \A z \in Names : e[z] = "data" => entry[z] = "data" \/ z = f
    BY <1>0, <2>2, Lookups
  <2>4. entry' = InsertInMap(e, p)
    BY <2>1, <2>2
  <2>5. /\ entry' \in [Names -> {"absent", "null", "data"}]
        /\ \A z \in Names : e[z] # "absent" => entry'[z] = e[z]
        /\ \A z \in Names : entry'[z] = "data" => e[z] = "data" \/ z = p
    BY <2>3, <2>4, Lookups
  <2>6. \A z \in Names : entry[z] # "absent" => entry'[z] = entry[z]
    BY <2>3, <2>5
  <2>7. WithData' \subseteq WithData \cup {f, p}
    BY <2>3, <2>5 DEF WithData
  <2>8. IsFiniteSet({f, p})
    <3>1. IsFiniteSet({f} \cup {p}) /\ {f, p} = {f} \cup {p}
      BY FS_Singleton, FS_AddElement
    <3>2. QED
      BY <3>1
  <2>9. g \in {"init", "assign", "call", "return"} \X Names \X Names /\ declared' \subseteq Names
    BY <1>0, <1>1, <1>2, <2>1
  <2>10. QED
    BY <1>0, <2>1, <2>5, <2>6, <2>7, <2>8, <2>9, VisitKeeps
<1>4. CASE VisitCallExpr(f, x)
  <2>1. /\ Visit /\ entry' = InsertInMap(Lookup(Lookup(entry, x), p), x)
        /\ from' = IF entry[p] = "data" THEN [from EXCEPT ![p] = @ \cup {x}]
                   ELSE IF entry[x] = "data" THEN [from EXCEPT ![x] = @ \cup {x}]
                   ELSE from
        /\ flows' = flows \cup {<<"call", x, p>>}
        /\ UNCHANGED <<singleton, declared>>
    BY <1>1, <1>4 DEF VisitCallExpr
  <2>2. PICK e : e = Lookup(entry, x)
    OBVIOUS
  <2>3. /\ e \in [Names -> {"absent", "null", "data"}]
        /\ \A z \in Names : entry[z] # "absent" => e[z] = entry[z]
        /\ \A z \in Names : e[z] = "data" <=> entry[z] = "data"
    BY <1>0, <2>2, Lookups
  <2>4. PICK d : d = Lookup(e, p)
    OBVIOUS
  <2>5. /\ d \in [Names -> {"absent", "null", "data"}]
        /\ \A z \in Names : e[z] # "absent" => d[z] = e[z]
        /\ \A z \in Names : d[z] = "data" <=> e[z] = "data"
    BY <2>3, <2>4, Lookups
  <2>6. entry' = InsertInMap(d, x)
    BY <2>1, <2>2, <2>4
  <2>7. /\ entry' \in [Names -> {"absent", "null", "data"}]
        /\ \A z \in Names : d[z] # "absent" => entry'[z] = d[z]
        /\ \A z \in Names : entry'[z] = "data" => d[z] = "data" \/ z = x
    BY <2>5, <2>6, Lookups
  <2>8. \A z \in Names : entry[z] # "absent" => entry'[z] = entry[z]
    BY <2>3, <2>5, <2>7
  <2>9. WithData' \subseteq WithData \cup {x} /\ IsFiniteSet({x})
    BY <2>3, <2>5, <2>7, FS_Singleton DEF WithData
  <2>10. /\ from' \in [Names -> SUBSET Names]
         /\ \A z \in Names : from[z] \subseteq from'[z] /\ from'[z] \subseteq from[z] \cup {x}
    BY <1>0, <2>1
  <2>11. PICK h : h = <<"call", x, p>>
    OBVIOUS
  <2>12. /\ h \in {"init", "assign", "call", "return"} \X Names \X Names
         /\ Recorded(h)' /\ flows' = flows \cup {h}
    BY <2>1, <2>11 DEF Recorded
  <2>13. QED
    BY <1>0, <2>1, <2>7, <2>8, <2>9, <2>10, <2>12, VisitKeeps
<1>5. CASE VisitReturnStmt(f, x)
  <2>1. /\ Visit /\ entry' = Lookup(entry, x)
        /\ from' = IF entry[x] = "data" THEN [from EXCEPT ![x] = @ \cup {f}] ELSE from
        /\ flows' = flows \cup {<<"return", x, f>>}
        /\ UNCHANGED <<singleton, declared>>
    BY <1>5 DEF VisitReturnStmt
  <2>2. /\ entry' \in [Names -> {"absent", "null", "data"}]
        /\ \A z \in Names : entry[z] # "absent" => entry'[z] = entry[z]
        /\ \A z \in Names : entry'[z] = "data" <=> entry[z] = "data"
    BY <1>0, <2>1, Lookups
  <2>3. WithData' \subseteq WithData \cup {x} /\ IsFiniteSet({x})
    BY <2>2, FS_Singleton DEF WithData
  <2>4. /\ from' \in [Names -> SUBSET Names] /\ IsFiniteSet({f})
        /\ \A z \in Names : from[z] \subseteq from'[z] /\ from'[z] \subseteq from[z] \cup {f}
    BY <1>0, <2>1, FS_Singleton
  <2>5. PICK h : h = <<"return", x, f>>
    OBVIOUS
  <2>6. /\ h \in {"init", "assign", "call", "return"} \X Names \X Names
        /\ Recorded(h)' /\ flows' = flows \cup {h}
    BY <1>0, <2>1, <2>5 DEF Recorded
  <2>7. QED
    BY <1>0, <2>1, <2>2, <2>3, <2>4, <2>6, VisitKeeps
<1>6. QED
  BY <1>3, <1>4, <1>5

\* The visit of an expression: only known names are used.
LEMMA UseSteps ==
  ASSUME IInv, NEW x \in Names, NEW y \in Names, NEW op,
         \/ UsedAsArray(x) \/ VisitUnaryOperator(op, x)
         \/ VisitAssign(x, y) \/ VisitAssignCall(x, y)
  PROVE  IInv'
<1>0. /\ entry \in [Names -> {"absent", "null", "data"}] /\ from \in [Names -> SUBSET Names]
      /\ singleton \in [Names -> BOOLEAN] /\ declared \subseteq Names
  BY DEF IInv, TypeOK
<1>1. PICK f : f = <<"assign", y, x>>
  OBVIOUS
<1>2. f \in {"init", "assign", "call", "return"} \X Names \X Names /\ f[2] = y /\ f[3] = x
  BY <1>1
<1>3. Visit /\ declared' = declared /\ IsFiniteSet({x}) /\ IsFiniteSet({y})
  BY FS_Singleton DEF UsedAsArray, VisitUnaryOperator, VisitAssign, VisitAssignCall
<1>4. entry' = Lookup(entry, x) \/ entry' = Lookup(entry, y)
  BY DEF UsedAsArray, VisitUnaryOperator, VisitAssign, VisitAssignCall
<1>5. /\ entry' \in [Names -> {"absent", "null", "data"}]
      /\ \A z \in Names : entry[z] # "absent" => entry'[z] = entry[z]
      /\ \A z \in Names : entry'[z] = "data" <=> entry[z] = "data"
  BY <1>0, <1>4, Lookups
<1>6. WithData' \subseteq WithData \cup {x}
  BY <1>5 DEF WithData
<1>7. CASE UsedAsArray(x) \/ VisitUnaryOperator(op, x)
  <2>1. UNCHANGED <<from, flows>> /\ singleton' \in [Names -> BOOLEAN]
    BY <1>0, <1>7 DEF UsedAsArray, VisitUnaryOperator
  <2>2. QED
    BY <1>0, <1>2, <1>3, <1>5, <1>6, <2>1, VisitKeeps
<1>8. CASE VisitAssign(x, y)
  <2>1. /\ entry' = Lookup(entry, x) /\ flows' = flows \cup {f} /\ singleton' = singleton
        /\ from' = IF entry[x] = "data" THEN [from EXCEPT ![x] = @ \cup {y}] ELSE from
    BY <1>1, <1>8 DEF VisitAssign
  <2>2. /\ from' \in [Names -> SUBSET Names] /\ (entry[x] = "data" => y \in from'[x])
        /\ \A z \in Names : from[z] \subseteq from'[z] /\ from'[z] \subseteq from[z] \cup {y}
    BY <1>0, <2>1
  <2>3. entry'[x] # "absent"
    BY <1>0, <2>1, Lookups
  <2>4. Recorded(f)'
    BY <1>2, <1>5, <2>2, <2>3 DEF Recorded
  <2>5. QED
    BY <1>0, <1>2, <1>3, <1>5, <1>6, <2>1, <2>2, <2>4, VisitKeeps
<1>9. CASE VisitAssignCall(x, y)
  <2>1. /\ entry' = IF entry[x] = "data" THEN Lookup(entry, y) ELSE Lookup(entry, x)
        /\ flows' = flows \cup {f} /\ singleton' = singleton
        /\ from' = IF entry[x] = "data" /\ entry[y] = "data"
                   THEN [from EXCEPT ![y] = @ \cup {x}, ![x] = @ \cup {y}] ELSE from
    BY <1>1, <1>9 DEF VisitAssignCall
  <2>2. PICK g : g = [from EXCEPT ![y] = @ \cup {x}]
    OBVIOUS
  <2>3. from' = IF entry[x] = "data" /\ entry[y] = "data" THEN [g EXCEPT ![x] = @ \cup {y}] ELSE from
    BY <2>1, <2>2
  <2>4. /\ g \in [Names -> SUBSET Names]
        /\ \A z \in Names : g[z] = IF z = y THEN from[y] \cup {x} ELSE from[z]
    BY <1>0, <2>2
  <2>5. /\ from' \in [Names -> SUBSET Names]
        /\ entry[x] = "data" /\ entry[y] = "data" => y \in from'[x]
        /\ \A z \in Names : from[z] \subseteq from'[z] /\ from'[z] \subseteq from[z] \cup ({x} \cup {y})
    BY <1>0, <2>3, <2>4
  <2>6. entry'[x] # "absent" /\ (entry[x] = "data" /\ entry[y] # "data" => entry'[y] = "null")
    BY <1>0, <1>5, <2>1, Lookups
  <2>7. Recorded(f)'
    BY <1>2, <1>5, <2>5, <2>6 DEF Recorded
  <2>8. IsFiniteSet({x} \cup {y})
    BY <1>3, FS_Union
  <2>9. QED
    BY <1>0, <1>2, <1>3, <1>5, <1>6, <2>1, <2>5, <2>7, <2>8, VisitKeeps
<1>10. QED
  BY <1>7, <1>8, <1>9

LEMMA VisitNodeStep ==
  ASSUME IInv, VisitNode
  PROVE  IInv'
<1>1. Usable \subseteq Names /\ Vars \subseteq Names /\ Funs \subseteq Names
  BY NamesOf DEF Usable
<1>2. CASE \E x \in Vars : \/ VisitDecl(x) \/ VisitDeclNewArray(x)
                           \/ \E y \in Usable \cup Funs : VisitDeclInit(x, y)
  <2>1. PICK x \in Vars : \/ VisitDecl(x) \/ VisitDeclNewArray(x)
                          \/ \E y \in Usable \cup Funs : VisitDeclInit(x, y)
    BY <1>2
  <2>2. PICK y \in Names : VisitDecl(x) \/ VisitDeclNewArray(x) \/ VisitDeclInit(x, y)
    BY <1>1, <2>1
  <2>3. QED
    BY <2>2, DeclSteps
<1>3. CASE \E f \in Funs : \/ VisitFunctionDecl(f) \/ \E a \in Usable : VisitCallExpr(f, a)
                           \/ \E x \in Usable : VisitReturnStmt(f, x)
  <2>1. PICK f \in Funs : \/ VisitFunctionDecl(f) \/ \E a \in Usable : VisitCallExpr(f, a)
                          \/ \E x \in Usable : VisitReturnStmt(f, x)
    BY <1>3
  <2>2. PICK x \in Names : VisitFunctionDecl(f) \/ VisitCallExpr(f, x) \/ VisitReturnStmt(f, x)
    BY <1>1, <2>1
  <2>3. QED
    BY <2>2, FunctionSteps
<1>4. CASE \/ \E x \in Usable \cup Funs : UsedAsArray(x)
           \/ \E x \in Usable : \/ \E op \in {"++", "!"} : VisitUnaryOperator(op, x)
                                \/ \E y \in Usable : VisitAssign(x, y)
                                \/ \E f \in Funs : VisitAssignCall(x, f)
  <2>1. PICK x \in Names, y \in Names, op \in {"++", "!"} :
          \/ UsedAsArray(x) \/ VisitUnaryOperator(op, x)
          \/ VisitAssign(x, y) \/ VisitAssignCall(x, y)
    BY <1>1, <1>4
  <2>2. QED
    BY <2>1, UseSteps
<1>5. QED
  BY <1>2, <1>3, <1>4 DEF VisitNode

-----------------------------------------------------------------------------
(***************************************************************************)
(* finalizePointers and updateDependentPointers.                           *)
(***************************************************************************)

LEMMA ClosureSame ==
  ASSUME WithData' = WithData, UNCHANGED <<seeds, from>>
  PROVE  ArrayClosure' = ArrayClosure
BY DEF ArrayClosure

LEMMA StartFinalizeStep ==
  ASSUME IInv, StartFinalize
  PROVE  IInv'
<1>0. TypeOK /\ FiniteOK /\ FlowsOK /\ CallsOK
  BY DEF IInv
<1>1. /\ pc = "visit" /\ pc' = "finalize" /\ seeds' = {x \in WithData : ~singleton[x]}
      /\ UNCHANGED <<entry, singleton, from, flows, declared, visits, cursor, calls, file>>
  BY DEF StartFinalize
<1>2. WithData' = WithData /\ Arrays' = Arrays /\ seeds' = Arrays /\ Arrays \subseteq Names
  BY <1>1 DEF WithData, Arrays
<1>3. TypeOK' /\ FiniteOK'
  BY <1>0, <1>1, <1>2 DEF TypeOK, FiniteOK
<1>4. FlowsOK' /\ FileOK'
  BY <1>0, <1>1 DEF FlowsOK, FileOK
<1>5. calls = <<>> /\ Len(calls) = 0
  BY <1>0, <1>1 DEF CallsOK
<1>6. CallsOK'
  BY <1>1, <1>5 DEF CallsOK
<1>7. \A x \in Arrays : x \in WithData
  BY DEF Arrays
<1>8. Arrays' \subseteq ArrayClosure'
  BY <1>2, <1>7 DEF ArrayClosure
<1>9. \A p \in Arrays : ~(p <= cursor')
  <2>1. cursor' = 0
    BY <1>1 DEF IInv, PassOK
  <2>2. \A p \in Arrays : p \in Nat \ {0}
    BY <1>2, NamesAssumption
  <2>3. QED
    BY <2>1, <2>2
<1>10. PassOK'
  BY <1>1, <1>2, <1>8, <1>9 DEF PassOK
<1>11. QED
  BY <1>3, <1>4, <1>6, <1>10 DEF IInv

\* The calls change with the first record of a call: nothing else does.
LEMMA NextPointerStep ==
  ASSUME IInv, NextPointer
  PROVE  IInv'
<1>0. TypeOK /\ FiniteOK /\ FlowsOK /\ CallsOK /\ PassOK /\ FileOK
  BY DEF IInv
<1>1. /\ pc = "finalize" /\ calls = <<>>
      /\ UNCHANGED <<entry, singleton, from, flows, declared, visits, seeds, file>>
  BY DEF NextPointer
<1>2. /\ WithData' = WithData /\ Arrays' = Arrays /\ ArrayClosure' = ArrayClosure
      /\ WithData \subseteq Names /\ Names \subseteq Nat \ {0} /\ Arrays \subseteq WithData
  BY <1>1, ClosureSame, NamesAssumption DEF WithData, Arrays
<1>3. Len(calls) = 0 /\ cursor \in Nat
  BY <1>0, <1>1, NamesAssumption DEF TypeOK
<1>4. FiniteOK' /\ FlowsOK'
  <2>1. pc' \in {"finalize", "save"}
    BY <1>1 DEF NextPointer
  <2>2. QED
    BY <1>0, <1>1, <1>2, <2>1 DEF FiniteOK, FlowsOK
<1>5. CASE Remaining # {}
  <2>1. PICK p : p = Least(Remaining)
    OBVIOUS
  <2>2. pc' = pc /\ cursor' = p /\ calls' = <<[ptr |-> p, left |-> from[p]]>>
    BY <1>1, <1>5, <2>1 DEF NextPointer
  <2>3. Remaining \subseteq Nat
    BY <1>2 DEF Remaining
  <2>4. p \in Remaining /\ \A x \in Remaining : p <= x
    BY <1>5, <2>1, <2>3, LeastElement
  <2>5. p \in WithData /\ p \in Names /\ p > cursor
    BY <1>2, <2>4 DEF Remaining
  <2>6. from[p] \subseteq Names
    BY <1>0, <2>5 DEF TypeOK
  <2>7. /\ Len(calls') = 1 /\ calls'[1].ptr = p /\ calls'[1].left = from[p]
        /\ calls' \in Seq([ptr: Names, left: SUBSET Names])
    BY <2>2, <2>5, <2>6
  <2>8. TypeOK'
    BY <1>0, <1>1, <2>2, <2>5, <2>7 DEF TypeOK
  <2>9. CallsOK'
    BY <1>1, <1>2, <2>2, <2>5, <2>7 DEF CallsOK
  <2>10. PassOK'
    <3>1. ASSUME NEW x \in Arrays, x <= p, NEW q \in from[x] \cap WithData
          PROVE  q \in Arrays \/ \E k \in 1 .. Len(calls') : calls'[k].ptr = x /\ q \in calls'[k].left
      <4>1. CASE x = p
        BY <2>7, <3>1, <4>1
      <4>2. CASE x # p
        <5>1. x \in Nat /\ x \in WithData /\ p \in Nat
          BY <1>2, <2>5
        <5>2. x <= cursor
          BY <1>3, <2>4, <3>1, <4>2, <5>1 DEF Remaining
        <5>3. QED
          BY <1>0, <1>1, <1>3, <3>1, <5>2 DEF PassOK
      <4>3. QED
        BY <4>1, <4>2
    <3>2. QED
      BY <1>0, <1>1, <1>2, <2>2, <3>1 DEF PassOK
  <2>11. FileOK'
    BY <1>1, <2>2 DEF FileOK
  <2>12. QED
    BY <1>4, <2>8, <2>9, <2>10, <2>11 DEF IInv
<1>6. CASE Remaining = {}
  <2>1. pc' = "save" /\ UNCHANGED <<cursor, calls>>
    BY <1>1, <1>6 DEF NextPointer
  <2>2. \A p \in Arrays : p <= cursor
    BY <1>2, <1>3, <1>6 DEF Remaining
  <2>3. \A p \in Arrays : from[p] \cap WithData \subseteq Arrays
    BY <1>0, <1>1, <1>3, <2>2 DEF PassOK
  <2>4. PassOK'
    BY <1>0, <1>1, <1>2, <2>1, <2>3 DEF PassOK
  <2>5. TypeOK' /\ CallsOK' /\ FileOK'
    BY <1>0, <1>1, <1>3, <2>1 DEF TypeOK, CallsOK, FileOK
  <2>6. QED
    BY <1>4, <2>4, <2>5 DEF IInv
<1>7. QED
  BY <1>5, <1>6

LEMMA UpdateReturnsStep ==
  ASSUME IInv, UpdateReturns
  PROVE  IInv'
<1>0. TypeOK /\ FiniteOK /\ FlowsOK /\ CallsOK /\ PassOK /\ FileOK
  BY DEF IInv
<1>1. /\ pc = "finalize" /\ calls # <<>> /\ calls[Len(calls)].left = {}
      /\ calls' = SubSeq(calls, 1, Len(calls) - 1)
      /\ UNCHANGED <<entry, singleton, from, flows, declared, visits, pc, seeds, cursor, file>>
  BY DEF UpdateReturns
<1>2. WithData' = WithData /\ Arrays' = Arrays /\ ArrayClosure' = ArrayClosure
  BY <1>1, ClosureSame DEF WithData, Arrays
<1>3. PICK n \in Nat : n + 1 = Len(calls) /\ calls \in Seq([ptr: Names, left: SUBSET Names])
  <2>1. Len(calls) \in Nat /\ Len(calls) # 0 /\ calls \in Seq([ptr: Names, left: SUBSET Names])
    BY <1>0, <1>1 DEF TypeOK
  <2>2. Len(calls) - 1 \in Nat /\ (Len(calls) - 1) + 1 = Len(calls)
    BY <2>1
  <2>3. QED
    BY <2>1, <2>2
<1>4. /\ Len(calls') = n /\ \A k \in 1 .. n : calls'[k] = calls[k]
      /\ calls' \in Seq([ptr: Names, left: SUBSET Names])
  <2>1. calls' = SubSeq(calls, 1, n)
    BY <1>1, <1>3
  <2>2. Len(calls') = n /\ \A k \in 1 .. n : calls'[k] = calls[k]
    BY <1>3, <2>1
  <2>3. calls' = [k \in 1 .. n |-> calls[k]]
    BY <1>3, <2>1
  <2>4. PICK T : T = [ptr: Names, left: SUBSET Names]
    OBVIOUS
  <2>5. calls \in Seq(T) /\ \A k \in 1 .. n : k \in 1 .. Len(calls)
    BY <1>3, <2>4
  <2>6. \A k \in 1 .. n : calls[k] \in T
    BY <2>5
  <2>7. calls' \in Seq(T)
    BY <1>3, <2>3, <2>6
  <2>8. QED
    BY <2>2, <2>4, <2>7
<1>5. TypeOK' /\ FiniteOK' /\ FlowsOK' /\ FileOK'
  BY <1>0, <1>1, <1>2, <1>4 DEF TypeOK, FiniteOK, FlowsOK, FileOK
<1>6. 1 .. n \subseteq 1 .. Len(calls) /\ 2 .. n \subseteq 2 .. Len(calls) /\ 2 .. n \subseteq 1 .. n
  BY <1>3
<1>7. CallsOK'
  BY <1>0, <1>1, <1>2, <1>4, <1>6 DEF CallsOK
<1>8. \A k \in 1 .. Len(calls) : k \in 1 .. n \/ calls[k].left = {}
  BY <1>1, <1>3
<1>9. PassOK'
  BY <1>0, <1>1, <1>2, <1>4, <1>8 DEF PassOK
<1>10. QED
  BY <1>5, <1>7, <1>9 DEF IInv

\* One name of the list of the last call, whose flag is not changed.
LEMMA UpdateKeeps ==
  ASSUME IInv, NEW n \in Nat, n = Len(calls), n # 0, NEW p, p = calls[n].ptr,
         NEW q \in Names, q \in calls[n].left, pc = "finalize",
         entry' = Lookup(entry, q), UNCHANGED <<from, flows, declared, visits, pc, seeds, cursor, file>>
  PROVE  /\ FiniteOK' /\ FlowsOK' /\ FileOK' /\ WithData' = WithData /\ ArrayClosure' = ArrayClosure
         /\ entry' \in [Names -> {"absent", "null", "data"}]
         /\ p \in WithData /\ q \in from[p] /\ (n # 1 => p \in Arrays)
         /\ calls \in Seq([ptr: Names, left: SUBSET Names])
         /\ \A k \in 1 .. n : calls[k] \in [ptr: Names, left: SUBSET Names]
<1>0. TypeOK /\ FiniteOK /\ FlowsOK /\ CallsOK
  BY DEF IInv
<1>1. /\ entry' \in [Names -> {"absent", "null", "data"}]
      /\ \A z \in Names : entry[z] # "absent" => entry'[z] = entry[z]
      /\ \A z \in Names : entry'[z] = "data" <=> entry[z] = "data"
  BY <1>0, Lookups DEF TypeOK
<1>2. WithData' = WithData
  BY <1>1 DEF WithData
<1>3. ArrayClosure' = ArrayClosure
  BY <1>2, ClosureSame
<1>4. FiniteOK' /\ FileOK'
  BY <1>0, <1>2 DEF FiniteOK, FileOK
<1>5. FlowsOK'
  <2>1. \A g \in flows : g[2] \in Names /\ g[3] \in Names
    BY <1>0 DEF TypeOK
  <2>2. QED
    BY <1>0, <1>1, <2>1 DEF FlowsOK
<1>6. calls \in Seq([ptr: Names, left: SUBSET Names])
  BY <1>0 DEF TypeOK
<1>7. p \in WithData /\ q \in from[p] /\ (n # 1 => p \in Arrays)
  <2>1. n \in 1 .. Len(calls) /\ (n # 1 => n \in 2 .. Len(calls))
    OBVIOUS
  <2>2. QED
    BY <1>0, <2>1 DEF CallsOK
<1>8. PICK T : T = [ptr: Names, left: SUBSET Names]
  OBVIOUS
<1>9. \A k \in 1 .. n : calls[k] \in T
  <2>1. calls \in Seq(T) /\ \A k \in 1 .. n : k \in 1 .. Len(calls)
    BY <1>6, <1>8
  <2>2. QED
    BY <2>1
<1>10. QED
  BY <1>1, <1>2, <1>3, <1>4, <1>5, <1>6, <1>7, <1>8, <1>9

\* The name q is taken from the list of the last call.
Call == [ptr: Names, left: SUBSET Names]

Rest(s, n, q) == [s EXCEPT ![n].left = @ \ {q}]

LEMMA RestCalls ==
  ASSUME NEW s \in Seq(Call), NEW n \in Nat, n = Len(s), n # 0, NEW q,
         NEW r, r = Rest(s, n, q)
  PROVE  /\ r \in Seq(Call) /\ Len(r) = n
         /\ \A k \in 1 .. n - 1 : r[k] = s[k]
         /\ r[n].ptr = s[n].ptr /\ r[n].left = s[n].left \ {q}
<1>1. PICK T : T = Call
  OBVIOUS
<1>2. n \in 1 .. n /\ \A k \in 1 .. n : s[k] \in T
  <2>1. s \in Seq(T) /\ n \in 1 .. n /\ \A k \in 1 .. n : k \in 1 .. Len(s)
    BY <1>1
  <2>2. QED
    BY <2>1
<1>3. s[n] \in [ptr: Names, left: SUBSET Names]
  BY <1>1, <1>2 DEF Call
<1>4. PICK u : u = [s[n] EXCEPT !.left = @ \ {q}]
  OBVIOUS
<1>5. u \in [ptr: Names, left: SUBSET Names] /\ u.ptr = s[n].ptr /\ u.left = s[n].left \ {q}
  BY <1>3, <1>4
<1>6. r = [s EXCEPT ![n] = u]
  BY <1>4 DEF Rest
<1>7. s \in Seq(T) /\ u \in T
  BY <1>1, <1>5 DEF Call
<1>8. r \in Seq(T) /\ Len(r) = n /\ r[n] = u /\ \A k \in 1 .. n - 1 : r[k] = s[k]
  <2>1. s \in [1 .. n -> T] /\ s = [k \in 1 .. n |-> s[k]]
    BY <1>7
  <2>2. r \in [1 .. n -> T] /\ r[n] = u /\ \A k \in 1 .. n : k # n => r[k] = s[k]
    BY <1>2, <1>6, <1>7, <2>1
  <2>3. r \in Seq(T)
    <3>1. r = [k \in 1 .. n |-> IF k = n THEN u ELSE s[k]]
      BY <1>6, <2>1
    <3>2. \A k \in 1 .. n : (IF k = n THEN u ELSE s[k]) \in T
      BY <1>2, <1>7
    <3>3. QED
      BY <3>1, <3>2
  <2>4. Len(r) = n
    <3>1. DOMAIN r = 1 .. n /\ DOMAIN r = 1 .. Len(r) /\ Len(r) \in Nat
      BY <2>2, <2>3
    <3>2. n \in 1 .. Len(r) /\ (Len(r) # 0 => Len(r) \in 1 .. n)
      BY <3>1
    <3>3. QED
      BY <3>1, <3>2
  <2>5. \A k \in 1 .. n - 1 : k \in 1 .. n /\ k # n
    OBVIOUS
  <2>6. QED
    BY <2>2, <2>3, <2>4, <2>5
<1>9. QED
  BY <1>1, <1>5, <1>8

LEMMA UpdateStay ==
  ASSUME IInv, NEW q \in Names, pc = "finalize", calls # <<>>, q \in calls[Len(calls)].left,
         entry' = Lookup(entry, q), singleton' = singleton,
         entry[q] # "data" \/ singleton[calls[Len(calls)].ptr] = singleton[q],
         calls' = [calls EXCEPT ![Len(calls)].left = @ \ {q}],
         UNCHANGED <<from, flows, declared, visits, pc, seeds, cursor, file>>
  PROVE  IInv'
<1>0. TypeOK /\ CallsOK /\ PassOK
  BY DEF IInv
<1>1. PICK n \in Nat : n = Len(calls) /\ n # 0
  BY <1>0 DEF TypeOK
<1>2. PICK p : p = calls[n].ptr
  OBVIOUS
<1>3. /\ FiniteOK' /\ FlowsOK' /\ FileOK' /\ WithData' = WithData /\ ArrayClosure' = ArrayClosure
      /\ entry' \in [Names -> {"absent", "null", "data"}]
      /\ p \in WithData /\ q \in from[p]
      /\ calls \in Seq([ptr: Names, left: SUBSET Names])
  BY <1>1, <1>2, UpdateKeeps
<1>4. /\ calls' \in Seq([ptr: Names, left: SUBSET Names]) /\ Len(calls') = n
      /\ \A k \in 1 .. n - 1 : calls'[k] = calls[k]
      /\ calls'[n].ptr = p /\ calls'[n].left = calls[n].left \ {q}
  <2>1. PICK s, r : s = calls /\ r = calls'
    OBVIOUS
  <2>2. s \in Seq(Call) /\ n = Len(s) /\ n # 0
    BY <1>1, <1>3, <2>1 DEF Call
  <2>3. r = Rest(s, n, q)
    BY <1>1, <2>1 DEF Rest
  <2>4. /\ r \in Seq(Call) /\ Len(r) = n
        /\ \A k \in 1 .. n - 1 : r[k] = s[k]
        /\ r[n].ptr = s[n].ptr /\ r[n].left = s[n].left \ {q}
    BY <2>2, <2>3, RestCalls
  <2>5. QED
    BY <1>2, <2>1, <2>4 DEF Call
<1>5. Arrays' = Arrays
  BY <1>3 DEF Arrays
<1>6. \A k \in 1 .. n : /\ calls'[k].ptr = calls[k].ptr /\ calls'[k].left \subseteq calls[k].left
                        /\ calls[k].left \subseteq calls'[k].left \cup {q}
                        /\ q \in calls[k].left => q \in calls'[k].left \/ k = n
  BY <1>1, <1>2, <1>4
<1>7. TypeOK'
  BY <1>0, <1>3, <1>4 DEF TypeOK
<1>8. CallsOK'
  BY <1>0, <1>1, <1>3, <1>4, <1>5, <1>6 DEF CallsOK
<1>9. PassOK'
  <2>1. p \in Arrays /\ q \in WithData => q \in Arrays
    BY <1>1, <1>2, <1>3 DEF Arrays, WithData
  <2>2. ASSUME NEW x \in Arrays, x <= cursor, NEW y \in from[x] \cap WithData
        PROVE  y \in Arrays \/ \E k \in 1 .. n : calls'[k].ptr = x /\ y \in calls'[k].left
    <3>1. CASE y \in Arrays
      BY <3>1
    <3>2. CASE y \notin Arrays
      <4>1. PICK k \in 1 .. n : calls[k].ptr = x /\ y \in calls[k].left
        BY <1>0, <1>1, <2>2, <3>2 DEF PassOK
      <4>2. CASE y = q /\ k = n
        BY <1>2, <2>1, <2>2, <3>2, <4>1, <4>2
      <4>3. CASE ~(y = q /\ k = n)
        BY <1>6, <4>1, <4>3
      <4>4. QED
        BY <4>2, <4>3
    <3>3. QED
      BY <3>1, <3>2
  <2>3. QED
    BY <1>0, <1>3, <1>4, <1>5, <2>2 DEF PassOK
<1>10. QED
  BY <1>3, <1>7, <1>8, <1>9 DEF IInv

\* The call for a name that has become an array, or, in the first call, was one.
LEMMA UpdateGo ==
  ASSUME IInv, NEW q \in Names, pc = "finalize", calls # <<>>, q \in calls[Len(calls)].left,
         entry' = Lookup(entry, q), singleton' = [singleton EXCEPT ![q] = FALSE],
         entry[q] = "data", singleton[calls[Len(calls)].ptr] # singleton[q],
         calls' = Append([calls EXCEPT ![Len(calls)].left = @ \ {q}], [ptr |-> q, left |-> from[q]]),
         UNCHANGED <<from, flows, declared, visits, pc, seeds, cursor, file>>
  PROVE  IInv'
<1>0. TypeOK /\ CallsOK /\ PassOK /\ singleton \in [Names -> BOOLEAN] /\ from \in [Names -> SUBSET Names]
  BY DEF IInv, TypeOK
<1>1. PICK n \in Nat : n = Len(calls) /\ n # 0
  BY <1>0 DEF TypeOK
<1>2. PICK p : p = calls[n].ptr
  OBVIOUS
<1>3. /\ FiniteOK' /\ FlowsOK' /\ FileOK' /\ WithData' = WithData /\ ArrayClosure' = ArrayClosure
      /\ entry' \in [Names -> {"absent", "null", "data"}]
      /\ p \in WithData /\ q \in from[p] /\ (n # 1 => p \in Arrays)
      /\ calls \in Seq([ptr: Names, left: SUBSET Names])
  BY <1>1, <1>2, UpdateKeeps
<1>4. PICK r : r = [calls EXCEPT ![Len(calls)].left = @ \ {q}]
  OBVIOUS
<1>5. /\ r \in Seq([ptr: Names, left: SUBSET Names]) /\ Len(r) = n
      /\ \A k \in 1 .. n - 1 : r[k] = calls[k]
      /\ r[n].ptr = p /\ r[n].left = calls[n].left \ {q}
  <2>1. PICK s : s = calls
    OBVIOUS
  <2>2. s \in Seq(Call) /\ n = Len(s) /\ n # 0
    BY <1>1, <1>3, <2>1 DEF Call
  <2>3. r = Rest(s, n, q)
    BY <1>1, <1>4, <2>1 DEF Rest
  <2>4. /\ r \in Seq(Call) /\ Len(r) = n
        /\ \A k \in 1 .. n - 1 : r[k] = s[k]
        /\ r[n].ptr = s[n].ptr /\ r[n].left = s[n].left \ {q}
    <3>1. r \in Seq(Call) /\ Len(r) = n
      BY <2>2, <2>3, RestCalls
    <3>2. \A k \in 1 .. n - 1 : r[k] = s[k]
      BY <2>2, <2>3, RestCalls
    <3>3. r[n].ptr = s[n].ptr
      BY <2>2, <2>3, RestCalls
    <3>4. r[n].left = s[n].left \ {q}
      BY <2>2, <2>3, RestCalls
    <3>5. QED
      BY <3>1, <3>2, <3>3, <3>4
  <2>5. QED
    BY <1>2, <2>1, <2>4 DEF Call
<1>6. PICK c : c = [ptr |-> q, left |-> from[q]]
  OBVIOUS
<1>7. c \in [ptr: Names, left: SUBSET Names] /\ c.ptr = q /\ c.left = from[q]
  BY <1>0, <1>6
<1>8. calls' = Append(r, c)
  BY <1>4, <1>6
<1>9. /\ calls' \in Seq([ptr: Names, left: SUBSET Names]) /\ Len(calls') = n + 1
      /\ \A k \in 1 .. n : calls'[k] = r[k]
      /\ calls'[n + 1] = c
  <2>1. PICK T : T = [ptr: Names, left: SUBSET Names]
    OBVIOUS
  <2>2. r \in Seq(T) /\ c \in T
    BY <1>5, <1>7, <2>1
  <2>3. calls' \in Seq(T)
    <3>1. Append(r, c) \in Seq(T)
      BY <2>2
    <3>2. QED
      BY <1>8, <3>1
  <2>4. Len(calls') = n + 1
    <3>1. Len(Append(r, c)) = Len(r) + 1
      BY <2>2
    <3>2. QED
      BY <1>5, <1>8, <3>1
  <2>5. Append(r, c)[n + 1] = c /\ \A k \in 1 .. n : Append(r, c)[k] = r[k]
    BY <1>5, <2>2
  <2>6. QED
    BY <1>8, <2>1, <2>3, <2>4, <2>5
<1>10. \A k \in 1 .. n : /\ calls'[k].ptr = calls[k].ptr /\ calls'[k].left \subseteq calls[k].left
                         /\ \A y \in calls[k].left : y # q => y \in calls'[k].left
  BY <1>1, <1>2, <1>5, <1>9
<1>11. q \in WithData /\ Arrays' = Arrays \cup {q} /\ WithData \subseteq Names
  <2>1. \A x \in Names : singleton'[x] <=> singleton[x] /\ x # q
    BY <1>0
  <2>2. q \in WithData /\ WithData \subseteq Names
    BY DEF WithData
  <2>3. QED
    BY <1>3, <2>1, <2>2 DEF Arrays
<1>12. q \in Arrays \/ p \in Arrays
  BY <1>0, <1>1, <1>2, <1>3, <1>11 DEF Arrays
<1>13. p \in Arrays => q \notin Arrays
  BY <1>0, <1>1, <1>2, <1>3, <1>11 DEF Arrays
<1>14. singleton' \in [Names -> BOOLEAN]
  BY <1>0
<1>15. TypeOK'
  BY <1>0, <1>3, <1>9, <1>14 DEF TypeOK
<1>16. CallsOK'
  <2>1. ASSUME NEW k \in 1 .. n + 1
        PROVE  calls'[k].ptr \in WithData /\ calls'[k].left \subseteq from[calls'[k].ptr]
    <3>1. CASE k = n + 1
      BY <1>7, <1>9, <1>11, <3>1
    <3>2. CASE k # n + 1
      <4>1. k \in 1 .. n
        BY <1>1, <3>2
      <4>2. QED
        BY <1>0, <1>1, <1>10, <4>1 DEF CallsOK
    <3>3. QED
      BY <3>1, <3>2
  <2>2. ASSUME NEW k \in 2 .. n + 1, k # n + 1
        PROVE  k \in 1 .. n /\ k \in 2 .. n /\ calls'[k].ptr = calls[k].ptr /\ calls[k].ptr \in Arrays /\ n # 1
    <3>1. k \in 1 .. n /\ k \in 2 .. n /\ n # 1
      BY <1>1, <2>2
    <3>2. QED
      BY <1>0, <1>1, <1>10, <3>1 DEF CallsOK
  <2>3. calls'[n + 1].ptr = q
    BY <1>7, <1>9
  <2>4. ASSUME NEW k \in 2 .. n + 1, k # n + 1 PROVE calls'[k].ptr # q
    BY <1>3, <1>13, <2>2, <2>4
  <2>5. ASSUME NEW k \in 2 .. n + 1 PROVE calls'[k].ptr \in Arrays \cup {q}
    BY <2>2, <2>3
  <2>6. ASSUME NEW j \in 2 .. n + 1, NEW k \in 2 .. n + 1, j # k PROVE calls'[j].ptr # calls'[k].ptr
    <3>1. CASE j = n + 1 \/ k = n + 1
      BY <2>3, <2>4, <2>6, <3>1
    <3>2. CASE j # n + 1 /\ k # n + 1
      <4>1. /\ j \in 2 .. n /\ calls'[j].ptr = calls[j].ptr
            /\ k \in 2 .. n /\ calls'[k].ptr = calls[k].ptr
        BY <2>2, <3>2
      <4>2. QED
        BY <1>0, <1>1, <2>6, <4>1 DEF CallsOK
    <3>3. QED
      BY <3>1, <3>2
  <2>7. QED
    BY <1>3, <1>9, <1>11, <2>1, <2>5, <2>6 DEF CallsOK
<1>17. PassOK'
  <2>1. seeds \subseteq Arrays /\ Arrays \subseteq ArrayClosure
    BY <1>0 DEF PassOK
  <2>2. q \in ArrayClosure
    <3>1. CASE q \in Arrays
      BY <2>1, <3>1
    <3>2. CASE p \in Arrays
      <4>1. p \in ArrayClosure /\ q \in from[p] \cap WithData
        BY <1>3, <1>11, <2>1, <3>2
      <4>2. QED
        BY <4>1 DEF ArrayClosure
    <3>3. QED
      BY <1>12, <3>1, <3>2
  <2>3. ASSUME NEW x \in Arrays \cup {q}, x <= cursor, NEW y \in from[x] \cap WithData
        PROVE  y \in Arrays \cup {q} \/ \E k \in 1 .. n + 1 : calls'[k].ptr = x /\ y \in calls'[k].left
    <3>1. CASE x = q
      <4>1. n + 1 \in 1 .. n + 1
        BY <1>1
      <4>2. QED
        BY <1>7, <1>9, <2>3, <3>1, <4>1
    <3>2. CASE y \notin Arrays \cup {q} /\ x # q
      <4>1. PICK k \in 1 .. n : calls[k].ptr = x /\ y \in calls[k].left
        BY <1>0, <1>1, <2>3, <3>2 DEF PassOK
      <4>2. k \in 1 .. n + 1
        BY <1>1
      <4>3. QED
        BY <1>10, <3>2, <4>1, <4>2
    <3>3. QED
      BY <3>1, <3>2
  <2>4. pc' = "finalize" /\ cursor' = cursor /\ seeds' = seeds /\ from' = from
    OBVIOUS
  <2>5. seeds' \subseteq Arrays' /\ Arrays' \subseteq ArrayClosure'
    BY <1>3, <1>11, <2>1, <2>2, <2>4
  <2>6. QED
    BY <1>3, <1>9, <1>11, <2>3, <2>4, <2>5 DEF PassOK
<1>18. QED
  BY <1>3, <1>15, <1>16, <1>17 DEF IInv

LEMMA UpdateStepStep ==
  ASSUME IInv, UpdateStep
  PROVE  IInv'
<1>1. PICK q \in Names : Update(q)
  BY DEF UpdateStep
<1>2. /\ pc = "finalize" /\ calls # <<>> /\ UNCHANGED <<from, flows, declared, visits, pc, seeds, cursor, file>>
  BY DEF UpdateStep
<1>3. q \in calls[Len(calls)].left /\ entry' = Lookup(entry, q)
  BY <1>1 DEF Update
<1>4. CASE entry[q] = "data" /\ singleton[calls[Len(calls)].ptr] # singleton[q]
  <2>1. /\ singleton' = [singleton EXCEPT ![q] = FALSE]
        /\ calls' = Append([calls EXCEPT ![Len(calls)].left = @ \ {q}], [ptr |-> q, left |-> from[q]])
    BY <1>1, <1>4 DEF Update
  <2>2. QED
    BY <1>2, <1>3, <1>4, <2>1, UpdateGo
<1>5. CASE ~(entry[q] = "data" /\ singleton[calls[Len(calls)].ptr] # singleton[q])
  <2>1. singleton' = singleton /\ calls' = [calls EXCEPT ![Len(calls)].left = @ \ {q}]
    BY <1>1, <1>5 DEF Update
  <2>2. QED
    BY <1>2, <1>3, <1>5, <2>1, UpdateStay
<1>6. QED
  BY <1>4, <1>5

-----------------------------------------------------------------------------
(***************************************************************************)
(* The file.                                                               *)
(***************************************************************************)

\* The first two tokens of a line, whatever the order of the rest.
LEMMA TokensOfLine ==
  ASSUME NEW S, IsFiniteSet(S), NEW x, NEW kind, NEW line,
         line = <<x, kind>> \o (CHOOSE s \in Perms(S) : TRUE)
  PROVE  line[1] = x /\ line[2] = kind
<1>1. PICK n \in Nat : n = Cardinality(S)
  BY FS_CardinalityType
<1>2. ExistsBijection(1 .. n, S)
  BY <1>1, FS_CardinalityType
<1>3. PICK s : s \in Perms(S) /\ s = (CHOOSE t \in Perms(S) : TRUE)
  <2>1. PICK f \in [1 .. n -> S] : \A i, j \in 1 .. n : f[i] = f[j] => i = j
    BY <1>2 DEF ExistsBijection, Bijection, Injection, IsInjective
  <2>2. f \in Perms(S)
    BY <1>1, <2>1 DEF Perms
  <2>3. QED
    BY <2>2
<1>4. s \in [1 .. n -> S]
  BY <1>1, <1>3 DEF Perms
<1>5. s \in Seq(S)
  <2>1. s = [k \in 1 .. n |-> s[k]] /\ \A k \in 1 .. n : s[k] \in S
    BY <1>4
  <2>2. QED
    BY <2>1
<1>6. PICK h : h = <<x, kind>>
  OBVIOUS
<1>7. Len(h) = 2 /\ h[1] = x /\ h[2] = kind /\ line = h \o s
  BY <1>3, <1>6
<1>8. QED
  BY <1>5, <1>6, <1>7

LEMMA outputPointersStep ==
  ASSUME IInv, outputPointers
  PROVE  IInv'
<1>0. TypeOK /\ FiniteOK /\ FlowsOK /\ CallsOK /\ PassOK /\ singleton \in [Names -> BOOLEAN]
  BY DEF IInv, TypeOK
<1>1. /\ pc = "save" /\ pc' = "load"
      /\ file' = {<<x, IF singleton[x] THEN PTR ELSE APTR>> \o (CHOOSE s \in Perms(from[x]) : TRUE) : x \in WithData}
      /\ UNCHANGED <<entry, singleton, from, flows, declared, visits, seeds, cursor, calls>>
  BY DEF outputPointers
<1>2. WithData' = WithData /\ Arrays' = Arrays /\ WithData \subseteq Names
  BY <1>1 DEF WithData, Arrays
<1>3. ASSUME NEW x \in WithData, NEW line,
             line = <<x, IF singleton[x] THEN PTR ELSE APTR>> \o (CHOOSE s \in Perms(from[x]) : TRUE)
      PROVE  line[1] = x /\ (KindOfLine(line) = APTR <=> x \in Arrays)
  <2>1. PICK kind : kind = IF singleton[x] THEN PTR ELSE APTR
    OBVIOUS
  <2>2. PICK S : S = from[x] /\ IsFiniteSet(S)
    BY <1>0, <1>2 DEF FiniteOK
  <2>3. line = <<x, kind>> \o (CHOOSE s \in Perms(S) : TRUE)
    BY <1>3, <2>1, <2>2
  <2>4. line[1] = x /\ line[2] = kind
    BY <2>2, <2>3, TokensOfLine
  <2>5. kind = APTR <=> ~singleton[x]
    BY <2>1 DEF PTR, APTR
  <2>6. QED
    BY <2>4, <2>5 DEF KindOfLine, Arrays
<1>4. FileOK'
  <2>1. ASSUME NEW line \in file' PROVE line[1] \in WithData /\ (KindOfLine(line) = APTR <=> line[1] \in Arrays)
    <3>1. PICK x \in WithData : line = <<x, IF singleton[x] THEN PTR ELSE APTR>> \o (CHOOSE s \in Perms(from[x]) : TRUE)
      BY <1>1
    <3>2. QED
      BY <1>3, <3>1
  <2>2. ASSUME NEW x \in WithData PROVE \E line \in file' : line[1] = x
    <3>1. PICK line \in file' : line = <<x, IF singleton[x] THEN PTR ELSE APTR>> \o (CHOOSE s \in Perms(from[x]) : TRUE)
      BY <1>1
    <3>2. QED
      BY <1>3, <3>1
  <2>3. QED
    BY <1>2, <2>1, <2>2 DEF FileOK, KindOfLine
<1>5. TypeOK' /\ FiniteOK' /\ FlowsOK'
  BY <1>0, <1>1, <1>2 DEF TypeOK, FiniteOK, FlowsOK
<1>6. CallsOK' /\ PassOK'
  <2>1. calls = <<>> /\ Len(calls) = 0
    BY <1>0, <1>1 DEF CallsOK
  <2>2. QED
    BY <1>1, <2>1 DEF CallsOK, PassOK
<1>7. QED
  BY <1>4, <1>5, <1>6 DEF IInv

LEMMA inputPointersStep ==
  ASSUME IInv, inputPointers
  PROVE  IInv' /\ \A x \in Names : isSingleton(x)' = isSingleton(x)
<1>0. TypeOK /\ FiniteOK /\ CallsOK /\ FileOK /\ singleton \in [Names -> BOOLEAN]
  BY DEF IInv, TypeOK
<1>1. /\ pc = "load" /\ pc' = "translate"
      /\ entry' = [x \in Names |-> IF \E line \in file : line[1] = x THEN "data" ELSE "absent"]
      /\ singleton' = [x \in Names |-> \A line \in file : line[1] = x => KindOfLine(line) # APTR]
      /\ from' = [x \in Names |-> {}]
      /\ UNCHANGED <<flows, declared, visits, seeds, cursor, calls, file>>
  BY DEF inputPointers
<1>2. /\ \A line \in file : line[1] \in WithData /\ (KindOfLine(line) = APTR <=> line[1] \in Arrays)
      /\ \A x \in WithData : \E line \in file : line[1] = x
  BY <1>0, <1>1 DEF FileOK
<1>3. \A x \in Names : entry'[x] = "data" <=> x \in WithData
  BY <1>1, <1>2
<1>4. \A x \in WithData : singleton'[x] <=> singleton[x]
  <2>1. ASSUME NEW x \in WithData PROVE singleton'[x] <=> x \notin Arrays
    <3>1. x \in Names
      BY DEF WithData
    <3>2. singleton'[x] <=> \A line \in file : line[1] = x => KindOfLine(line) # APTR
      BY <1>1, <3>1
    <3>3. QED
      BY <1>2, <3>2
  <2>2. QED
    BY <2>1 DEF Arrays
<1>5. WithData' = WithData
  BY <1>3 DEF WithData
<1>6. /\ entry' \in [Names -> {"absent", "null", "data"}] /\ singleton' \in [Names -> BOOLEAN]
      /\ from' \in [Names -> SUBSET Names] /\ \A x \in Names : from'[x] = {}
  BY <1>1
<1>7. TypeOK'
  BY <1>0, <1>1, <1>6 DEF TypeOK
<1>8. FiniteOK'
  BY <1>0, <1>5, <1>6, FS_EmptySet DEF FiniteOK
<1>9. FlowsOK' /\ FileOK'
  BY <1>1 DEF FlowsOK, FileOK
<1>10. CallsOK' /\ PassOK'
  <2>1. calls = <<>> /\ Len(calls) = 0
    BY <1>0, <1>1 DEF CallsOK
  <2>2. QED
    BY <1>1, <2>1 DEF CallsOK, PassOK
<1>11. \A x \in Names : isSingleton(x)' = isSingleton(x)
  <2>1. ASSUME NEW x \in Names PROVE isSingleton(x)' <=> isSingleton(x)
    <3>1. (entry'[x] = "data" /\ singleton'[x]) <=> (entry[x] = "data" /\ singleton[x])
      BY <1>3, <1>4 DEF WithData
    <3>2. QED
      BY <3>1 DEF isSingleton
  <2>2. QED
    BY <1>0, <1>6, <2>1 DEF isSingleton
<1>12. QED
  BY <1>7, <1>8, <1>9, <1>10, <1>11 DEF IInv

-----------------------------------------------------------------------------
(***************************************************************************)
(* The inductive invariant, and what follows.                              *)
(***************************************************************************)

LEMMA InitOK ==
  ASSUME Init
  PROVE  IInv
<1>1. TypeOK
  <2>1. visits \in 0 .. MaxVisits
    BY NamesAssumption DEF Init
  <2>2. calls \in Seq([ptr: Names, left: SUBSET Names])
    BY DEF Init
  <2>3. QED
    BY <2>1, <2>2 DEF Init, TypeOK
<1>2. WithData = {}
  BY DEF Init, WithData
<1>3. FiniteOK
  BY <1>2, FS_EmptySet DEF Init, FiniteOK
<1>4. FlowsOK /\ CallsOK /\ PassOK /\ FileOK
  <2>1. calls = <<>> /\ Len(calls) = 0
    BY DEF Init
  <2>2. QED
    BY <2>1 DEF Init, FlowsOK, CallsOK, PassOK, FileOK
<1>5. QED
  BY <1>1, <1>3, <1>4 DEF IInv

LEMMA StutterOK ==
  ASSUME IInv, UNCHANGED vars
  PROVE  IInv'
<1>1. /\ UNCHANGED <<entry, singleton, from, flows, declared, visits, pc, seeds, cursor, calls, file>>
      /\ TypeOK /\ FiniteOK /\ FlowsOK /\ CallsOK /\ PassOK /\ FileOK
  BY DEF IInv, vars
<1>2. WithData' = WithData /\ Arrays' = Arrays /\ ArrayClosure' = ArrayClosure
  BY <1>1, ClosureSame DEF WithData, Arrays
<1>3. TypeOK' /\ FiniteOK' /\ FlowsOK' /\ FileOK'
  BY <1>1, <1>2 DEF TypeOK, FiniteOK, FlowsOK, FileOK
<1>4. CallsOK' /\ PassOK'
  BY <1>1, <1>2 DEF CallsOK, PassOK
<1>5. QED
  BY <1>3, <1>4 DEF IInv

LEMMA StepOK ==
  ASSUME IInv, [Next]_vars
  PROVE  IInv'
<1>1. CASE VisitNode
  BY <1>1, VisitNodeStep
<1>2. CASE StartFinalize
  BY <1>2, StartFinalizeStep
<1>3. CASE Finalize
  BY <1>3, NextPointerStep, UpdateStepStep, UpdateReturnsStep DEF Finalize
<1>4. CASE outputPointers
  BY <1>4, outputPointersStep
<1>5. CASE inputPointers
  BY <1>5, inputPointersStep
<1>6. CASE UNCHANGED vars
  BY <1>6, StutterOK
<1>7. QED
  BY <1>1, <1>2, <1>3, <1>4, <1>5, <1>6 DEF Next

LEMMA Invariance == Spec => []IInv
<1>1. Init => IInv
  BY InitOK
<1>2. IInv /\ [Next]_vars => IInv'
  BY StepOK
<1>3. QED
  BY <1>1, <1>2, PTL DEF Spec

\* The names that the analysis looks up are declared ones, and the calls of
\* updateDependentPointers carry sets of names (AnalysisVisitor.hpp).
THEOREM AnalysisTypes == Spec => []TypeOK
<1>1. IInv => TypeOK
  BY DEF IInv
<1>2. QED
  BY <1>1, Invariance, PTL

\* The arrays are exactly the least set that holds the arrays found by the visit
\* and is closed under the recorded edges (finalizePointers): CallsOK says that
\* no call is left, PassOK that the arrays are then closed.
THEOREM ExactHolds == Spec => []Exact
<1>1. ASSUME IInv, pc = "save"
      PROVE  {x \in WithData : ~singleton[x]} = ArrayClosure
  <2>1. /\ seeds \subseteq Arrays /\ Arrays \subseteq ArrayClosure
        /\ \A p \in Arrays : from[p] \cap WithData \subseteq Arrays
    BY <1>1 DEF IInv, PassOK
  <2>2. Arrays \in SUBSET WithData
    BY DEF Arrays
  <2>3. ArrayClosure \subseteq Arrays
    BY <2>1, <2>2 DEF ArrayClosure
  <2>4. QED
    BY <2>1, <2>3 DEF Arrays
<1>2. IInv => Exact
  BY <1>1 DEF Exact
<1>3. QED
  BY <1>2, Invariance, PTL

\* The calls of updateDependentPointers nest no deeper than there are pointers,
\* on any cycle of assignments: the pointers of all calls but the first differ.
THEOREM DepthHolds == Spec => []DepthBounded
<1>1. ASSUME IInv PROVE Len(calls) <= Cardinality(WithData) + 1
  <2>1. PICK n \in Nat : n = Len(calls)
    BY <1>1 DEF IInv, TypeOK
  <2>2. PICK D : D = WithData /\ IsFiniteSet(D)
    BY <1>1 DEF IInv, FiniteOK
  <2>3. PICK f : f = [k \in 2 .. n |-> calls[k].ptr]
    OBVIOUS
  <2>4. \A k \in 2 .. n : calls[k].ptr \in D
    BY <1>1, <2>1, <2>2 DEF IInv, CallsOK, Arrays
  <2>5. \A j, k \in 2 .. n : j # k => calls[j].ptr # calls[k].ptr
    BY <1>1, <2>1 DEF IInv, CallsOK
  <2>6. f \in [2 .. n -> D] /\ \A j, k \in 2 .. n : f[j] = f[k] => j = k
    BY <2>3, <2>4, <2>5
  <2>7. f \in Injection(2 .. n, D)
    BY <2>6 DEF Injection, IsInjective
  <2>8. Cardinality(2 .. n) <= Cardinality(D) /\ Cardinality(D) \in Nat
    BY <2>2, <2>7, FS_Injection, FS_CardinalityType
  <2>9. Cardinality(2 .. n) = IF 2 > n THEN 0 ELSE n - 2 + 1
    <3>1. PICK a \in Int, b \in Int : a = 2 /\ b = n
      BY <2>1
    <3>2. Cardinality(a .. b) = IF a > b THEN 0 ELSE b - a + 1
      BY FS_Interval
    <3>3. QED
      BY <3>1, <3>2
  <2>10. n <= Cardinality(D) + 1
    BY <2>1, <2>8, <2>9
  <2>11. QED
    BY <2>1, <2>2, <2>10
<1>2. IInv => DepthBounded
  BY <1>1 DEF DepthBounded
<1>3. QED
  BY <1>2, Invariance, PTL

\* When the file is written, no tracked array is initialized with or assigned
\* from a pointer that is translated to a ptr: the edge was recorded when the
\* statement was visited, and the pass has followed it.
THEOREM AssignSoundHolds == Spec => []AssignSound
<1>1. ASSUME IInv, pc = "save", NEW f \in flows, f[1] \in {"init", "assign"},
             entry[f[3]] = "data", ~isSingleton(f[3])
      PROVE  ~isSingleton(f[2])
  <2>1. f[2] \in Names /\ f[3] \in Names
    BY <1>1 DEF IInv, TypeOK
  <2>2. f[3] \in Arrays
    BY <1>1, <2>1 DEF isSingleton, Arrays, WithData
  <2>3. f[2] \in from[f[3]] \/ entry[f[2]] = "null"
    BY <1>1 DEF IInv, FlowsOK
  <2>4. from[f[3]] \cap WithData \subseteq Arrays
    BY <1>1, <2>2 DEF IInv, PassOK
  <2>5. QED
    BY <2>1, <2>3, <2>4 DEF isSingleton, Arrays, WithData
<1>2. IInv => AssignSound
  BY <1>1 DEF AssignSound
<1>3. QED
  BY <1>2, Invariance, PTL

\* The translator reads from the file the classification that the analysis
\* wrote, whatever order the edges have on their lines (outputPointers,
\* inputPointers).
THEOREM SameInTranslatorHolds == Spec => SameInTranslator
<1>1. ASSUME IInv, [Next]_vars, pc = "load", pc' = "translate"
      PROVE  \A x \in Names : isSingleton(x)' = isSingleton(x)
  <2>1. inputPointers
    BY <1>1 DEF Next, vars, VisitNode, VisitDecl, VisitDeclNewArray, VisitDeclInit, VisitFunctionDecl,
       VisitCallExpr, VisitReturnStmt, UsedAsArray, VisitUnaryOperator, VisitAssign, VisitAssignCall, Visit,
       StartFinalize, Finalize, NextPointer, UpdateStep, UpdateReturns, outputPointers
  <2>2. QED
    BY <1>1, <2>1, inputPointersStep
<1>2. IInv /\ [Next]_vars => [pc = "load" /\ pc' = "translate" => \A x \in Names : isSingleton(x)' = isSingleton(x)]_vars
  BY <1>1
<1>3. QED
  BY <1>2, Invariance, PTL DEF Spec, SameInTranslator
=============================================================================
