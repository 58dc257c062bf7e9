---------------------------- MODULE PtrAnalysis ----------------------------
(***************************************************************************)
(* The analysis of the refactoring tool (AnalysisVisitor.hpp): which       *)
(* pointers of a program become ptr (singletons) and which aptr (arrays).  *)
(*                                                                         *)
(* Visiting the program records, in a std::map keyed by name, a flag and   *)
(* edges for each pointer; finalizePointers then propagates arrayness      *)
(* along the edges, and the classification is written to a file that the   *)
(* translator reads.  Looking up a name with pointers[name] leaves a null  *)
(* entry behind when there is none, and InsertInMap never replaces it.     *)
(***************************************************************************)
EXTENDS Integers, Sequences, FiniteSets

CONSTANTS
  Vars,       \* names of pointer variables (locals, globals, fields)
  Funs,       \* names of functions that return a pointer
  ParamOf,    \* ParamOf[f]: the name of the pointer parameter of f
  MaxVisits   \* bound: nodes of the program that matter

Params == {ParamOf[f] : f \in Funs}
Names  == Vars \cup Funs \cup Params

ASSUME NamesAssumption ==
  /\ ParamOf \in [Funs -> Nat \ {0}] /\ Names \subseteq Nat \ {0}
  /\ Vars \cap Funs = {} /\ Vars \cap Params = {} /\ Funs \cap Params = {}
  /\ MaxVisits \in Nat

VARIABLES
  entry,       \* entry[x]: "absent", "null" or "data": pointers[x]
  singleton,   \* PointerData::singleton, where there is data
  from,        \* PointerData::from, as a set
  flows,       \* history: <<kind, x, y>>, the program copies x to y
  declared,    \* history: the declarations visited so far
  visits,      \* nodes visited
  pc,          \* "visit", "finalize", "save", "load" or "translate"
  seeds,       \* history: the arrays that the visit found
  cursor,      \* the iterator of finalizePointers: names up to it are done
  calls,       \* active calls of updateDependentPointers, with what is left
  file         \* safecpp_analysis.txt: the token lists of its lines

vars == <<entry, singleton, from, flows, declared, visits, pc, seeds, cursor, calls,
          file>>

WithData == {x \in Names : entry[x] = "data"}

Lookup(e, x) == [e EXCEPT ![x] = IF @ = "absent" THEN "null" ELSE @]

InsertInMap(e, x) == [e EXCEPT ![x] = IF @ = "absent" THEN "data" ELSE @]

\* clang: UO_Plus .. UO_LNot; the increments and decrements come before.
isArithmeticOp(op) == op \in {"+", "-", "~", "!"}

\* A variable is visited before its uses, and a parameter with its function.
Usable == declared \cap (Vars \cup Params)

-----------------------------------------------------------------------------
Init ==
  /\ entry = [x \in Names |-> "absent"]
  /\ singleton = [x \in Names |-> TRUE]
  /\ from = [x \in Names |-> {}]
  /\ flows = {} /\ declared = {} /\ visits = 0
  /\ pc = "visit" /\ seeds = {} /\ cursor = 0 /\ calls = <<>> /\ file = {}

Visit ==
  /\ pc = "visit" /\ visits < MaxVisits
  /\ visits' = visits + 1
  /\ UNCHANGED <<pc, seeds, cursor, calls, file>>

\* VisitDeclStmt and VisitVarDecl without initializer, VisitRecordDecl.
VisitDecl(x) ==
  /\ Visit
  /\ x \notin declared
  /\ declared' = declared \cup {x}
  /\ entry' = InsertInMap(entry, x)
  /\ UNCHANGED <<singleton, from, flows>>

\* T * x = y; and T * x = f();
VisitDeclInit(x, y) ==
  /\ Visit
  /\ x \notin declared
  /\ declared' = declared \cup {x}
  /\ entry' = InsertInMap(entry, x)
  /\ from' = [from EXCEPT ![x] = @ \cup {y}]
  /\ flows' = flows \cup {<<"init", y, x>>}
  /\ UNCHANGED singleton

\* T * x = new T[n];
VisitDeclNewArray(x) ==
  /\ Visit
  /\ x \notin declared
  /\ declared' = declared \cup {x}
  /\ entry' = InsertInMap(entry, x)
  /\ singleton' = [singleton EXCEPT ![x] = FALSE]
  /\ UNCHANGED <<from, flows>>

VisitFunctionDecl(f) ==
  /\ Visit
  /\ f \notin declared
  /\ declared' = declared \cup {f, ParamOf[f]}
  /\ entry' = InsertInMap(InsertInMap(entry, f), ParamOf[f])
  /\ UNCHANGED <<singleton, from, flows>>

\* ptrData->singleton = false; where pointers[x] has data: x = new T[n], x[i]
\* and, in function x, return new T[n].
UsedAsArray(x) ==
  /\ Visit
  /\ entry' = Lookup(entry, x)
  /\ singleton' = [singleton EXCEPT ![x] = @ /\ entry[x] # "data"]
  /\ UNCHANGED <<from, flows, declared>>

\* ++x, !x and the like.
VisitUnaryOperator(op, x) ==
  /\ Visit
  /\ entry' = Lookup(entry, x)
  /\ singleton' = [singleton EXCEPT ![x] = @ /\ ~(entry[x] = "data" /\ isArithmeticOp(op))]
  /\ UNCHANGED <<from, flows, declared>>

\* Mutant: the edge is recorded at the other end.
VisitAssign_Reversed(x, y) ==
  /\ Visit
  /\ x # y
  /\ entry' = Lookup(entry, x)
  /\ from' = IF entry[x] = "data" THEN [from EXCEPT ![y] = @ \cup {x}] ELSE from
  /\ flows' = flows \cup {<<"assign", y, x>>}
  /\ UNCHANGED <<singleton, declared>>

\* x = y;
VisitAssign(x, y) ==
  /\ Visit
  /\ x # y
  /\ entry' = Lookup(entry, x)
  /\ from' = IF entry[x] = "data" THEN [from EXCEPT ![x] = @ \cup {y}] ELSE from
  /\ flows' = flows \cup {<<"assign", y, x>>}
  /\ UNCHANGED <<singleton, declared>>

\* x = f();
VisitAssignCall(x, f) ==
  /\ Visit
  /\ entry' = IF entry[x] = "data" THEN Lookup(entry, f) ELSE Lookup(entry, x)
  /\ from' = IF entry[x] = "data" /\ entry[f] = "data"
             THEN [from EXCEPT ![f] = @ \cup {x}, ![x] = @ \cup {f}] ELSE from
  /\ flows' = flows \cup {<<"assign", f, x>>}
  /\ UNCHANGED <<singleton, declared>>

\* f(a)
VisitCallExpr(f, a) ==
  LET p == ParamOf[f] IN
  /\ Visit
  /\ entry' = InsertInMap(Lookup(Lookup(entry, a), p), a)
  /\ from' = IF entry[p] = "data" THEN [from EXCEPT ![p] = @ \cup {a}]
             ELSE IF entry[a] = "data" THEN [from EXCEPT ![a] = @ \cup {a}]
             ELSE from
  /\ flows' = flows \cup {<<"call", a, p>>}
  /\ UNCHANGED <<singleton, declared>>

\* return x; in f
VisitReturnStmt(f, x) ==
  /\ Visit
  /\ entry' = Lookup(entry, x)
  /\ from' = IF entry[x] = "data" THEN [from EXCEPT ![x] = @ \cup {f}] ELSE from
  /\ flows' = flows \cup {<<"return", x, f>>}
  /\ UNCHANGED <<singleton, declared>>

VisitNode ==
  \/ \E x \in Vars :
       \/ VisitDecl(x) \/ VisitDeclNewArray(x)
       \/ \E y \in Usable \cup Funs : VisitDeclInit(x, y)
  \/ \E f \in Funs :
       \/ VisitFunctionDecl(f)
       \/ \E a \in Usable : VisitCallExpr(f, a)
       \/ f \in declared /\ (UsedAsArray(f) \/ \E x \in Usable : VisitReturnStmt(f, x))
  \/ \E x \in Usable :
       \/ UsedAsArray(x)
       \/ \E op \in {"++", "!"} : VisitUnaryOperator(op, x)
       \/ \E y \in Usable : VisitAssign(x, y)
       \/ \E f \in Funs : VisitAssignCall(x, f)

-----------------------------------------------------------------------------
(***************************************************************************)
(* finalizePointers and updateDependentPointers.                           *)
(***************************************************************************)

StartFinalize ==
  /\ pc = "visit"
  /\ pc' = "finalize"
  /\ seeds' = {x \in WithData : ~singleton[x]}
  /\ UNCHANGED <<entry, singleton, from, flows, declared, visits, cursor, calls, file>>

Least(S) == CHOOSE x \in S : \A y \in S : x <= y

\* Mutant: the iterator is not advanced.
Remaining_Again == {x \in WithData : x >= cursor}

Remaining == {x \in WithData : x > cursor}

\* The loop of finalizePointers: the names in the order of the map.
NextPointer ==
  /\ pc = "finalize" /\ calls = <<>>
  /\ \/ /\ Remaining # {}
        /\ cursor' = Least(Remaining)
        /\ calls' = <<[ptr |-> Least(Remaining), left |-> from[Least(Remaining)]]>>
        /\ UNCHANGED pc
     \/ /\ Remaining = {}
        /\ pc' = "save"
        /\ UNCHANGED <<cursor, calls>>
  /\ UNCHANGED <<entry, singleton, from, flows, declared, visits, seeds, file>>

\* Mutant: updateDependentPointers does not call itself.
Update_Shallow(q) ==
  LET top == calls[Len(calls)] IN
  /\ q \in top.left
  /\ entry' = Lookup(entry, q)
  /\ calls' = [calls EXCEPT ![Len(calls)].left = @ \ {q}]
  /\ singleton' = [singleton EXCEPT ![q] = @ /\ (entry[q] # "data" \/ singleton[top.ptr])]

\* Mutant: it calls itself where the flags agree.
Update_Always(q) ==
  LET top == calls[Len(calls)] IN
  /\ q \in top.left
  /\ entry' = Lookup(entry, q)
  /\ singleton' = [singleton EXCEPT ![q] = @ /\ (entry[q] # "data" \/ singleton[top.ptr])]
  /\ calls' = Append([calls EXCEPT ![Len(calls)].left = @ \ {q}],
                     [ptr |-> q, left |-> from[q]])

\* One round of the loop of updateDependentPointers, for the name q.
Update(q) ==
  LET top  == calls[Len(calls)]
      rest == [calls EXCEPT ![Len(calls)].left = @ \ {q}]
      go   == entry[q] = "data" /\ singleton[top.ptr] # singleton[q]
  IN
  /\ q \in top.left
  /\ entry' = Lookup(entry, q)
  /\ singleton' = IF go THEN [singleton EXCEPT ![q] = FALSE] ELSE singleton
  /\ calls' = IF go THEN Append(rest, [ptr |-> q, left |-> from[q]]) ELSE rest

UpdateStep ==
  /\ pc = "finalize" /\ calls # <<>>
  /\ \E q \in Names : Update(q)
  /\ UNCHANGED <<from, flows, declared, visits, pc, seeds, cursor, file>>

UpdateReturns ==
  /\ pc = "finalize" /\ calls # <<>>
  /\ calls[Len(calls)].left = {}
  /\ calls' = SubSeq(calls, 1, Len(calls) - 1)
  /\ UNCHANGED <<entry, singleton, from, flows, declared, visits, pc, seeds, cursor,
                 file>>

Finalize == NextPointer \/ UpdateStep \/ UpdateReturns

-----------------------------------------------------------------------------
(***************************************************************************)
(* The file between the analysis and the translator.  A line is the list   *)
(* of its tokens: the name, its kind, the names of from in some order.     *)
(***************************************************************************)

isSingleton(x) == entry[x] = "data" /\ singleton[x]

\* The tokens that are not names.
PTR  == -1
APTR == -2

Perms(S) == {s \in [1 .. Cardinality(S) -> S] : \A i, j \in DOMAIN s : s[i] = s[j] => i = j}

outputPointers ==
  /\ pc = "save"
  /\ file' = {<<x, IF singleton[x] THEN PTR ELSE APTR>> \o (CHOOSE s \in Perms(from[x]) : TRUE)
                : x \in WithData}
  /\ pc' = "load"
  /\ UNCHANGED <<entry, singleton, from, flows, declared, visits, seeds, cursor, calls>>

\* Mutant: the last token of the line is taken for the kind.
KindOfLine_Last(line) == line[Len(line)]

\* The second token: up to the next comma, or to the end of the line.
KindOfLine(line) == line[2]

\* A new process, with an empty map, reads the file.
inputPointers ==
  /\ pc = "load"
  /\ entry' = [x \in Names |-> IF \E line \in file : line[1] = x THEN "data" ELSE "absent"]
  /\ singleton' = [x \in Names |->
       \A line \in file : line[1] = x => KindOfLine(line) # APTR]
  /\ from' = [x \in Names |-> {}]
  /\ pc' = "translate"
  /\ UNCHANGED <<flows, declared, visits, seeds, cursor, calls, file>>

Next == VisitNode \/ StartFinalize \/ Finalize \/ outputPointers \/ inputPointers

Spec == Init /\ [][Next]_vars

\* The tool is one thread that runs to its end.
FairSpec == Spec /\ WF_vars(StartFinalize \/ Finalize \/ outputPointers \/ inputPointers)

-----------------------------------------------------------------------------
TypeOK ==
  /\ entry \in [Names -> {"absent", "null", "data"}]
  /\ singleton \in [Names -> BOOLEAN]
  /\ from \in [Names -> SUBSET Names]
  /\ flows \subseteq {"init", "assign", "call", "return"} \X Names \X Names
  /\ declared \subseteq Names
  /\ visits \in 0 .. MaxVisits
  /\ pc \in {"visit", "finalize", "save", "load", "translate"}
  /\ seeds \subseteq Names
  /\ cursor \in {0} \cup Names
  /\ calls \in Seq([ptr: Names, left: SUBSET Names])

\* What the analysis should compute: the least set that contains the arrays it
\* found and, with a pointer, all that the pointer was recorded to come from.
ArrayClosure ==
  {x \in WithData : \A S \in SUBSET WithData :
     seeds \subseteq S /\ (\A p \in S : from[p] \cap WithData \subseteq S) => x \in S}

\* One pass over the map in any order, with the calls it makes, computes that
\* set and no more (finalizePointers, updateDependentPointers), although a flag
\* may change after the pass has gone by.
Exact == pc = "save" => {x \in WithData : ~singleton[x]} = ArrayClosure

\* updateDependentPointers calls itself no deeper than there are pointers, also
\* on cycles of assignments.
DepthBounded == Len(calls) <= Cardinality(WithData) + 1

\* An initialization or assignment to a tracked array pointer is from an array
\* pointer: the translated program never has to make an aptr of a ptr there.
AssignSound ==
  pc = "save" => \A f \in flows :
    f[1] \in {"init", "assign"} /\ entry[f[3]] = "data" /\ ~isSingleton(f[3])
      => ~isSingleton(f[2])

\* The translator, in another process, classifies every pointer as the analysis
\* did (outputPointers, inputPointers).
SameInTranslator ==
  [][pc = "load" /\ pc' = "translate" =>
       \A x \in Names : isSingleton(x)' = isSingleton(x)]_vars

\* The tool ends, whatever the cycles.
Terminates == <>(pc = "translate")

(***************************************************************************)
(* "This should propagate pointer/arrayref type data from a variable to    *)
(* the other variables, functions, and parameters that it interacts with   *)
(* during the program" (AnalysisVisitor.hpp:65-67).                        *)
(***************************************************************************)

\* The result of a tracked function that is an array comes from an array.
ReturnSound ==
  pc = "save" => \A f \in flows :
    f[1] = "return" /\ entry[f[3]] = "data" /\ ~isSingleton(f[3]) => ~isSingleton(f[2])

\* A parameter of a function the analysis visited that is an array is passed an
\* array.
CallSound ==
  pc = "save" => \A f \in flows :
    f[1] = "call" /\ f[3] \in declared /\ ~isSingleton(f[3]) => ~isSingleton(f[2])
-----------------------------------------------------------------------------
(***************************************************************************)
(* The inductive invariant of the proofs.                                  *)
(***************************************************************************)

Arrays == {x \in WithData : ~singleton[x]}

FiniteOK == IsFiniteSet(WithData) /\ \A x \in Names : IsFiniteSet(from[x])

\* An assignment is recorded, unless one of its sides has a null entry, which
\* it keeps.
FlowsOK ==
  pc # "translate" =>
    \A f \in flows : f[1] \in {"init", "assign"} =>
      /\ entry[f[3]] # "absent"
      /\ entry[f[3]] = "data" => f[2] \in from[f[3]] \/ entry[f[2]] = "null"

\* Only the first call may be for a singleton, so that each call after the
\* second is for a pointer that has just become an array.
CallsOK ==
  /\ pc # "finalize" => calls = <<>>
  /\ \A k \in 1 .. Len(calls) : calls[k].ptr \in WithData /\ calls[k].left \subseteq from[calls[k].ptr]
  /\ \A k \in 2 .. Len(calls) : calls[k].ptr \in Arrays
  /\ \A j, k \in 2 .. Len(calls) : j # k => calls[j].ptr # calls[k].ptr

\* What an array comes from is an array, or the pass is still to come by, or a
\* call for it has it left.
PassOK ==
  /\ pc = "visit" => cursor = 0
  /\ pc \in {"finalize", "save"} => seeds \subseteq Arrays /\ Arrays \subseteq ArrayClosure
  /\ pc = "finalize" => \A p \in Arrays : p <= cursor =>
       \A q \in from[p] \cap WithData :
         q \in Arrays \/ \E k \in 1 .. Len(calls) : calls[k].ptr = p /\ q \in calls[k].left
  /\ pc = "save" => \A p \in Arrays : from[p] \cap WithData \subseteq Arrays

FileOK ==
  pc = "load" =>
    /\ \A line \in file : line[1] \in WithData /\ (KindOfLine(line) = APTR <=> line[1] \in Arrays)
    /\ \A x \in WithData : \E line \in file : line[1] = x

IInv == TypeOK /\ FiniteOK /\ FlowsOK /\ CallsOK /\ PassOK /\ FileOK
=============================================================================
