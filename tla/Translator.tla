---------------------------- MODULE Translator ----------------------------
(***************************************************************************)
(* The translator of the refactoring tool (Translator.hpp, the visitor of  *)
(* TranslateSafe.cpp and the expression builder of BuilderVisitor.hpp).    *)
(*                                                                         *)
(* The declarators of "int * a, b, * c;" reach the translator one by one,  *)
(* with source ranges that all start at "int".  A rewrite of the range of  *)
(* one declarator replaces the text of those before it, so pointers are    *)
(* collected in declGroupString and written when the next group begins.    *)
(* Function pointers, smart pointers and types with a pointer among their  *)
(* template arguments are written at once.  Clang calls one visitor method *)
(* for each node; an action here is one such call.                         *)
(***************************************************************************)
EXTENDS Integers, Sequences, FiniteSets, FiniteSetsExt, SequencesExt

CONSTANTS
  Files,      \* source files outside the system headers
  Decls,      \* the declarators of the programs considered
  MaxGroups,  \* bound: declaration groups in the program
  MaxDecls,   \* bound: declarators in the program
  MaxNodes,   \* bound: other nodes that are translated
  MaxInit     \* bound: nested constructs in an initializer

\* What a declarator adds to the type it shares with its group.
PtrMods == {"*", "[]"}
Mods    == PtrMods \cup {"", "(T)"}

\* An initializer is a chain of constructs, outermost first, over a variable.
Chains == UNION {[1 .. n -> {"cast", "call"}] : n \in 0 .. MaxInit}

\* The type that the declarators of a group share: nothing to translate in it, a
\* smart pointer named with -p, or a local variable's template with one pointer
\* among its arguments, and the type after the translation.
Bases       == {"int", "smart", "template"}
SafeBase(b) == IF b = "smart" THEN "ptr" ELSE IF b = "template" THEN "safe template" ELSE b

\* singleton: the analysis found no use as an array.
AllDecls ==
  {[mods |-> m, singleton |-> FALSE, init |-> <<>>] : m \in Mods \ {"*"}}
    \cup [mods: {"*"}, singleton: BOOLEAN, init: Chains]

ASSUME TranslatorAssumption ==
  /\ Decls \subseteq AllDecls
  /\ {MaxGroups, MaxDecls, MaxNodes, MaxInit} \subseteq Nat

VARIABLES
  source,        \* declaration groups visited: file, macro, base, declarators
  text,          \* the groups in the rewrite buffer: base, items by place, extent
  rewrites,      \* calls of RewriteSource with a range of each group
  lastValueDecl, \* the last pointer visited, <<group, position>>, or None
  declGroupString, \* its group as it will be written: base and items
  edited,        \* files with a rewrite buffer
  filesToWrite,  \* files that checkSourceRange has seen
  written,       \* files with an .out
  nodes,         \* other nodes translated so far
  pc             \* "visit" or "done"

vars == <<source, text, rewrites, lastValueDecl, declGroupString, edited, filesToWrite,
          written, nodes, pc>>

None == <<0, 0>>

Init ==
  /\ source = <<>> /\ text = <<>> /\ rewrites = <<>>
  /\ lastValueDecl = None /\ declGroupString = [base |-> "", items |-> <<>>]
  /\ edited = {} /\ filesToWrite = {} /\ written = {}
  /\ nodes = 0 /\ pc = "visit"

-----------------------------------------------------------------------------
(***************************************************************************)
(* The Builder.  Its buffer, expression, is shared by the nested calls:    *)
(* traverseStmt clears it, a construct builds its operand through it and   *)
(* then appends itself to what the operand has left there.                 *)
(***************************************************************************)

traverseStmt[c \in Chains] ==
  IF c = <<>> THEN <<>>
  ELSE LET operand == traverseStmt[Tail(c)]
           built   == <<Head(c)>> \o operand
       IN operand \o built

buildType(d) == IF d.mods = "[]" THEN "array" ELSE IF d.singleton THEN "ptr" ELSE "aptr"

-----------------------------------------------------------------------------
(***************************************************************************)
(* Clang's Rewriter.  A text is its base and its items, each at the place  *)
(* its declarator has in the group.  The range of declarator k covers the  *)
(* base and the items up to k; one that ends before extent, inside text    *)
(* that has another shape than the source, cuts it.                        *)
(***************************************************************************)

\* One more item, at place i.
Add(items, i, x) == [j \in DOMAIN items \cup {i} |-> IF j = i THEN x ELSE items[j]]

ReplaceText(t, k, base, items) ==
  IF k < t.extent THEN [base |-> "cut", items |-> <<>>, extent |-> t.extent]
  ELSE [base |-> base, extent |-> k,
        items |-> [i \in DOMAIN items \cup {j \in DOMAIN t.items : j > k} |->
                     IF i \in DOMAIN items THEN items[i] ELSE t.items[i]]]

\* A location inside a macro expansion has no file that could be rewritten.
checkSourceRange(grp) == IF grp.macro THEN {} ELSE {grp.file}

\* RewriteSource for the groups of src that are in S.
RewriteSource(src, S) ==
  [g \in DOMAIN src |-> LET n == IF g \in DOMAIN rewrites THEN rewrites[g] ELSE 0
                        IN IF g \in S THEN n + 1 ELSE n]

\* The text after translateLastDeclGroup.
translateLastDeclGroup(txt) ==
  LET g == lastValueDecl[1] IN
  IF lastValueDecl = None \/ source[g].macro THEN txt
  ELSE [txt EXCEPT ![g] = ReplaceText(@, lastValueDecl[2], declGroupString.base,
                                      declGroupString.items)]

FlushedFiles ==
  IF lastValueDecl = None THEN {} ELSE checkSourceRange(source[lastValueDecl[1]])

FlushedGroup ==
  IF lastValueDecl = None \/ source[lastValueDecl[1]].macro THEN {} ELSE {lastValueDecl[1]}

\* The last group of src, unless it comes from a macro.
ThisGroup(src) == IF src[Len(src)].macro THEN {} ELSE {Len(src)}

\* Mutant: each pointer is written when it is visited.
translatePointer_Now(src, txt) ==
  LET g == Len(src)
      i == Len(src[g].decls)
      d == src[g].decls[i]
      item == [mods |-> "", init |-> traverseStmt[d.init]]
  IN
  /\ d.mods \in PtrMods
  /\ text' = [txt EXCEPT ![g] = ReplaceText(@, i, buildType(d), Add(<<>>, i, item))]
  /\ rewrites' = RewriteSource(src, ThisGroup(src))
  /\ edited' = edited \cup checkSourceRange(src[g])
  /\ filesToWrite' = filesToWrite \cup checkSourceRange(src[g])
  /\ UNCHANGED <<lastValueDecl, declGroupString>>

\* Mutant: declGroupString is not cleared for the next group.
translatePointer_Stale(src, txt) ==
  LET g == Len(src)
      i == Len(src[g].decls)
      d == src[g].decls[i]
      item == [mods |-> "", init |-> traverseStmt[d.init]]
  IN
  /\ d.mods \in PtrMods
  /\ text' = IF lastValueDecl[1] = g THEN txt ELSE translateLastDeclGroup(txt)
  /\ rewrites' = RewriteSource(src, IF lastValueDecl[1] = g THEN {} ELSE FlushedGroup)
  /\ edited' = IF lastValueDecl[1] = g THEN edited ELSE edited \cup FlushedFiles
  /\ declGroupString' = [base |-> IF lastValueDecl[1] = g THEN declGroupString.base
                                  ELSE buildType(d),
                         items |-> Add(declGroupString.items, i, item)]
  /\ lastValueDecl' = <<g, i>>
  /\ filesToWrite' = filesToWrite \cup checkSourceRange(src[g])

\* The last declarator of src, a pointer or an array: a name more for the group
\* that is pending or, with another start, the first of the next group.
translatePointer(src, txt) ==
  LET g == Len(src)
      i == Len(src[g].decls)
      d == src[g].decls[i]
      item == [mods |-> "", init |-> traverseStmt[d.init]]
      same == lastValueDecl[1] = g
  IN
  /\ d.mods \in PtrMods
  /\ text' = IF same THEN txt ELSE translateLastDeclGroup(txt)
  /\ rewrites' = RewriteSource(src, IF same THEN {} ELSE FlushedGroup)
  /\ edited' = IF same THEN edited ELSE edited \cup FlushedFiles
  /\ declGroupString' = IF same THEN [declGroupString EXCEPT !.items = Add(@, i, item)]
                        ELSE [base |-> buildType(d), items |-> Add(<<>>, i, item)]
  /\ lastValueDecl' = <<g, i>>
  /\ filesToWrite' = filesToWrite \cup checkSourceRange(src[g])

\* The last declarator of src, a function pointer: written over its range.
translateFunctionPointer(src, txt) ==
  LET g == Len(src)
      i == Len(src[g].decls)
      d == src[g].decls[i]
      item == [mods |-> "(T)", init |-> <<>>]
  IN
  /\ d.mods = "(T)"
  /\ text' = IF src[g].macro THEN txt
             ELSE [txt EXCEPT ![g] = ReplaceText(@, i, "int", Add(<<>>, i, item))]
  /\ rewrites' = RewriteSource(src, ThisGroup(src))
  /\ edited' = edited \cup checkSourceRange(src[g])
  /\ filesToWrite' = filesToWrite \cup checkSourceRange(src[g])
  /\ UNCHANGED <<lastValueDecl, declGroupString>>

\* The range of the last declarator of src is written back with the name of its
\* type replaced, if that is still there: an earlier declarator of the group may
\* have replaced it.  What follows the name keeps its shape, and the Rewriter
\* accounts for the other length at the start of the range: extent stays.
ReplaceTypeName(src, txt) ==
  LET g == Len(src) IN
  /\ text' = IF src[g].macro THEN txt ELSE [txt EXCEPT ![g].base = SafeBase(@)]
  /\ edited' = edited \cup checkSourceRange(src[g])
  /\ filesToWrite' = filesToWrite \cup checkSourceRange(src[g])
  /\ UNCHANGED <<lastValueDecl, declGroupString>>

\* A smart pointer: one rewrite for each declarator, whether the name is found or not.
translateSmartPointer(src, txt) ==
  LET g == Len(src) IN
  /\ src[g].decls[Len(src[g].decls)].mods = "" /\ src[g].base = "smart"
  /\ ReplaceTypeName(src, txt)
  /\ rewrites' = RewriteSource(src, ThisGroup(src))

\* A template: a rewrite only where the argument is still found as it was.
translateTemplateArguments(src, txt) ==
  LET g == Len(src) IN
  /\ src[g].decls[Len(src[g].decls)].mods = "" /\ src[g].base = "template"
  /\ ReplaceTypeName(src, txt)
  /\ rewrites' = RewriteSource(src, IF txt[g].base = "template" THEN ThisGroup(src) ELSE {})

\* Nothing to translate.
OtherVariable(src, txt) ==
  LET g == Len(src) IN
  /\ src[g].decls[Len(src[g].decls)].mods = "" /\ src[g].base = "int"
  /\ text' = txt
  /\ rewrites' = RewriteSource(src, {})
  /\ UNCHANGED <<lastValueDecl, declGroupString, edited, filesToWrite>>

\* HandleVariable, and in a declaration statement the template arguments.
HandleVariable(src, txt) ==
  \/ translateFunctionPointer(src, txt) \/ translatePointer(src, txt)
  \/ translateSmartPointer(src, txt) \/ translateTemplateArguments(src, txt)
  \/ OtherVariable(src, txt)

-----------------------------------------------------------------------------
Item(d) == [mods |-> d.mods, init |-> d.init]

CountDecls == Cardinality(UNION {{g} \X DOMAIN source[g].decls : g \in DOMAIN source})

\* The first declarator of a group: a declaration statement, a variable at file
\* level or a field (VisitDeclStmt, VisitVarDecl, VisitRecordDecl).
VisitGroup(f, macro, base, d) ==
  LET src == Append(source, [file |-> f, macro |-> macro, base |-> base, decls |-> <<d>>])
      txt == Append(text, [base |-> base, items |-> Add(<<>>, 1, Item(d)), extent |-> 0])
  IN
  /\ pc = "visit" /\ CountDecls < MaxDecls /\ Len(source) < MaxGroups
  /\ source' = src
  /\ HandleVariable(src, txt)
  /\ UNCHANGED <<written, nodes, pc>>

\* The next declarator of the same group.
VisitDeclarator(d) ==
  LET g == Len(source)
      src == [source EXCEPT ![g].decls = Append(@, d)]
      txt == [text EXCEPT ![g].items = Add(@, Len(src[g].decls), Item(d))]
  IN
  /\ pc = "visit" /\ source # <<>> /\ CountDecls < MaxDecls
  /\ source' = src
  /\ HandleVariable(src, txt)
  /\ UNCHANGED <<written, nodes, pc>>

\* Any other node in file f: whether checkSourceRange sees it, whether its own
\* range is rewritten.
VisitNode(f, checked, rewrite) ==
  /\ pc = "visit" /\ nodes < MaxNodes
  /\ nodes' = nodes + 1
  /\ filesToWrite' = IF checked THEN filesToWrite \cup {f} ELSE filesToWrite
  /\ edited' = IF rewrite THEN edited \cup {f} ELSE edited
  /\ UNCHANGED <<source, text, rewrites, lastValueDecl, declGroupString, written, pc>>

\* Rewritten when there is a pointer in the prototype; not when the compiler
\* provides the function.
translateFunction(f, modified) == VisitNode(f, TRUE, modified)

translateDelete(f)         == VisitNode(f, TRUE, TRUE)
translatePointerTypedef(f) == VisitNode(f, TRUE, TRUE)
translateNewExpr(f)        == VisitNode(f, TRUE, TRUE)

\* These do not call checkSourceRange.
translateCast(f) == VisitNode(f, FALSE, TRUE)

\* Rewritten when an argument is a pointer or needs a translation itself.
translateSystemCall(f, needsRewrite) == VisitNode(f, FALSE, needsRewrite)

\* Rewritten when main takes argc and argv.
translateMain(f, twoParams) == VisitNode(f, FALSE, twoParams)

\* The end of the translation unit: the last group, then the files that are in
\* filesToWrite and have a buffer.
HandleTranslationUnit ==
  /\ pc = "visit" /\ pc' = "done"
  /\ text' = translateLastDeclGroup(text)
  /\ rewrites' = RewriteSource(source, FlushedGroup)
  /\ edited' = edited \cup FlushedFiles
  /\ written' = filesToWrite \cap edited'
  /\ UNCHANGED <<source, lastValueDecl, declGroupString, filesToWrite, nodes>>

Next ==
  \/ \E d \in Decls :
       \/ \E f \in Files, macro \in BOOLEAN, base \in Bases :
            VisitGroup(f, macro, base, d)
       \/ VisitDeclarator(d)
  \/ \E f \in Files :
       \/ translateDelete(f) \/ translatePointerTypedef(f) \/ translateNewExpr(f)
       \/ translateCast(f)
       \/ \E b \in BOOLEAN :
            translateFunction(f, b) \/ translateSystemCall(f, b) \/ translateMain(f, b)
  \/ HandleTranslationUnit

Spec == Init /\ [][Next]_vars

-----------------------------------------------------------------------------
TypeOK ==
  /\ source \in Seq([file: Files, macro: BOOLEAN, base: Bases, decls: Seq(Decls)])
  /\ DOMAIN text = DOMAIN source /\ rewrites \in [DOMAIN source -> Nat]
  /\ \A g \in DOMAIN text :
       /\ text[g].base \in Bases \cup {"ptr", "safe template", "aptr", "array", "cut"}
       /\ text[g].extent \in {0} \cup DOMAIN source[g].decls
       /\ DOMAIN text[g].items \subseteq DOMAIN source[g].decls
       /\ \A i \in DOMAIN text[g].items :
            text[g].items[i] \in [mods: Mods, init: Seq({"cast", "call"})]
  /\ lastValueDecl = None \/ /\ lastValueDecl[1] \in DOMAIN source
                             /\ lastValueDecl[2] \in DOMAIN source[lastValueDecl[1]].decls
  /\ written \subseteq edited \cap filesToWrite
  /\ edited \cup filesToWrite \subseteq Files
  /\ nodes \in 0 .. MaxNodes /\ pc \in {"visit", "done"}

Pointers(grp) == {i \in DOMAIN grp.decls : grp.decls[i].mods \in PtrMods}

NoFunctionPointer(grp) == \A i \in DOMAIN grp.decls : grp.decls[i].mods # "(T)"

Original(grp) ==
  [base |-> grp.base, items |-> [i \in DOMAIN grp.decls |-> Item(grp.decls[i])]]

\* What becomes of a group: all its pointers, with the type of the first, then
\* the declarators after the last pointer as they were.
Translation(grp) ==
  LET P    == Pointers(grp)
      keep == P \cup {i \in DOMAIN grp.decls : i > Max(P)}
      Safe(d) == [mods |-> IF d.mods \in PtrMods THEN "" ELSE d.mods, init |-> d.init]
  IN
  IF grp.macro THEN Original(grp)
  ELSE IF P = {} THEN [Original(grp) EXCEPT !.base = SafeBase(@)]
  ELSE [base |-> buildType(grp.decls[Min(P)]), items |-> [i \in keep |-> Safe(grp.decls[i])]]

\* Whatever is visited in between and however the groups follow each other, a
\* group comes out of the deferred rewriting (translatePointer,
\* translateLastDeclGroup, HandleTranslationUnit) as one declaration of all its
\* pointers, in order, initialized as before, and a file that has such a group
\* is written; macros are left alone.
GroupText ==
  pc = "done" => \A g \in DOMAIN source :
    NoFunctionPointer(source[g]) =>
      LET t == [base |-> text[g].base, items |-> text[g].items] IN
      /\ t = Translation(source[g])
      /\ t # Original(source[g]) => source[g].file \in written

\* "rewrite only when we've visited the last variable declaration in a group"
\* (Translator.hpp:76): the replacement of a group's pointers is the last that
\* happens to it.  No declarator of it is still to come, and no later node, not
\* the end of the unit either, has RewriteSource called for it again; the
\* rewrites of a type's name come before.
WrittenLast ==
  [][\A g \in DOMAIN source : NoFunctionPointer(source[g]) /\ text[g].extent > 0
       => /\ source'[g] = source[g] /\ text'[g] = text[g]
          /\ rewrites'[g] = rewrites[g]]_vars

(***************************************************************************)
(* "Translate either default parameter or initializer by traversing the    *)
(* expression" (Translator.hpp:122): every construct of an initializer is  *)
(* translated, and the initializer is still one expression.                *)
(***************************************************************************)
InitTranslated ==
  \A g \in DOMAIN text, i \in 1 .. MaxDecls :
    i \in DOMAIN text[g].items /\ text[g].base # "cut" =>
      text[g].items[i].init = source[g].decls[i].init

-----------------------------------------------------------------------------
(***************************************************************************)
(* The inductive invariant of the proofs.                                  *)
(***************************************************************************)

\* declGroupString for the pointers P of a group.
Collected(grp, P) ==
  [base  |-> buildType(grp.decls[Min(P)]),
   items |-> [i \in P |-> [mods |-> "", init |-> traverseStmt[grp.decls[i].init]]]]

Untouched(grp) == [base |-> grp.base, items |-> Original(grp).items, extent |-> 0]

\* The text of a group after the replacement of its pointers.
Replaced(grp) ==
  LET P == Pointers(grp)
      new == Collected(grp, P)
  IN ReplaceText(Untouched(grp), Max(P), new.base, new.items)

Shape ==
  /\ source \in Seq([file: Files, macro: BOOLEAN, base: Bases, decls: Seq(Decls)])
  /\ text \in Seq(Range(text)) /\ Len(text) = Len(source)
  /\ \A g \in DOMAIN source :
       /\ source[g].decls # <<>>
       /\ text[g] = [base |-> text[g].base, items |-> text[g].items, extent |-> text[g].extent]
  /\ edited \cup filesToWrite \subseteq Files /\ pc \in {"visit", "done"}

\* The pending group is the last that has a pointer, with all its pointers so
\* far, and the end of the range to replace is the last of them.
PendingOK ==
  /\ lastValueDecl \in Nat \X Nat /\ lastValueDecl[1] <= Len(source)
  /\ lastValueDecl[1] = 0 => lastValueDecl = None
  /\ lastValueDecl # None =>
       LET grp == source[lastValueDecl[1]] IN
       /\ lastValueDecl[2] \in Pointers(grp)
       /\ \A i \in Pointers(grp) : i <= lastValueDecl[2]
       /\ declGroupString = Collected(grp, Pointers(grp))
       /\ checkSourceRange(grp) \subseteq filesToWrite
  /\ source # <<>> /\ Pointers(source[Len(source)]) # {} => lastValueDecl[1] = Len(source)

\* Group g is as it was while it is the one that waits, and until its pointers
\* are replaced, once; one without pointers may have its type name changed.
\* Where there was a change, the file of the group is among files.
TextFits(g, grp, t, waiting, files) ==
  /\ grp.macro => t = Untouched(grp)
  /\ ~grp.macro /\ Pointers(grp) = {} =>
       /\ t = [Untouched(grp) EXCEPT !.base = SafeBase(@)]
       /\ grp.base # "int" => grp.file \in files
  /\ ~grp.macro /\ Pointers(grp) # {} =>
       IF g = waiting THEN t.items = Original(grp).items /\ t.extent = 0
       ELSE t = Replaced(grp) /\ grp.file \in files

\* The group that waits to be written, or 0.
Waiting == IF pc = "visit" THEN lastValueDecl[1] ELSE 0

TextOK ==
  \A g \in DOMAIN source : NoFunctionPointer(source[g]) =>
    TextFits(g, source[g], text[g], Waiting, edited \cap filesToWrite)

DoneOK == pc = "done" => written = filesToWrite \cap edited

IInv == Shape /\ PendingOK /\ TextOK /\ DoneOK
=============================================================================
