-------------------------- MODULE TranslatorProofs --------------------------
(***************************************************************************)
(* Proofs about Translator, for any files, declarators and groups.         *)
(***************************************************************************)
EXTENDS Translator, TLAPS, WellFoundedInduction

(***************************************************************************)
(* Positions.                                                              *)
(***************************************************************************)

LEMMA LeastPlace ==
  ASSUME NEW S, S \subseteq Nat, S # {}
  PROVE  Min(S) \in S /\ \A m \in S : Min(S) <= m
<1> DEFINE R == {ss \in Nat \X Nat : ss[1] < ss[2]}
<1>1. IsWellFoundedOn(R, Nat)
  BY NatLessThanWellFounded DEF OpToRel
<1>2. \E n \in S : \A m \in S : <<m, n>> \notin R
  <2> HIDE DEF R
  <2> QED
    BY <1>1, WFMin
<1>3. PICK n \in S : \A m \in S : <<m, n>> \notin R
  BY <1>2
<1>4. \A m \in S : ~(m < n)
  BY <1>3
<1>5. \A m \in S : n <= m
  BY <1>4
<1>6. QED
  BY <1>5 DEF Min

LEMMA GreatestPlace ==
  ASSUME NEW S, S \subseteq Nat, NEW m \in S, \A i \in S : i <= m
  PROVE  Max(S) = m
<1>1. m \in S /\ \A i \in S : m >= i
  OBVIOUS
<1>2. \A x \in S : (\A i \in S : x >= i) => x = m
  OBVIOUS
<1>3. QED
  BY <1>1, <1>2 DEF Max

LEMMA GreatestExists ==
  ASSUME NEW n \in Nat, NEW S, S \subseteq 1 .. n, S # {}
  PROVE  \E m \in S : \A i \in S : i <= m
<1>1. PICK T : T = {n - i : i \in S}
  OBVIOUS
<1>2. T \subseteq Nat /\ T # {}
  <2>1. \A i \in S : n - i \in Nat
    OBVIOUS
  <2>2. PICK i \in S : TRUE
    OBVIOUS
  <2>3. n - i \in T
    BY <1>1
  <2>4. QED
    BY <1>1, <2>1, <2>3
<1>3. Min(T) \in T /\ \A x \in T : Min(T) <= x
  BY <1>2, LeastPlace
<1>4. PICK m \in S : Min(T) = n - m
  BY <1>1, <1>3
<1>5. \A i \in S : n - m <= n - i
  BY <1>1, <1>3, <1>4
<1>6. \A i \in S : i \in Int /\ m \in Int
  OBVIOUS
<1>7. \A i \in S : i <= m
  BY <1>5, <1>6
<1>8. QED
  BY <1>7

\* One more place, after all others, leaves the least as it is.
LEMMA LeastStays ==
  ASSUME NEW S, S \subseteq Nat, S # {}, NEW n \in Nat, \A i \in S : i < n
  PROVE  Min(S \cup {n}) = Min(S)
<1>1. PICK T : T = S \cup {n}
  OBVIOUS
<1>2. T \subseteq Nat /\ T # {}
  BY <1>1
<1>3. Min(S) \in S /\ \A m \in S : Min(S) <= m
  BY LeastPlace
<1>4. Min(T) \in T /\ \A m \in T : Min(T) <= m
  BY <1>2, LeastPlace
<1>5. Min(T) \in S \/ Min(T) = n
  BY <1>1, <1>4
<1>6. Min(S) \in T /\ Min(S) \in Nat /\ Min(S) < n /\ Min(T) \in Nat
  BY <1>1, <1>2, <1>3, <1>4
<1>7. Min(T) <= Min(S)
  BY <1>4, <1>6
<1>8. Min(T) \in S => Min(S) <= Min(T)
  BY <1>3
<1>9. Min(T) = Min(S)
  BY <1>5, <1>6, <1>7, <1>8
<1>10. QED
  BY <1>1, <1>9

LEMMA LeastOne ==
  ASSUME NEW n \in Nat
  PROVE  Min({n}) = n
BY DEF Min

-----------------------------------------------------------------------------
Groups == [file: Files, macro: BOOLEAN, base: Bases, decls: Seq(Decls)]

\* The pointers before the last declarator.
Earlier(grp) == {i \in Pointers(grp) : i < Len(grp.decls)}

(***************************************************************************)
(* What HandleVariable finds: groups src and their text txt, where the     *)
(* last declarator of the last group is one that was not handled yet.      *)
(***************************************************************************)
ReadyShape(src, txt) ==
  /\ src \in Seq(Groups) /\ txt \in Seq(Range(txt)) /\ Len(txt) = Len(src) /\ Len(src) >= 1
  /\ \A g \in 1 .. Len(src) :
       /\ src[g].decls # <<>>
       /\ txt[g] = [base |-> txt[g].base, items |-> txt[g].items, extent |-> txt[g].extent]
  /\ \A g \in 1 .. Len(src) - 1 : src[g] = source[g]
  /\ edited \cup filesToWrite \subseteq Files /\ pc = "visit"

ReadyPending(src) ==
  /\ lastValueDecl \in Nat \X Nat /\ lastValueDecl[1] <= Len(src)
  /\ lastValueDecl[1] = 0 => lastValueDecl = None
  /\ lastValueDecl # None =>
       LET grp == src[lastValueDecl[1]]
           P   == IF lastValueDecl[1] = Len(src) THEN Earlier(grp) ELSE Pointers(grp)
       IN
       /\ lastValueDecl[2] \in P
       /\ \A i \in P : i <= lastValueDecl[2]
       /\ declGroupString = Collected(grp, P)
       /\ checkSourceRange(grp) \subseteq filesToWrite
  /\ Earlier(src[Len(src)]) # {} => lastValueDecl[1] = Len(src)

\* The texts of the groups before the last, and that of the last group.
OlderTexts(src, txt) ==
  \A g \in 1 .. Len(src) - 1 : NoFunctionPointer(src[g]) =>
    TextFits(g, src[g], txt[g], lastValueDecl[1], edited \cap filesToWrite)

LastText(grp, t, files) ==
  (\A i \in DOMAIN grp.decls : i < Len(grp.decls) => grp.decls[i].mods # "(T)") =>
    /\ t.items = Original(grp).items /\ t.extent = 0
    /\ grp.macro => t.base = grp.base
    /\ ~grp.macro /\ Earlier(grp) = {} =>
         \/ t.base = grp.base /\ (Len(grp.decls) = 1 \/ grp.base = "int")
         \/ t.base = SafeBase(grp.base) /\ grp.base # "int" /\ grp.file \in files

Ready(src, txt) ==
  /\ ReadyShape(src, txt) /\ ReadyPending(src) /\ OlderTexts(src, txt)
  /\ LastText(src[Len(src)], txt[Len(src)], edited \cap filesToWrite)

-----------------------------------------------------------------------------
(***************************************************************************)
(* Lemmas about the operators of the model.                                *)
(***************************************************************************)

LEMMA SeqIsFunction ==
  ASSUME NEW S, NEW s \in Seq(S)
  PROVE  s = [k \in DOMAIN s |-> s[k]]
OBVIOUS

LEMMA FunctionIsSeq ==
  ASSUME NEW S, NEW n \in Nat, NEW s \in [1 .. n -> S]
  PROVE  s \in Seq(S) /\ Len(s) = n
OBVIOUS

Put(s, g, x) == [s EXCEPT ![g] = x]

\* A sequence with one entry replaced is a sequence of the same length.
LEMMA EntryReplaced ==
  ASSUME NEW s, s \in Seq(Range(s)), NEW g, NEW x, NEW t, t = Put(s, g, x)
  PROVE  t \in Seq(Range(t)) /\ Len(t) = Len(s) /\ DOMAIN t = 1 .. Len(s)
<1>1. s = [k \in 1 .. Len(s) |-> s[k]] /\ Len(s) \in Nat
  OBVIOUS
<1>2. t = [k \in 1 .. Len(s) |-> IF k = g THEN x ELSE s[k]]
  BY <1>1 DEF Put
<1>3. \A k \in 1 .. Len(s) : t[k] \in Range(t)
  BY <1>2 DEF Range
<1>4. t \in [1 .. Len(s) -> Range(t)]
  BY <1>2, <1>3
<1>5. DOMAIN t = 1 .. Len(s)
  BY <1>2
<1>6. PICK R : R = Range(t)
  OBVIOUS
<1>7. PICK n \in Nat : n = Len(s)
  BY <1>1
<1>8. t \in [1 .. n -> R]
  BY <1>4, <1>6, <1>7
<1>9. t \in Seq(R)
  BY <1>8, FunctionIsSeq
<1>10. Len(t) = n
  BY <1>8, FunctionIsSeq
<1>11. QED
  BY <1>5, <1>6, <1>7, <1>9, <1>10

\* A translation that fits goes on fitting when more files are written.
LEMMA FitsMore ==
  ASSUME NEW g, NEW grp, NEW t, NEW last, NEW files, TextFits(g, grp, t, last, files),
         NEW more, files \subseteq more
  PROVE  TextFits(g, grp, t, last, more)
<1>1. \A f : f \in files => f \in more
  OBVIOUS
<1>2. QED
  BY <1>1 DEF TextFits

\* Writing the collected pointers over the range of the last one is the one
\* replacement of the group.
LEMMA FitsFlushed ==
  ASSUME NEW g \in Nat \ {0}, NEW grp, NEW t, NEW files, TextFits(g, grp, t, g, files), ~grp.macro,
         Pointers(grp) # {}, NEW more, grp.file \in more, NEW k, k = Max(Pointers(grp)),
         NEW new, new = Collected(grp, Pointers(grp))
  PROVE  TextFits(g, grp, ReplaceText(t, k, new.base, new.items), 0, more)
<1>1. t.items = Original(grp).items /\ t.extent = 0
  BY DEF TextFits
<1>2. Untouched(grp).items = Original(grp).items /\ Untouched(grp).extent = 0
  BY DEF Untouched
<1>3. ReplaceText(t, k, new.base, new.items) = Replaced(grp)
  BY <1>1, <1>2 DEF ReplaceText, Replaced
<1>4. QED
  BY <1>3 DEF TextFits

NewItem(grp, i) == [mods |-> "", init |-> traverseStmt[grp.decls[i].init]]

WithItem(pending, i, x) == [pending EXCEPT !.items = Add(@, i, x)]

LEMMA CollectedMore ==
  ASSUME NEW grp, NEW E, E \subseteq Nat, E # {}, NEW i, i \in Nat, \A j \in E : j < i
  PROVE  WithItem(Collected(grp, E), i, NewItem(grp, i)) = Collected(grp, E \cup {i})
<1> DEFINE item(j) == [mods |-> "", init |-> traverseStmt[grp.decls[j].init]]
<1>0. PICK pending : pending = Collected(grp, E)
  OBVIOUS
<1>1. pending = [base |-> buildType(grp.decls[Min(E)]), items |-> [j \in E |-> item(j)]]
  BY <1>0 DEF Collected
<1>2. Add([j \in E |-> item(j)], i, item(i)) = [j \in E \cup {i} |-> item(j)]
  BY DEF Add
<1>3. Min(E \cup {i}) = Min(E)
  BY LeastStays
<1>4. Collected(grp, E \cup {i})
        = [base |-> buildType(grp.decls[Min(E)]), items |-> [j \in E \cup {i} |-> item(j)]]
  BY <1>3 DEF Collected
<1> HIDE DEF item
<1>5. [pending EXCEPT !.items = Add(@, i, item(i))]
        = [base |-> buildType(grp.decls[Min(E)]), items |-> [j \in E \cup {i} |-> item(j)]]
  BY <1>1, <1>2
<1>6. [pending EXCEPT !.items = Add(@, i, item(i))] = Collected(grp, E \cup {i})
  BY <1>4, <1>5
<1>7. QED
  BY <1>0, <1>6 DEF item, WithItem, NewItem

LEMMA CollectedOne ==
  ASSUME NEW grp, NEW i \in Nat
  PROVE  [base |-> buildType(grp.decls[i]),
          items |-> Add(<<>>, i, [mods |-> "", init |-> traverseStmt[grp.decls[i].init]])]
           = Collected(grp, {i})
<1> DEFINE item(j) == [mods |-> "", init |-> traverseStmt[grp.decls[j].init]]
<1>1. DOMAIN <<>> = {}
  OBVIOUS
<1>2. Add(<<>>, i, item(i)) = [j \in {i} |-> item(j)]
  BY <1>1 DEF Add
<1>3. Min({i}) = i
  BY LeastOne
<1>4. QED
  BY <1>2, <1>3 DEF Collected

\* A sequence with one more entry.
LEMMA EntryAdded ==
  ASSUME NEW s, s \in Seq(Range(s)), NEW x, NEW t, t = Append(s, x)
  PROVE  /\ t \in Seq(Range(t)) /\ Len(t) = Len(s) + 1 /\ Len(s) \in Nat
         /\ t[Len(s) + 1] = x /\ \A g \in 1 .. Len(s) : t[g] = s[g]
<1>1. PICK n \in Nat : n = Len(s)
  OBVIOUS
<1>2. PICK R : R = Range(s) \cup {x}
  OBVIOUS
<1>3. s \in Seq(R)
  BY <1>2
<1>4. t \in Seq(R) /\ Len(t) = n + 1 /\ t[n + 1] = x /\ \A g \in 1 .. n : t[g] = s[g]
  BY <1>1, <1>2, <1>3
<1>5. PICK Q : Q = Range(t)
  OBVIOUS
<1>6. PICK m \in Nat : m = n + 1
  OBVIOUS
<1>7. DOMAIN t = 1 .. m
  BY <1>4, <1>6
<1>8. t = [g \in 1 .. m |-> t[g]]
  <2>1. t = [g \in DOMAIN t |-> t[g]]
    BY <1>4, SeqIsFunction
  <2>2. QED
    BY <2>1, <1>7
<1>9. t \in [1 .. m -> Q]
  BY <1>5, <1>7, <1>8 DEF Range
<1>10. t \in Seq(Q)
  BY <1>9, FunctionIsSeq
<1>11. QED
  BY <1>1, <1>4, <1>5, <1>10

-----------------------------------------------------------------------------
(***************************************************************************)
(* The groups that the visitor hands to HandleVariable.                    *)
(***************************************************************************)

LEMMA GroupReady ==
  ASSUME IInv, pc = "visit",
         NEW f \in Files, NEW macro \in BOOLEAN, NEW base \in Bases, NEW d \in Decls,
         NEW src, NEW txt,
         src = Append(source, [file |-> f, macro |-> macro, base |-> base, decls |-> <<d>>]),
         txt = Append(text, [base |-> base, items |-> Add(<<>>, 1, Item(d)), extent |-> 0])
  PROVE  Ready(src, txt)
<1>1. PICK grp : grp = [file |-> f, macro |-> macro, base |-> base, decls |-> <<d>>]
  OBVIOUS
<1>2. PICK t : t = [base |-> base, items |-> Add(<<>>, 1, Item(d)), extent |-> 0]
  OBVIOUS
<1>3. PICK n \in Nat : n = Len(source)
  BY DEF IInv, Shape
<1>4. source \in Seq(Groups) /\ text \in Seq(Range(text)) /\ Len(text) = n
  BY <1>3 DEF IInv, Shape, Groups
<1>5. grp \in Groups /\ grp.decls = <<d>> /\ grp.base = base /\ grp.macro = macro
  BY <1>1 DEF Groups
<1>6. /\ src \in Seq(Groups) /\ Len(src) = n + 1 /\ src[n + 1] = grp
      /\ \A g \in 1 .. n : src[g] = source[g]
  BY <1>1, <1>3, <1>4, <1>5
<1>7. /\ txt \in Seq(Range(txt)) /\ Len(txt) = n + 1 /\ txt[n + 1] = t
      /\ \A g \in 1 .. n : txt[g] = text[g]
  <2>1. txt = Append(text, t) /\ text \in Seq(Range(text)) /\ Len(text) = n
    BY <1>2, <1>4
  <2>2. txt \in Seq(Range(txt)) /\ Len(txt) = Len(text) + 1 /\ txt[Len(text) + 1] = t
    BY <2>1, EntryAdded
  <2>3. \A g \in 1 .. Len(text) : txt[g] = text[g]
    BY <2>1, EntryAdded
  <2>4. QED
    BY <2>1, <2>2, <2>3
<1>8. Earlier(grp) = {}
  BY <1>5 DEF Earlier, Pointers
<1>9. DOMAIN source = 1 .. n
  BY <1>3, <1>4
<1>10. ReadyShape(src, txt)
  <2>1. \A g \in 1 .. n : source[g].decls # <<>>
          /\ text[g] = [base |-> text[g].base, items |-> text[g].items, extent |-> text[g].extent]
    BY <1>9 DEF IInv, Shape
  <2>2. \A g \in 1 .. n : src[g].decls # <<>>
          /\ txt[g] = [base |-> txt[g].base, items |-> txt[g].items, extent |-> txt[g].extent]
    BY <2>1, <1>6, <1>7
  <2>3. t = [base |-> t.base, items |-> t.items, extent |-> t.extent] /\ grp.decls # <<>>
    BY <1>2, <1>5
  <2>4. \A g \in 1 .. n + 1 : src[g].decls # <<>>
          /\ txt[g] = [base |-> txt[g].base, items |-> txt[g].items, extent |-> txt[g].extent]
    <3> TAKE g \in 1 .. n + 1
    <3>1. g \in 1 .. n \/ g = n + 1
      OBVIOUS
    <3>2. CASE g \in 1 .. n
      BY <2>2, <3>2
    <3>3. CASE g = n + 1
      BY <2>3, <1>6, <1>7, <3>3
    <3>4. QED
      BY <3>1, <3>2, <3>3
  <2>5. edited \cup filesToWrite \subseteq Files
    BY DEF IInv, Shape
  <2>6. \A g \in 1 .. (n + 1) - 1 : src[g] = source[g]
    BY <1>6
  <2>7. QED
    BY <2>4, <2>5, <2>6, <1>6, <1>7 DEF ReadyShape
<1>11. PendingOK
  BY DEF IInv
<1>12. /\ lastValueDecl \in Nat \X Nat /\ lastValueDecl[1] \in Nat /\ lastValueDecl[1] <= n
       /\ lastValueDecl[1] = 0 => lastValueDecl = None
  BY <1>11, <1>3 DEF PendingOK
<1>13. ReadyPending(src)
  <2>1. lastValueDecl # None => src[lastValueDecl[1]] = source[lastValueDecl[1]]
    BY <1>6, <1>12
  <2>2. lastValueDecl[1] # Len(src) /\ lastValueDecl[1] <= Len(src)
    BY <1>6, <1>12
  <2>3. lastValueDecl # None =>
          LET g == source[lastValueDecl[1]] IN
          /\ lastValueDecl[2] \in Pointers(g)
          /\ \A i \in Pointers(g) : i <= lastValueDecl[2]
          /\ declGroupString = Collected(g, Pointers(g))
          /\ checkSourceRange(g) \subseteq filesToWrite
    BY <1>11 DEF PendingOK
  <2>4. Earlier(src[Len(src)]) = {}
    BY <1>6, <1>8
  <2>5. QED
    BY <2>1, <2>2, <2>3, <2>4, <1>12 DEF ReadyPending
<1>14. OlderTexts(src, txt)
  <2>1. \A g \in 1 .. n : NoFunctionPointer(source[g]) =>
          TextFits(g, source[g], text[g], lastValueDecl[1], edited \cap filesToWrite)
    BY <1>9 DEF IInv, TextOK, Waiting
  <2>2. Len(src) - 1 = n
    BY <1>6
  <2>3. QED
    BY <2>1, <2>2, <1>6, <1>7 DEF OlderTexts
<1>15. LastText(grp, t, edited \cap filesToWrite)
  <2>1. DOMAIN <<>> = {} /\ DOMAIN grp.decls = {1} /\ grp.decls[1] = d /\ Len(grp.decls) = 1
    BY <1>5
  <2>2. Add(<<>>, 1, Item(d)) = [j \in {1} |-> Item(d)]
    BY <2>1 DEF Add
  <2>3. Original(grp).items = [j \in {1} |-> Item(d)]
    BY <2>1 DEF Original
  <2>4. t.items = Original(grp).items /\ t.extent = 0 /\ t.base = grp.base
    BY <2>2, <2>3, <1>2, <1>5
  <2>5. QED
    BY <2>1, <2>4 DEF LastText
<1>16. QED
  BY <1>6, <1>7, <1>10, <1>13, <1>14, <1>15 DEF Ready

\* A group with one more declarator.
LEMMA DeclaratorAdded ==
  ASSUME NEW grp \in Groups, NEW d \in Decls, NEW k \in Nat, k = Len(grp.decls),
         NEW new, new = [grp EXCEPT !.decls = Append(@, d)]
  PROVE  /\ new \in Groups
         /\ new.file = grp.file /\ new.macro = grp.macro /\ new.base = grp.base
         /\ Len(new.decls) = k + 1 /\ new.decls[k + 1] = d /\ new.decls # <<>>
         /\ \A i \in 1 .. k : new.decls[i] = grp.decls[i]
         /\ DOMAIN grp.decls = 1 .. k /\ DOMAIN new.decls = 1 .. k + 1
         /\ Earlier(new) = Pointers(grp)
<1>1. PICK s \in Seq(Decls) : s = grp.decls
  BY DEF Groups
<1>2. PICK more : more = Append(s, d)
  OBVIOUS
<1>3. more \in Seq(Decls) /\ new = [grp EXCEPT !.decls = more]
  BY <1>1, <1>2
<1>4. /\ new \in Groups /\ new.decls = more
      /\ new.file = grp.file /\ new.macro = grp.macro /\ new.base = grp.base
  BY <1>3 DEF Groups
<1>5. /\ Len(more) = k + 1 /\ more[k + 1] = d /\ more # <<>>
      /\ \A i \in 1 .. k : more[i] = s[i]
      /\ DOMAIN s = 1 .. k /\ DOMAIN more = 1 .. k + 1
  BY <1>1, <1>2
<1>6. Earlier(new) = Pointers(grp)
  BY <1>1, <1>4, <1>5 DEF Earlier, Pointers
<1>7. QED
  BY <1>1, <1>4, <1>5, <1>6

MoreDecls(s, n, d) == [s EXCEPT ![n].decls = Append(@, d)]

MoreItems(s, n, k, x) == [s EXCEPT ![n].items = Add(@, k, x)]

LEMMA DeclaratorReady ==
  ASSUME IInv, pc = "visit", source # <<>>, NEW d \in Decls, NEW n, n = Len(source),
         NEW src, src = MoreDecls(source, n, d),
         NEW txt, txt = MoreItems(text, n, Len(src[n].decls), Item(d))
  PROVE  Ready(src, txt)
<1>1. source \in Seq(Groups) /\ text \in Seq(Range(text)) /\ Len(text) = n
  BY DEF IInv, Shape, Groups
<1>2. n \in Nat /\ n >= 1 /\ DOMAIN source = 1 .. n /\ DOMAIN text = 1 .. n
  BY <1>1
<1>3. PICK grp \in Groups : grp = source[n]
  BY <1>1, <1>2
<1>4. PICK k \in Nat : k = Len(grp.decls)
  BY DEF Groups
<1>5. PICK new : new = [grp EXCEPT !.decls = Append(@, d)]
  OBVIOUS
<1>6. /\ new \in Groups
      /\ new.file = grp.file /\ new.macro = grp.macro /\ new.base = grp.base
      /\ Len(new.decls) = k + 1 /\ new.decls[k + 1] = d /\ new.decls # <<>>
      /\ \A i \in 1 .. k : new.decls[i] = grp.decls[i]
      /\ DOMAIN grp.decls = 1 .. k /\ DOMAIN new.decls = 1 .. k + 1
      /\ Earlier(new) = Pointers(grp)
  BY <1>4, <1>5, DeclaratorAdded
<1>7. src = [source EXCEPT ![n] = new]
  BY <1>2, <1>3, <1>5 DEF MoreDecls
<1>8. /\ src \in Seq(Groups) /\ Len(src) = n /\ src[n] = new
      /\ \A g \in 1 .. n - 1 : src[g] = source[g]
  <2>1. n \in 1 .. Len(source)
    BY <1>2
  <2>2. src \in Seq(Groups) /\ Len(src) = Len(source) /\ src[n] = new
    <3>1. source \in [1 .. n -> Groups] /\ new \in Groups
      BY <1>1, <1>2, <1>6
    <3>2. src \in [1 .. n -> Groups] /\ src[n] = new
      BY <2>1, <3>1, <1>7
    <3>3. QED
      BY <3>2, <1>2, FunctionIsSeq
  <2>3. \A g \in 1 .. n - 1 : src[g] = source[g]
    BY <1>1, <1>2, <1>7
  <2>4. QED
    BY <2>2, <2>3
<1>9. PICK old : old = text[n]
  OBVIOUS
<1>10. PICK t : t = [old EXCEPT !.items = Add(@, k + 1, Item(d))]
  OBVIOUS
<1>11. txt = [text EXCEPT ![n] = t]
  BY <1>2, <1>6, <1>8, <1>9, <1>10 DEF MoreItems
<1>12. /\ txt \in Seq(Range(txt)) /\ Len(txt) = n
       /\ txt[n] = t /\ \A g \in 1 .. n - 1 : txt[g] = text[g]
  <2>1. text \in Seq(Range(text))
    BY <1>1
  <2>2. txt \in Seq(Range(txt)) /\ Len(txt) = Len(text) /\ DOMAIN txt = 1 .. Len(text)
    <3>1. txt = Put(text, n, t)
      BY <1>11 DEF Put
    <3>2. QED
      BY <2>1, <3>1, EntryReplaced
  <2>3. txt[n] = t /\ \A g \in 1 .. n - 1 : txt[g] = text[g]
    BY <1>2, <1>11
  <2>4. QED
    BY <2>2, <2>3, <1>1
<1>13. \A g \in 1 .. n : source[g].decls # <<>>
         /\ text[g] = [base |-> text[g].base, items |-> text[g].items, extent |-> text[g].extent]
  BY <1>2 DEF IInv, Shape
<1>14. /\ old = [base |-> old.base, items |-> old.items, extent |-> old.extent]
       /\ t = [base |-> t.base, items |-> t.items, extent |-> t.extent]
       /\ t.base = old.base /\ t.extent = old.extent
       /\ t.items = Add(old.items, k + 1, Item(d))
  <2>1. old = [base |-> old.base, items |-> old.items, extent |-> old.extent]
    BY <1>2, <1>9, <1>13
  <2>2. PICK items : items = Add(old.items, k + 1, Item(d))
    OBVIOUS
  <2>3. t = [base |-> old.base, items |-> items, extent |-> old.extent]
    BY <2>1, <2>2, <1>10
  <2>4. QED
    BY <2>1, <2>2, <2>3
<1>15. ReadyShape(src, txt)
  <2>1. \A g \in 1 .. n : src[g].decls # <<>>
          /\ txt[g] = [base |-> txt[g].base, items |-> txt[g].items, extent |-> txt[g].extent]
    <3> TAKE g \in 1 .. n
    <3>1. g \in 1 .. n - 1 \/ g = n
      BY <1>2
    <3>2. CASE g \in 1 .. n - 1
      BY <1>8, <1>12, <1>13, <3>2
    <3>3. CASE g = n
      BY <1>6, <1>8, <1>12, <1>14, <3>3
    <3>4. QED
      BY <3>1, <3>2, <3>3
  <2>2. edited \cup filesToWrite \subseteq Files
    BY DEF IInv, Shape
  <2>3. QED
    BY <2>1, <2>2, <1>2, <1>8, <1>12 DEF ReadyShape
<1>16. /\ PendingOK /\ lastValueDecl \in Nat \X Nat /\ lastValueDecl[1] \in Nat
       /\ lastValueDecl[1] <= n
       /\ lastValueDecl[1] = 0 => lastValueDecl = None
  BY <1>1 DEF IInv, PendingOK
<1>17. lastValueDecl # None =>
         LET g == source[lastValueDecl[1]] IN
         /\ lastValueDecl[2] \in Pointers(g)
         /\ \A i \in Pointers(g) : i <= lastValueDecl[2]
         /\ declGroupString = Collected(g, Pointers(g))
         /\ checkSourceRange(g) \subseteq filesToWrite
  BY <1>16 DEF PendingOK
<1>18. Pointers(grp) # {} => lastValueDecl[1] = n
  BY <1>3, <1>16 DEF PendingOK
<1>19. Pointers(grp) # {} => Collected(new, Pointers(grp)) = Collected(grp, Pointers(grp))
  <2> SUFFICES ASSUME Pointers(grp) # {}
               PROVE  Collected(new, Pointers(grp)) = Collected(grp, Pointers(grp))
    OBVIOUS
  <2>1. Pointers(grp) \subseteq Nat /\ Pointers(grp) \subseteq 1 .. k
    BY <1>6 DEF Pointers
  <2>2. Min(Pointers(grp)) \in Pointers(grp)
    BY <2>1, LeastPlace
  <2>3. \A i \in Pointers(grp) : new.decls[i] = grp.decls[i]
    BY <2>1, <1>6
  <2>4. QED
    BY <2>2, <2>3 DEF Collected
<1>20. ReadyPending(src)
  <2>1. lastValueDecl # None =>
          LET g == src[lastValueDecl[1]]
              P == IF lastValueDecl[1] = Len(src) THEN Earlier(g) ELSE Pointers(g)
          IN
          /\ lastValueDecl[2] \in P
          /\ \A i \in P : i <= lastValueDecl[2]
          /\ declGroupString = Collected(g, P)
          /\ checkSourceRange(g) \subseteq filesToWrite
    <3>1. CASE lastValueDecl[1] = n
      <4>1. checkSourceRange(new) = checkSourceRange(grp)
        BY <1>6 DEF checkSourceRange
      <4>2. QED
        BY <3>1, <4>1, <1>3, <1>6, <1>8, <1>17, <1>19
    <3>2. CASE lastValueDecl[1] # n /\ lastValueDecl # None
      <4>1. src[lastValueDecl[1]] = source[lastValueDecl[1]]
        BY <3>2, <1>2, <1>8, <1>16
      <4>2. QED
        BY <3>2, <4>1, <1>8, <1>17
    <3>3. QED
      BY <3>1, <3>2
  <2>2. Earlier(src[Len(src)]) = Pointers(grp)
    BY <1>6, <1>8
  <2>3. Earlier(src[Len(src)]) # {} => lastValueDecl[1] = Len(src)
    BY <2>2, <1>8, <1>18
  <2>4. lastValueDecl \in Nat \X Nat /\ lastValueDecl[1] <= Len(src)
    BY <1>8, <1>16
  <2>5. lastValueDecl[1] = 0 => lastValueDecl = None
    BY <1>16
  <2>6. QED
    BY <2>1, <2>3, <2>4, <2>5 DEF ReadyPending
<1>21. \A g \in 1 .. n : NoFunctionPointer(source[g]) =>
         TextFits(g, source[g], text[g], lastValueDecl[1], edited \cap filesToWrite)
  BY <1>2 DEF IInv, TextOK, Waiting
<1>22. OlderTexts(src, txt)
  <2> SUFFICES ASSUME NEW g \in 1 .. n - 1, NoFunctionPointer(src[g])
               PROVE  TextFits(g, src[g], txt[g], lastValueDecl[1], edited \cap filesToWrite)
    BY <1>8 DEF OlderTexts
  <2>1. g \in 1 .. n /\ src[g] = source[g] /\ txt[g] = text[g]
    BY <1>2, <1>8, <1>12
  <2>2. NoFunctionPointer(source[g])
    BY <2>1
  <2>3. TextFits(g, source[g], text[g], lastValueDecl[1], edited \cap filesToWrite)
    BY <2>1, <2>2, <1>21
  <2>4. QED
    BY <2>1, <2>3
<1>23. LastText(new, t, edited \cap filesToWrite)
  <2> SUFFICES ASSUME \A i \in DOMAIN new.decls : i < Len(new.decls) => new.decls[i].mods # "(T)"
               PROVE  /\ t.items = Original(new).items /\ t.extent = 0
                      /\ new.macro => t.base = new.base
                      /\ ~new.macro /\ Earlier(new) = {} =>
                           \/ t.base = new.base /\ new.base = "int"
                           \/ /\ t.base = SafeBase(new.base) /\ new.base # "int"
                              /\ new.file \in edited \cap filesToWrite
    BY DEF LastText
  <2>1. NoFunctionPointer(grp)
    BY <1>6 DEF NoFunctionPointer
  <2>2. TextFits(n, grp, old, lastValueDecl[1], edited \cap filesToWrite)
    <3>1. n \in 1 .. n /\ NoFunctionPointer(source[n])
      BY <2>1, <1>2, <1>3
    <3>2. TextFits(n, source[n], text[n], lastValueDecl[1], edited \cap filesToWrite)
      BY <3>1, <1>21
    <3>3. QED
      BY <3>2, <1>3, <1>9
  <2>3. Untouched(grp) = [base |-> grp.base, items |-> Original(grp).items, extent |-> 0]
    BY DEF Untouched
  <2>4. old.items = Original(grp).items /\ old.extent = 0
    <3>1. CASE grp.macro
      BY <2>2, <2>3, <3>1 DEF TextFits
    <3>2. CASE ~grp.macro /\ Pointers(grp) = {}
      BY <2>2, <2>3, <3>2 DEF TextFits
    <3>3. CASE ~grp.macro /\ Pointers(grp) # {}
      BY <2>2, <3>3, <1>18 DEF TextFits
    <3>4. QED
      BY <3>1, <3>2, <3>3
  <2>5. Original(grp).items = [i \in 1 .. k |-> Item(grp.decls[i])]
    BY <1>6 DEF Original
  <2>6. Original(new).items = [i \in 1 .. k + 1 |-> Item(new.decls[i])]
    BY <1>6 DEF Original
  <2>7. Add([i \in 1 .. k |-> Item(grp.decls[i])], k + 1, Item(d))
          = [i \in 1 .. k + 1 |-> Item(new.decls[i])]
    BY <1>6 DEF Add
  <2>8. t.items = Original(new).items /\ t.extent = 0
    BY <2>4, <2>5, <2>6, <2>7, <1>14
  <2>9. new.macro => t.base = new.base
    BY <2>2, <2>3, <1>6, <1>14 DEF TextFits
  <2>10. ~new.macro /\ Earlier(new) = {} =>
           /\ old = [Untouched(grp) EXCEPT !.base = SafeBase(@)]
           /\ grp.base # "int" => grp.file \in edited \cap filesToWrite
    BY <2>2, <1>6 DEF TextFits
  <2>11. ~new.macro /\ Earlier(new) = {} =>
           old.base = SafeBase(grp.base)
    BY <2>3, <2>10
  <2>12. QED
    BY <2>8, <2>9, <2>10, <2>11, <1>6, <1>14 DEF SafeBase
<1>24. QED
  BY <1>8, <1>12, <1>15, <1>20, <1>22, <1>23 DEF Ready

-----------------------------------------------------------------------------
(***************************************************************************)
(* translateLastDeclGroup: of the groups up to m, which are those of       *)
(* source, the pending one gets its replacement and no other changes.      *)
(***************************************************************************)
IsText(t) == t = [base |-> t.base, items |-> t.items, extent |-> t.extent]

PendingGroup(grp) ==
  /\ lastValueDecl[2] \in Pointers(grp)
  /\ \A i \in Pointers(grp) : i <= lastValueDecl[2]
  /\ declGroupString = Collected(grp, Pointers(grp))
  /\ checkSourceRange(grp) \subseteq filesToWrite
  /\ Pointers(grp) \subseteq Nat

AllTexts(txt) == \A g \in 1 .. Len(txt) : IsText(txt[g])

GroupsFit(txt, m, waiting, files) ==
  \A g \in 1 .. m : NoFunctionPointer(source[g]) =>
    TextFits(g, source[g], txt[g], waiting, files)

Written(new, txt, m, files) ==
  /\ new \in Seq(Range(new)) /\ Len(new) = Len(txt) /\ AllTexts(new)
  /\ \A g \in 1 .. Len(txt) : g > m => new[g] = txt[g]
  /\ GroupsFit(new, m, 0, files)

LEMMA GroupWritten ==
  ASSUME NEW txt, txt \in Seq(Range(txt)), NEW m \in Nat, m <= Len(txt), AllTexts(txt),
         lastValueDecl \in Nat \X Nat, lastValueDecl[1] <= m,
         lastValueDecl[1] = 0 => lastValueDecl = None,
         lastValueDecl # None => PendingGroup(source[lastValueDecl[1]]),
         GroupsFit(txt, m, lastValueDecl[1], edited \cap filesToWrite),
         NEW more, filesToWrite \subseteq more,
         NEW new, new = translateLastDeclGroup(txt)
  PROVE  Written(new, txt, m, (edited \cup FlushedFiles) \cap more)
<1>0. PICK files : files = (edited \cup FlushedFiles) \cap more
  OBVIOUS
<1>1. edited \cap filesToWrite \subseteq files
  BY <1>0
<1>2. \A g \in 1 .. m : NoFunctionPointer(source[g]) /\ lastValueDecl[1] # g =>
        TextFits(g, source[g], txt[g], 0, files)
  <2> SUFFICES ASSUME NEW g \in 1 .. m, NoFunctionPointer(source[g]), lastValueDecl[1] # g
               PROVE  TextFits(g, source[g], txt[g], 0, files)
    OBVIOUS
  <2>1. TextFits(g, source[g], txt[g], lastValueDecl[1], edited \cap filesToWrite)
    BY DEF GroupsFit
  <2>2. TextFits(g, source[g], txt[g], 0, edited \cap filesToWrite)
    BY <2>1 DEF TextFits
  <2>3. QED
    BY <2>2, <1>1, FitsMore
<1>3. CASE lastValueDecl = None
  <2>1. new = txt /\ lastValueDecl[1] = 0
    BY <1>3 DEF translateLastDeclGroup, None
  <2>2. \A g \in 1 .. m : NoFunctionPointer(source[g]) => TextFits(g, source[g], new[g], 0, files)
    <3> SUFFICES ASSUME NEW g \in 1 .. m, NoFunctionPointer(source[g])
                 PROVE  TextFits(g, source[g], txt[g], 0, files)
      BY <2>1
    <3>1. lastValueDecl[1] # g
      BY <2>1
    <3>2. QED
      BY <3>1, <1>2
  <2>3. QED
    BY <2>1, <2>2, <1>0 DEF Written, GroupsFit
<1>4. CASE lastValueDecl # None
  <2>1. PICK g \in 1 .. m : g = lastValueDecl[1]
    BY <1>4
  <2>2. PICK grp : grp = source[g]
    OBVIOUS
  <2>3. /\ lastValueDecl[2] \in Pointers(grp)
        /\ \A i \in Pointers(grp) : i <= lastValueDecl[2]
        /\ declGroupString = Collected(grp, Pointers(grp))
        /\ checkSourceRange(grp) \subseteq filesToWrite
        /\ Pointers(grp) \subseteq Nat
    BY <1>4, <2>1, <2>2 DEF PendingGroup
  <2>4. PICK k \in Pointers(grp) : k = lastValueDecl[2]
    BY <2>3
  <2>5. Max(Pointers(grp)) = k
    BY <2>3, <2>4, GreatestPlace
  <2>6. NoFunctionPointer(grp) =>
          TextFits(g, grp, txt[g], g, edited \cap filesToWrite)
    <3> SUFFICES ASSUME NoFunctionPointer(grp)
                 PROVE  TextFits(g, grp, txt[g], g, edited \cap filesToWrite)
      OBVIOUS
    <3>1. TextFits(g, source[g], txt[g], lastValueDecl[1], edited \cap filesToWrite)
      BY <2>2 DEF GroupsFit
    <3>2. QED
      BY <3>1, <2>1, <2>2 DEF TextFits
  <2>7. CASE grp.macro
    <3>1. new = txt
      BY <2>1, <2>2, <2>7 DEF translateLastDeclGroup
    <3>2. NoFunctionPointer(grp) => TextFits(g, grp, new[g], 0, files)
      BY <2>6, <2>7, <3>1 DEF TextFits
    <3>3. \A h \in 1 .. m : NoFunctionPointer(source[h]) =>
            TextFits(h, source[h], new[h], 0, files)
      BY <1>2, <2>1, <2>2, <3>1, <3>2
    <3>4. QED
      BY <3>1, <3>3, <1>0 DEF Written, GroupsFit
  <2>8. CASE ~grp.macro
    <3>1. PICK t : t = ReplaceText(txt[g], k, declGroupString.base, declGroupString.items)
      OBVIOUS
    <3>2. new = Put(txt, g, t)
      BY <1>4, <2>1, <2>2, <2>4, <2>8, <3>1 DEF translateLastDeclGroup, Put
    <3>3. new \in Seq(Range(new)) /\ Len(new) = Len(txt)
      BY <3>2, EntryReplaced
    <3>4. new[g] = t /\ \A h \in 1 .. Len(txt) : h # g => new[h] = txt[h]
      BY <2>1, <3>2 DEF Put
    <3>5. IsText(t)
      BY <3>1 DEF ReplaceText, IsText
    <3>6. \A h \in 1 .. Len(txt) : IsText(new[h])
      BY <3>4, <3>5 DEF AllTexts
    <3>7. \A h \in 1 .. Len(txt) : h > m => new[h] = txt[h]
      BY <2>1, <3>4
    <3>8. grp.file \in files
      <4>1. checkSourceRange(grp) = {grp.file}
        BY <2>8 DEF checkSourceRange
      <4>2. FlushedFiles = {grp.file}
        BY <1>4, <2>1, <2>2, <4>1 DEF FlushedFiles
      <4>3. QED
        BY <2>3, <4>1, <4>2, <1>0
    <3>9. NoFunctionPointer(grp) => TextFits(g, grp, new[g], 0, files)
      <4> SUFFICES ASSUME NoFunctionPointer(grp)
                   PROVE  TextFits(g, grp, t, 0, files)
        BY <3>4
      <4>1. TextFits(g, grp, txt[g], g, edited \cap filesToWrite)
        BY <2>6
      <4>2. Pointers(grp) # {} /\ k = Max(Pointers(grp))
        BY <2>4, <2>5
      <4>3. declGroupString = Collected(grp, Pointers(grp))
        BY <2>3
      <4>4. TextFits(g, grp, ReplaceText(txt[g], k, declGroupString.base, declGroupString.items),
                     0, files)
        BY <2>8, <3>8, <4>1, <4>2, <4>3, FitsFlushed
      <4>5. QED
        BY <3>1, <4>4
    <3>10. \A h \in 1 .. m : NoFunctionPointer(source[h]) =>
             TextFits(h, source[h], new[h], 0, files)
      <4> SUFFICES ASSUME NEW h \in 1 .. m, NoFunctionPointer(source[h])
                   PROVE  TextFits(h, source[h], new[h], 0, files)
        OBVIOUS
      <4>1. CASE h = g
        BY <2>2, <3>9, <4>1
      <4>2. CASE h # g
        <5>1. lastValueDecl[1] # h /\ h \in 1 .. Len(txt)
          BY <2>1, <4>2
        <5>2. TextFits(h, source[h], txt[h], 0, files)
          BY <5>1, <1>2
        <5>3. QED
          BY <5>1, <5>2, <3>4, <4>2
      <4>3. QED
        BY <4>1, <4>2
    <3>11. QED
      BY <3>3, <3>6, <3>7, <3>10, <1>0 DEF Written, GroupsFit, AllTexts
  <2>9. QED
    BY <2>7, <2>8
<1>5. QED
  BY <1>3, <1>4

-----------------------------------------------------------------------------
(***************************************************************************)
(* The last group, when HandleVariable has seen its last declarator.       *)
(***************************************************************************)

LEMMA LastPointers ==
  ASSUME NEW grp \in Groups, grp.decls # <<>>, NEW k, k = Len(grp.decls)
  PROVE  /\ k \in Nat /\ k >= 1 /\ DOMAIN grp.decls = 1 .. k
         /\ Earlier(grp) \subseteq Nat /\ \A i \in Earlier(grp) : i < k
         /\ grp.decls[k].mods \notin PtrMods => Pointers(grp) = Earlier(grp)
         /\ grp.decls[k].mods \in PtrMods => Pointers(grp) = Earlier(grp) \cup {k}
<1>1. PICK s \in Seq(Decls) : s = grp.decls
  BY DEF Groups
<1>2. k \in Nat /\ k >= 1 /\ DOMAIN s = 1 .. k
  BY <1>1
<1>3. Pointers(grp) = {i \in 1 .. k : grp.decls[i].mods \in PtrMods}
  BY <1>1, <1>2 DEF Pointers
<1>4. Earlier(grp) = {i \in Pointers(grp) : i < k}
  BY DEF Earlier
<1>5. QED
  BY <1>1, <1>2, <1>3, <1>4

\* The text with its type name replaced.
NewTypeName(grp, t) ==
  IF grp.macro THEN t ELSE [t EXCEPT !.base = SafeBase(@)]

LEMMA TypeNameReplaced ==
  ASSUME NEW grp, ~grp.macro, NEW t, IsText(t)
  PROVE  NewTypeName(grp, t) = [base |-> SafeBase(t.base),
                              items |-> t.items, extent |-> t.extent]
<1>1. PICK b : b = t.base
  OBVIOUS
<1>2. PICK items : items = t.items
  OBVIOUS
<1>3. PICK extent : extent = t.extent
  OBVIOUS
<1>4. t = [base |-> b, items |-> items, extent |-> extent]
  BY <1>1, <1>2, <1>3 DEF IsText
<1>5. NewTypeName(grp, t) = [t EXCEPT !.base = SafeBase(b)]
  BY <1>1 DEF NewTypeName
<1>6. PICK c : c = SafeBase(b)
  OBVIOUS
<1>7. [t EXCEPT !.base = c] = [base |-> c, items |-> items, extent |-> extent]
  BY <1>4
<1>8. QED
  BY <1>1, <1>2, <1>3, <1>5, <1>6, <1>7

LEMMA UntouchedTypeName ==
  ASSUME NEW grp
  PROVE  [Untouched(grp) EXCEPT !.base = SafeBase(@)]
           = [base |-> SafeBase(grp.base),
              items |-> Original(grp).items, extent |-> 0]
<1>1. PICK u : u = Untouched(grp)
  OBVIOUS
<1>2. PICK b : b = grp.base
  OBVIOUS
<1>3. PICK items : items = Original(grp).items
  OBVIOUS
<1>4. u = [base |-> b, items |-> items, extent |-> 0]
  BY <1>1, <1>2, <1>3 DEF Untouched
<1>5. [u EXCEPT !.base = SafeBase(@)]
        = [base |-> SafeBase(b), items |-> items, extent |-> 0]
  BY <1>4
<1>6. QED
  BY <1>1, <1>2, <1>3, <1>5

LEMMA LastFits ==
  ASSUME NEW grp \in Groups, grp.decls # <<>>, grp.decls[Len(grp.decls)].mods = "",
         NEW t, IsText(t), NEW files, LastText(grp, t, files), NoFunctionPointer(grp),
         NEW g, NEW last, Earlier(grp) # {} => last = g,
         NEW more, files \subseteq more, NEW new,
         \/ grp.base = "int" /\ new = t
         \/ grp.base # "int" /\ new = NewTypeName(grp, t) /\ (~grp.macro => grp.file \in more)
  PROVE  TextFits(g, grp, new, last, more)
<1>1. PICK k : k = Len(grp.decls)
  OBVIOUS
<1>2. Pointers(grp) = Earlier(grp)
  <2>1. grp.decls[k].mods \notin PtrMods
    BY <1>1 DEF PtrMods
  <2>2. QED
    BY <2>1, <1>1, LastPointers
<1>3. /\ t.items = Original(grp).items /\ t.extent = 0
      /\ grp.macro => t.base = grp.base
      /\ ~grp.macro /\ Earlier(grp) = {} =>
           \/ t.base = grp.base /\ (Len(grp.decls) = 1 \/ grp.base = "int")
           \/ t.base = SafeBase(grp.base) /\ grp.base # "int" /\ grp.file \in files
  BY DEF LastText, NoFunctionPointer
<1>4. t = [base |-> t.base, items |-> Original(grp).items, extent |-> 0]
  BY <1>3 DEF IsText
<1>5. Untouched(grp) = [base |-> grp.base, items |-> Original(grp).items, extent |-> 0]
  BY DEF Untouched
<1>6. PICK items : items = Original(grp).items
  OBVIOUS
<1>7. CASE grp.macro
  <2>1. new = t
    BY <1>7 DEF NewTypeName
  <2>2. new = Untouched(grp)
    BY <2>1, <1>3, <1>4, <1>5, <1>7
  <2>3. QED
    BY <2>2, <1>7 DEF TextFits
<1>8. CASE ~grp.macro
  <2>1. new = [base |-> IF grp.base = "int" THEN t.base ELSE SafeBase(t.base),
               items |-> items, extent |-> 0]
    <3>1. CASE grp.base = "int"
      BY <3>1, <1>4, <1>6
    <3>2. CASE grp.base # "int"
      BY <3>2, <1>3, <1>6, <1>8, TypeNameReplaced
    <3>3. QED
      BY <3>1, <3>2
  <2>2. new.items = items /\ new.extent = 0
    BY <2>1
  <2>3. CASE Earlier(grp) = {}
    <3>1. grp.base # "int" => new.base = SafeBase(grp.base) /\ grp.file \in more
      BY <2>1, <2>3, <1>3, <1>8 DEF SafeBase
    <3>2. grp.base = "int" => new.base = SafeBase(grp.base)
      BY <2>1, <2>3, <1>3, <1>8 DEF SafeBase
    <3>3. new = [base |-> SafeBase(grp.base),
                 items |-> items, extent |-> 0]
      BY <2>1, <3>1, <3>2
    <3>4. new = [Untouched(grp) EXCEPT !.base = SafeBase(@)]
      BY <3>3, <1>6, UntouchedTypeName
    <3>5. QED
      BY <2>3, <3>1, <3>4, <1>2, <1>8 DEF TextFits
  <2>4. CASE Earlier(grp) # {}
    BY <2>2, <2>4, <1>2, <1>6, <1>8 DEF TextFits
  <2>5. QED
    BY <2>3, <2>4
<1>9. QED
  BY <1>7, <1>8

LEMMA LastFitsPointer ==
  ASSUME NEW grp \in Groups, grp.decls # <<>>, grp.decls[Len(grp.decls)].mods \in PtrMods,
         NEW t, IsText(t), NEW files, LastText(grp, t, files), NoFunctionPointer(grp),
         NEW g, NEW more
  PROVE  TextFits(g, grp, t, g, more)
<1>1. PICK k : k = Len(grp.decls)
  OBVIOUS
<1>2. Pointers(grp) # {}
  BY <1>1, LastPointers
<1>3. /\ t.items = Original(grp).items /\ t.extent = 0
      /\ grp.macro => t.base = grp.base
  BY DEF LastText, NoFunctionPointer
<1>4. Untouched(grp) = [base |-> grp.base, items |-> Original(grp).items, extent |-> 0]
  BY DEF Untouched
<1>5. grp.macro => t = Untouched(grp)
  BY <1>3, <1>4 DEF IsText
<1>6. QED
  BY <1>2, <1>3, <1>5 DEF TextFits

-----------------------------------------------------------------------------
(***************************************************************************)
(* The invariant after HandleVariable.                                     *)
(***************************************************************************)

LEMMA Handled ==
  ASSUME NEW src \in Seq(Groups), NEW n \in Nat, n = Len(src), n >= 1, source' = src,
         pc = "visit", pc' = pc,
         \A g \in 1 .. n : src[g].decls # <<>>,
         text' \in Seq(Range(text')), Len(text') = n, \A g \in 1 .. n : IsText(text'[g]),
         edited' \cup filesToWrite' \subseteq Files,
         PendingOK',
         NEW last, last = lastValueDecl'[1],
         NEW files, files = edited' \cap filesToWrite',
         \A g \in 1 .. n : NoFunctionPointer(src[g]) =>
           TextFits(g, src[g], text'[g], last, files)
  PROVE  IInv'
<1>1. DOMAIN src = 1 .. n
  OBVIOUS
<1>2. Shape'
  BY <1>1 DEF Shape, Groups, IsText
<1>3. TextOK'
  <2>1. Waiting' = last
    BY DEF Waiting
  <2>2. QED
    BY <2>1, <1>1 DEF TextOK
<1>4. DoneOK'
  BY DEF DoneOK
<1>5. QED
  BY <1>2, <1>3, <1>4 DEF IInv

LEMMA OlderKept ==
  ASSUME NEW src, NEW txt, OlderTexts(src, txt), NEW n \in Nat, n = Len(src),
         NEW new, \A g \in 1 .. n - 1 : new[g] = txt[g],
         NEW files, edited \cap filesToWrite \subseteq files,
         NEW last, last = lastValueDecl[1]
  PROVE  \A g \in 1 .. n - 1 : NoFunctionPointer(src[g]) =>
           TextFits(g, src[g], new[g], last, files)
<1> SUFFICES ASSUME NEW g \in 1 .. n - 1, NoFunctionPointer(src[g])
             PROVE  TextFits(g, src[g], new[g], last, files)
  OBVIOUS
<1>1. TextFits(g, src[g], txt[g], lastValueDecl[1], edited \cap filesToWrite)
  BY DEF OlderTexts
<1>2. new[g] = txt[g]
  OBVIOUS
<1>3. TextFits(g, src[g], new[g], last, edited \cap filesToWrite)
  BY <1>1, <1>2
<1>4. QED
  BY <1>3, FitsMore

LEMMA ReadyParts ==
  ASSUME NEW src, NEW txt, Ready(src, txt), NEW n, n = Len(src)
  PROVE  /\ n \in Nat /\ n >= 1 /\ n \in 1 .. n /\ src \in Seq(Groups) /\ src # <<>>
         /\ src[n] \in Groups /\ src[n].decls # <<>>
         /\ txt \in Seq(Range(txt)) /\ Len(txt) = n
         /\ \A g \in 1 .. n : src[g].decls # <<>> /\ IsText(txt[g])
         /\ \A g \in 1 .. n - 1 : src[g] = source[g]
         /\ edited \cup filesToWrite \subseteq Files /\ pc = "visit"
<1>1. /\ src \in Seq(Groups) /\ txt \in Seq(Range(txt)) /\ Len(txt) = n /\ n >= 1
      /\ \A g \in 1 .. n : src[g].decls # <<>> /\ IsText(txt[g])
      /\ \A g \in 1 .. n - 1 : src[g] = source[g]
      /\ edited \cup filesToWrite \subseteq Files /\ pc = "visit"
  BY DEF Ready, ReadyShape, IsText
<1>2. n \in Nat /\ n \in 1 .. n /\ src # <<>>
  BY <1>1
<1>3. src[n] \in Groups
  BY <1>1, <1>2
<1>4. QED
  BY <1>1, <1>2, <1>3

\* The pending group, when the declarator handled is no pointer.
LEMMA PendingKept ==
  ASSUME NEW src, NEW txt, Ready(src, txt), NEW n \in Nat, n = Len(src), source' = src,
         src[n].decls[Len(src[n].decls)].mods \notin PtrMods,
         UNCHANGED <<lastValueDecl, declGroupString>>, filesToWrite \subseteq filesToWrite'
  PROVE  PendingOK'
<1>1. PICK grp : grp = src[n]
  OBVIOUS
<1>2. n >= 1 /\ grp \in Groups /\ grp.decls # <<>> /\ src # <<>>
  BY <1>1, ReadyParts
<1>3. Pointers(grp) = Earlier(grp)
  <2>1. PICK k : k = Len(grp.decls)
    OBVIOUS
  <2>2. grp.decls[k].mods \notin PtrMods
    BY <1>1, <2>1
  <2>3. QED
    BY <1>2, <2>1, <2>2, LastPointers
<1>4. ReadyPending(src)
  BY DEF Ready
<1>5. lastValueDecl # None =>
        LET g == src[lastValueDecl[1]] IN
        /\ lastValueDecl[2] \in Pointers(g)
        /\ \A i \in Pointers(g) : i <= lastValueDecl[2]
        /\ declGroupString = Collected(g, Pointers(g))
        /\ checkSourceRange(g) \subseteq filesToWrite
  BY <1>1, <1>3, <1>4 DEF ReadyPending
<1>6. Pointers(src[n]) # {} => lastValueDecl[1] = n
  BY <1>1, <1>3, <1>4 DEF ReadyPending
<1>7. /\ lastValueDecl \in Nat \X Nat /\ lastValueDecl[1] <= n
      /\ lastValueDecl[1] = 0 => lastValueDecl = None
  BY <1>4 DEF ReadyPending
<1>8. checkSourceRange(src[lastValueDecl[1]]) \subseteq filesToWrite =>
        checkSourceRange(src[lastValueDecl[1]]) \subseteq filesToWrite'
  OBVIOUS
<1>9. QED
  BY <1>5, <1>6, <1>7, <1>8 DEF PendingOK, checkSourceRange

LEMMA NoPointerHandled ==
  ASSUME NEW src, NEW txt, Ready(src, txt), NEW n, n = Len(src), source' = src, pc' = pc,
         src[n].decls[Len(src[n].decls)].mods \notin PtrMods,
         UNCHANGED <<lastValueDecl, declGroupString>>,
         NEW new, text' = new, new \in Seq(Range(new)), Len(new) = n, IsText(new[n]),
         \A g \in 1 .. n - 1 : new[g] = txt[g],
         edited \subseteq edited', filesToWrite \subseteq filesToWrite',
         edited' \cup filesToWrite' \subseteq Files,
         NEW last, last = lastValueDecl[1],
         NEW files, files = edited' \cap filesToWrite',
         NoFunctionPointer(src[n]) => TextFits(n, src[n], new[n], last, files)
  PROVE  IInv'
<1>1. n \in Nat /\ n >= 1 /\ src \in Seq(Groups) /\ pc = "visit"
  BY ReadyParts
<1>2. \A g \in 1 .. n : src[g].decls # <<>> /\ IsText(txt[g])
  BY ReadyParts
<1>3. PendingOK'
  BY <1>1, PendingKept
<1>4. \A g \in 1 .. n - 1 : NoFunctionPointer(src[g]) => TextFits(g, src[g], new[g], last, files)
  <2>1. OlderTexts(src, txt)
    BY DEF Ready
  <2>2. edited \cap filesToWrite \subseteq files
    OBVIOUS
  <2>3. QED
    BY <2>1, <2>2, <1>1, OlderKept
<1>5. \A g \in 1 .. n : NoFunctionPointer(src[g]) => TextFits(g, src[g], new[g], last, files)
  <2> SUFFICES ASSUME NEW g \in 1 .. n, NoFunctionPointer(src[g])
               PROVE  TextFits(g, src[g], new[g], last, files)
    OBVIOUS
  <2>1. CASE g = n
    BY <2>1
  <2>2. CASE g # n
    <3>1. g \in 1 .. n - 1
      BY <2>2, <1>1
    <3>2. QED
      BY <3>1, <1>4
  <2>3. QED
    BY <2>1, <2>2
<1>6. \A g \in 1 .. n : IsText(new[g])
  <2> SUFFICES ASSUME NEW g \in 1 .. n
               PROVE  IsText(new[g])
    OBVIOUS
  <2>1. g = n \/ new[g] = txt[g]
    BY <1>1
  <2>2. QED
    BY <2>1, <1>2
<1>7. lastValueDecl'[1] = last
  OBVIOUS
<1>8. text' \in Seq(Range(text')) /\ Len(text') = n /\ \A g \in 1 .. n : IsText(text'[g])
  BY <1>6
<1>9. \A g \in 1 .. n : NoFunctionPointer(src[g]) => TextFits(g, src[g], text'[g], last, files)
  BY <1>5
<1>10. \A g \in 1 .. n : src[g].decls # <<>>
  BY <1>2
<1>11. QED
  BY <1>1, <1>3, <1>7, <1>8, <1>9, <1>10, Handled

LEMMA OtherHandled ==
  ASSUME NEW src, NEW txt, Ready(src, txt), source' = src, pc' = pc, OtherVariable(src, txt)
  PROVE  IInv'
<1>1. PICK n : n = Len(src)
  OBVIOUS
<1>2. PICK grp : grp = src[n]
  OBVIOUS
<1>3. /\ n \in Nat /\ n \in 1 .. n /\ grp \in Groups /\ grp.decls # <<>>
      /\ txt \in Seq(Range(txt)) /\ Len(txt) = n
      /\ edited \cup filesToWrite \subseteq Files
  BY <1>1, <1>2, ReadyParts
<1>4. IsText(txt[n])
  BY <1>1, <1>3, ReadyParts
<1>5. /\ grp.decls[Len(grp.decls)].mods = "" /\ grp.base = "int" /\ text' = txt
      /\ UNCHANGED <<lastValueDecl, declGroupString, edited, filesToWrite>>
  BY <1>1, <1>2 DEF OtherVariable
<1>6. grp.decls[Len(grp.decls)].mods \notin PtrMods
  BY <1>5 DEF PtrMods
<1>7. PICK last : last = lastValueDecl[1]
  OBVIOUS
<1>8. Earlier(grp) # {} => last = n
  BY <1>1, <1>2, <1>7 DEF Ready, ReadyPending
<1>9. PICK files : files = edited \cap filesToWrite
  OBVIOUS
<1>10. LastText(grp, txt[n], files)
  BY <1>1, <1>2, <1>9 DEF Ready
<1>11. NoFunctionPointer(grp) => TextFits(n, grp, txt[n], last, files)
  BY <1>3, <1>4, <1>5, <1>8, <1>10, LastFits
<1>12. NoFunctionPointer(src[n]) => TextFits(n, src[n], txt[n], last, files)
  BY <1>2, <1>11
<1>13. files = edited' \cap filesToWrite'
  BY <1>5, <1>9
<1>14. QED
  BY <1>1, <1>2, <1>3, <1>4, <1>5, <1>6, <1>7, <1>12, <1>13, NoPointerHandled

LEMMA TypeNameHandled ==
  ASSUME NEW src, NEW txt, Ready(src, txt), source' = src, pc' = pc,
         translateSmartPointer(src, txt) \/ translateTemplateArguments(src, txt)
  PROVE  IInv'
<1>1. PICK n : n = Len(src)
  OBVIOUS
<1>2. PICK grp : grp = src[n]
  OBVIOUS
<1>3. /\ n \in Nat /\ n \in 1 .. n /\ grp \in Groups /\ grp.decls # <<>>
      /\ txt \in Seq(Range(txt)) /\ Len(txt) = n
      /\ edited \cup filesToWrite \subseteq Files
  BY <1>1, <1>2, ReadyParts
<1>4. IsText(txt[n])
  BY <1>1, <1>3, ReadyParts
<1>5. /\ grp.decls[Len(grp.decls)].mods = "" /\ grp.base # "int"
      /\ text' = IF grp.macro THEN txt
                 ELSE [txt EXCEPT ![n].base = SafeBase(@)]
      /\ edited' = edited \cup checkSourceRange(grp)
      /\ filesToWrite' = filesToWrite \cup checkSourceRange(grp)
      /\ UNCHANGED <<lastValueDecl, declGroupString>>
  BY <1>1, <1>2 DEF translateSmartPointer, translateTemplateArguments, ReplaceTypeName
<1>6. grp.decls[Len(grp.decls)].mods \notin PtrMods
  BY <1>5 DEF PtrMods
<1>7. PICK last : last = lastValueDecl[1]
  OBVIOUS
<1>8. Earlier(grp) # {} => last = n
  BY <1>1, <1>2, <1>7 DEF Ready, ReadyPending
<1>9. PICK files : files = edited \cap filesToWrite
  OBVIOUS
<1>10. PICK more : more = edited' \cap filesToWrite'
  OBVIOUS
<1>11. files \subseteq more /\ (~grp.macro => grp.file \in more)
  BY <1>5, <1>9, <1>10 DEF checkSourceRange
<1>12. edited' \cup filesToWrite' \subseteq Files
  BY <1>3, <1>5 DEF checkSourceRange, Groups
<1>13. LastText(grp, txt[n], files)
  BY <1>1, <1>2, <1>9 DEF Ready
<1>14. PICK t : t = NewTypeName(grp, txt[n])
  OBVIOUS
<1>15. PICK new : new = text'
  OBVIOUS
<1>16. /\ new \in Seq(Range(new)) /\ Len(new) = n
       /\ new[n] = t /\ \A g \in 1 .. n - 1 : new[g] = txt[g]
  <2>1. CASE grp.macro
    BY <2>1, <1>3, <1>5, <1>14, <1>15 DEF NewTypeName
  <2>2. CASE ~grp.macro
    <3>1. DOMAIN txt = 1 .. n
      BY <1>3
    <3>2. new = Put(txt, n, t)
      BY <2>2, <3>1, <1>3, <1>5, <1>14, <1>15 DEF NewTypeName, Put
    <3>3. new \in Seq(Range(new)) /\ Len(new) = Len(txt)
      BY <3>2, <1>3, EntryReplaced
    <3>4. new[n] = t /\ \A g \in 1 .. n - 1 : new[g] = txt[g]
      BY <3>1, <3>2, <1>3 DEF Put
    <3>5. QED
      BY <3>3, <3>4, <1>3
  <2>3. QED
    BY <2>1, <2>2
<1>17. IsText(t)
  <2>1. CASE grp.macro
    BY <2>1, <1>4, <1>14 DEF NewTypeName
  <2>2. CASE ~grp.macro
    <3>1. t = [base |-> SafeBase(txt[n].base),
               items |-> txt[n].items, extent |-> txt[n].extent]
      BY <2>2, <1>4, <1>14, TypeNameReplaced
    <3>2. QED
      BY <3>1 DEF IsText
  <2>3. QED
    BY <2>1, <2>2
<1>18. NoFunctionPointer(grp) => TextFits(n, grp, t, last, more)
  BY <1>3, <1>4, <1>5, <1>8, <1>11, <1>13, <1>14, LastFits
<1>19. NoFunctionPointer(src[n]) => TextFits(n, src[n], new[n], last, more)
  BY <1>2, <1>16, <1>18
<1>20. edited \subseteq edited' /\ filesToWrite \subseteq filesToWrite' /\ IsText(new[n])
  BY <1>5, <1>16, <1>17
<1>21. src[n].decls[Len(src[n].decls)].mods \notin PtrMods
  BY <1>2, <1>6
<1>22. UNCHANGED <<lastValueDecl, declGroupString>>
  BY <1>5
<1>23. QED
  BY <1>1, <1>7, <1>10, <1>12, <1>15, <1>16, <1>19, <1>20, <1>21, <1>22,
     NoPointerHandled

LEMMA FunctionPointerHandled ==
  ASSUME NEW src, NEW txt, Ready(src, txt), source' = src, pc' = pc,
         translateFunctionPointer(src, txt)
  PROVE  IInv'
<1>1. PICK n : n = Len(src)
  OBVIOUS
<1>2. PICK grp : grp = src[n]
  OBVIOUS
<1>3. /\ n \in Nat /\ n \in 1 .. n /\ grp \in Groups /\ grp.decls # <<>>
      /\ txt \in Seq(Range(txt)) /\ Len(txt) = n
      /\ edited \cup filesToWrite \subseteq Files
  BY <1>1, <1>2, ReadyParts
<1>4. IsText(txt[n])
  BY <1>1, <1>3, ReadyParts
<1>5. PICK item : item = Add(<<>>, Len(grp.decls), [mods |-> "(T)", init |-> <<>>])
  OBVIOUS
<1>6. PICK t : t = ReplaceText(txt[n], Len(grp.decls), "int", item)
  OBVIOUS
<1>7. /\ grp.decls[Len(grp.decls)].mods = "(T)"
      /\ text' = IF grp.macro THEN txt ELSE Put(txt, n, t)
      /\ edited' = edited \cup checkSourceRange(grp)
      /\ filesToWrite' = filesToWrite \cup checkSourceRange(grp)
      /\ UNCHANGED <<lastValueDecl, declGroupString>>
  <2>1. DOMAIN txt = 1 .. n
    BY <1>3
  <2>2. QED
    BY <2>1, <1>1, <1>2, <1>3, <1>5, <1>6 DEF translateFunctionPointer, Put
<1>8. grp.decls[Len(grp.decls)].mods \notin PtrMods
  BY <1>7 DEF PtrMods
<1>9. PICK last : last = lastValueDecl[1]
  OBVIOUS
<1>10. PICK more : more = edited' \cap filesToWrite'
  OBVIOUS
<1>11. edited' \cup filesToWrite' \subseteq Files
  BY <1>3, <1>7 DEF checkSourceRange, Groups
<1>12. PICK new : new = text'
  OBVIOUS
<1>13. IsText(t)
  BY <1>6 DEF ReplaceText, IsText
<1>14. /\ new \in Seq(Range(new)) /\ Len(new) = n
       /\ IsText(new[n]) /\ \A g \in 1 .. n - 1 : new[g] = txt[g]
  <2>1. CASE grp.macro
    BY <2>1, <1>3, <1>4, <1>7, <1>12
  <2>2. CASE ~grp.macro
    <3>1. new = Put(txt, n, t)
      BY <2>2, <1>7, <1>12
    <3>2. new \in Seq(Range(new)) /\ Len(new) = Len(txt)
      BY <3>1, <1>3, EntryReplaced
    <3>3. new[n] = t /\ \A g \in 1 .. n - 1 : new[g] = txt[g]
      BY <3>1, <1>3 DEF Put
    <3>4. QED
      BY <3>2, <3>3, <1>3, <1>13
  <2>3. QED
    BY <2>1, <2>2
<1>15. ~NoFunctionPointer(src[n])
  <2>1. PICK k : k = Len(grp.decls)
    OBVIOUS
  <2>2. k \in Nat /\ k >= 1 /\ DOMAIN grp.decls = 1 .. k
    BY <2>1, <1>3, LastPointers
  <2>3. k \in DOMAIN grp.decls
    BY <2>2
  <2>4. QED
    BY <2>1, <2>3, <1>2, <1>7 DEF NoFunctionPointer
<1>16. edited \subseteq edited' /\ filesToWrite \subseteq filesToWrite'
  BY <1>7
<1>17. src[n].decls[Len(src[n].decls)].mods \notin PtrMods
  BY <1>2, <1>8
<1>18. QED
  BY <1>1, <1>7, <1>9, <1>10, <1>11, <1>12, <1>14, <1>15, <1>16, <1>17, NoPointerHandled

\* The pending group, when the declarator handled is a pointer.
LEMMA PendingPointer ==
  ASSUME NEW src, NEW txt, Ready(src, txt), NEW n, n = Len(src), source' = src,
         translatePointer(src, txt)
  PROVE  PendingOK'
<1>1. PICK grp : grp = src[n]
  OBVIOUS
<1>2. n \in Nat /\ n >= 1 /\ n \in 1 .. n /\ grp \in Groups /\ grp.decls # <<>> /\ src # <<>>
  BY <1>1, ReadyParts
<1>3. PICK k : k = Len(grp.decls)
  OBVIOUS
<1>4. PICK d : d = grp.decls[k]
  OBVIOUS
<1>5. PICK item : item = [mods |-> "", init |-> traverseStmt[d.init]]
  OBVIOUS
<1>6. /\ d.mods \in PtrMods
      /\ declGroupString' = IF lastValueDecl[1] = n
                            THEN [declGroupString EXCEPT !.items = Add(@, k, item)]
                            ELSE [base |-> buildType(d), items |-> Add(<<>>, k, item)]
      /\ lastValueDecl' = <<n, k>>
      /\ filesToWrite' = filesToWrite \cup checkSourceRange(grp)
  BY <1>1, <1>3, <1>4, <1>5 DEF translatePointer
<1>7. /\ k \in Nat /\ k >= 1 /\ Pointers(grp) = Earlier(grp) \cup {k}
      /\ Earlier(grp) \subseteq Nat /\ \A i \in Earlier(grp) : i < k
  BY <1>2, <1>3, <1>4, <1>6, LastPointers
<1>8. /\ lastValueDecl[1] = n <=> Earlier(grp) # {}
      /\ Earlier(grp) # {} => declGroupString = Collected(grp, Earlier(grp))
  <2>1. Earlier(grp) # {} => lastValueDecl[1] = n
    BY <1>1 DEF Ready, ReadyPending
  <2>2. lastValueDecl[1] = n => lastValueDecl # None
    BY <1>2 DEF None
  <2>3. lastValueDecl[1] = n =>
          lastValueDecl[2] \in Earlier(grp) /\ declGroupString = Collected(grp, Earlier(grp))
    BY <2>2, <1>1 DEF Ready, ReadyPending
  <2>4. QED
    BY <2>1, <2>3
<1>9. declGroupString' = Collected(grp, Pointers(grp))
  <2>1. CASE Earlier(grp) # {}
    <3>1. PICK pending : pending = declGroupString
      OBVIOUS
    <3>2. PICK P : P = Earlier(grp)
      OBVIOUS
    <3>3. declGroupString' = WithItem(pending, k, item)
      BY <2>1, <3>1, <1>6, <1>8 DEF WithItem
    <3>4. /\ P \subseteq Nat /\ P # {} /\ k \in Nat /\ \A i \in P : i < k
          /\ pending = Collected(grp, P)
      BY <2>1, <3>1, <3>2, <1>7, <1>8
    <3>5. WithItem(pending, k, NewItem(grp, k)) = Collected(grp, P \cup {k})
      BY <3>4, CollectedMore
    <3>6. item = NewItem(grp, k)
      BY <1>4, <1>5 DEF NewItem
    <3>7. QED
      BY <3>2, <3>3, <3>5, <3>6, <1>7
  <2>2. CASE Earlier(grp) = {}
    <3>1. declGroupString' = [base |-> buildType(d), items |-> Add(<<>>, k, item)]
      BY <2>2, <1>6, <1>8
    <3>2. Pointers(grp) = {k}
      BY <2>2, <1>7
    <3>3. QED
      BY <3>1, <3>2, <1>4, <1>5, <1>7, CollectedOne
  <2>3. QED
    BY <2>1, <2>2
<1>10. k \in Pointers(grp) /\ (\A i \in Pointers(grp) : i <= k) /\ Pointers(grp) # {}
  BY <1>7
<1>11. lastValueDecl'[1] = n /\ lastValueDecl'[2] = k /\ lastValueDecl' \in Nat \X Nat
  BY <1>2, <1>6, <1>7
<1>12. checkSourceRange(grp) \subseteq filesToWrite'
  BY <1>6
<1>13. source'[n] = grp /\ Len(source') = n
  BY <1>1
<1>14. QED
  BY <1>2, <1>9, <1>10, <1>11, <1>12, <1>13 DEF PendingOK, checkSourceRange

\* The groups before the last when the group that waits is written because
\* another has begun.
LEMMA OlderWritten ==
  ASSUME NEW src, NEW txt, Ready(src, txt), NEW n, n = Len(src), lastValueDecl[1] # n,
         NEW more, filesToWrite \subseteq more,
         NEW new, new = translateLastDeclGroup(txt)
  PROVE  Written(new, txt, n - 1, (edited \cup FlushedFiles) \cap more)
<1>1. /\ n \in Nat /\ n >= 1 /\ src \in Seq(Groups)
      /\ txt \in Seq(Range(txt)) /\ Len(txt) = n
      /\ \A g \in 1 .. n : IsText(txt[g])
      /\ \A g \in 1 .. n - 1 : src[g] = source[g]
  BY ReadyParts
<1>2. PICK m \in Nat : m = n - 1
  BY <1>1
<1>3. ReadyPending(src) /\ OlderTexts(src, txt)
  BY DEF Ready
<1>4. /\ lastValueDecl \in Nat \X Nat /\ lastValueDecl[1] <= n
      /\ lastValueDecl[1] = 0 => lastValueDecl = None
  BY <1>3 DEF ReadyPending
<1>5. lastValueDecl[1] <= m
  BY <1>1, <1>2, <1>4
<1>6. lastValueDecl # None => src[lastValueDecl[1]] = source[lastValueDecl[1]]
  BY <1>1, <1>2, <1>4, <1>5
<1>7. lastValueDecl # None =>
        LET grp == source[lastValueDecl[1]] IN
        /\ lastValueDecl[2] \in Pointers(grp)
        /\ \A i \in Pointers(grp) : i <= lastValueDecl[2]
        /\ declGroupString = Collected(grp, Pointers(grp))
        /\ checkSourceRange(grp) \subseteq filesToWrite
  BY <1>3, <1>6 DEF ReadyPending
<1>8. lastValueDecl # None => Pointers(source[lastValueDecl[1]]) \subseteq Nat
  <2>1. lastValueDecl # None => src[lastValueDecl[1]] \in Groups
    BY <1>1, <1>2, <1>4, <1>5
  <2>2. \A grp \in Groups : Pointers(grp) \subseteq Nat
    BY DEF Groups, Pointers
  <2>3. QED
    BY <2>1, <2>2, <1>6
<1>9. GroupsFit(txt, m, lastValueDecl[1], edited \cap filesToWrite)
  BY <1>1, <1>2, <1>3 DEF OlderTexts, GroupsFit
<1>10. AllTexts(txt) /\ m <= Len(txt) /\ txt \in Seq(Range(txt))
  BY <1>1, <1>2 DEF AllTexts
<1>11. lastValueDecl # None => PendingGroup(source[lastValueDecl[1]])
  BY <1>7, <1>8 DEF PendingGroup
<1>12. Written(new, txt, m, (edited \cup FlushedFiles) \cap more)
  BY <1>4, <1>5, <1>9, <1>10, <1>11, GroupWritten
<1>13. QED
  BY <1>2, <1>12

LEMMA PointerHandled ==
  ASSUME NEW src, NEW txt, Ready(src, txt), source' = src, pc' = pc,
         translatePointer(src, txt)
  PROVE  IInv'
<1>1. PICK n : n = Len(src)
  OBVIOUS
<1>2. PICK grp : grp = src[n]
  OBVIOUS
<1>3. /\ n \in Nat /\ n >= 1 /\ n \in 1 .. n /\ src \in Seq(Groups)
      /\ grp \in Groups /\ grp.decls # <<>>
      /\ txt \in Seq(Range(txt)) /\ Len(txt) = n
      /\ edited \cup filesToWrite \subseteq Files /\ pc = "visit"
  BY <1>1, <1>2, ReadyParts
<1>4. \A g \in 1 .. n : src[g].decls # <<>> /\ IsText(txt[g])
  BY <1>1, ReadyParts
<1>5. /\ grp.decls[Len(grp.decls)].mods \in PtrMods
      /\ text' = IF lastValueDecl[1] = n THEN txt ELSE translateLastDeclGroup(txt)
      /\ edited' = IF lastValueDecl[1] = n THEN edited ELSE edited \cup FlushedFiles
      /\ lastValueDecl'[1] = n
      /\ filesToWrite' = filesToWrite \cup checkSourceRange(grp)
  BY <1>1, <1>2 DEF translatePointer
<1>6. PICK more : more = edited' \cap filesToWrite'
  OBVIOUS
<1>7. PICK new : new = text'
  OBVIOUS
<1>8. edited' \cup filesToWrite' \subseteq Files
  <2>1. \A g \in Groups : checkSourceRange(g) \subseteq Files
    BY DEF Groups, checkSourceRange
  <2>2. lastValueDecl[1] # n => FlushedFiles \subseteq Files
    <3> SUFFICES ASSUME lastValueDecl[1] # n, lastValueDecl # None
                 PROVE  checkSourceRange(source[lastValueDecl[1]]) \subseteq Files
      BY DEF FlushedFiles
    <3>1. /\ lastValueDecl \in Nat \X Nat /\ lastValueDecl[1] <= n
          /\ lastValueDecl[1] = 0 => lastValueDecl = None
      BY <1>1 DEF Ready, ReadyPending
    <3>2. lastValueDecl[1] \in 1 .. n - 1
      BY <3>1, <1>3
    <3>3. source[lastValueDecl[1]] = src[lastValueDecl[1]]
      BY <3>2, <1>1, ReadyParts
    <3>4. src[lastValueDecl[1]] \in Groups
      BY <3>2, <1>1, <1>3
    <3>5. QED
      BY <3>3, <3>4, <2>1
  <2>3. QED
    BY <2>1, <2>2, <1>3, <1>5
<1>9. /\ new \in Seq(Range(new)) /\ Len(new) = n /\ new[n] = txt[n]
      /\ \A g \in 1 .. n : IsText(new[g])
      /\ \A g \in 1 .. n - 1 : NoFunctionPointer(src[g]) => TextFits(g, src[g], new[g], n, more)
  <2>1. CASE lastValueDecl[1] = n
    <3>1. new = txt /\ edited \cap filesToWrite \subseteq more
      BY <2>1, <1>5, <1>6, <1>7
    <3>2. OlderTexts(src, txt)
      BY DEF Ready
    <3>3. \A g \in 1 .. n - 1 : new[g] = txt[g]
      BY <3>1
    <3>4. \A g \in 1 .. n - 1 : NoFunctionPointer(src[g]) => TextFits(g, src[g], new[g], n, more)
      BY <2>1, <3>1, <3>2, <3>3, <1>1, <1>3, OlderKept
    <3>5. QED
      BY <3>1, <3>4, <1>3, <1>4
  <2>2. CASE lastValueDecl[1] # n
    <3>1. new = translateLastDeclGroup(txt) /\ edited' = edited \cup FlushedFiles
      BY <2>2, <1>5, <1>7
    <3>2. PICK saved : saved = filesToWrite'
      OBVIOUS
    <3>3. filesToWrite \subseteq saved
      BY <3>2, <1>5
    <3>4. Written(new, txt, n - 1, (edited \cup FlushedFiles) \cap saved)
      BY <2>2, <3>1, <3>3, <1>1, OlderWritten
    <3>5. more = (edited \cup FlushedFiles) \cap saved
      BY <3>1, <3>2, <1>6
    <3>6. \A g \in 1 .. n - 1 : NoFunctionPointer(src[g]) => TextFits(g, src[g], new[g], 0, more)
      <4>1. \A g \in 1 .. n - 1 : src[g] = source[g]
        BY <1>1, ReadyParts
      <4>2. QED
        BY <3>4, <3>5, <4>1 DEF Written, GroupsFit
    <3>7. \A g \in 1 .. n - 1 : NoFunctionPointer(src[g]) => TextFits(g, src[g], new[g], n, more)
      <4> SUFFICES ASSUME NEW g \in 1 .. n - 1, NoFunctionPointer(src[g])
                   PROVE  TextFits(g, src[g], new[g], n, more)
        OBVIOUS
      <4>1. g # 0 /\ g # n
        BY <1>3
      <4>2. TextFits(g, src[g], new[g], 0, more)
        BY <3>6
      <4>3. QED
        BY <4>1, <4>2 DEF TextFits
    <3>8. /\ new \in Seq(Range(new)) /\ Len(new) = n /\ new[n] = txt[n]
          /\ \A g \in 1 .. n : IsText(new[g])
      BY <3>4, <1>3 DEF Written, AllTexts
    <3>9. QED
      BY <3>7, <3>8
  <2>3. QED
    BY <2>1, <2>2
<1>10. NoFunctionPointer(src[n]) => TextFits(n, src[n], new[n], n, more)
  <2>1. PICK files : files = edited \cap filesToWrite
    OBVIOUS
  <2>2. LastText(grp, txt[n], files) /\ IsText(txt[n])
    BY <2>1, <1>1, <1>2, <1>3, <1>4 DEF Ready
  <2>3. NoFunctionPointer(grp) => TextFits(n, grp, txt[n], n, more)
    BY <2>2, <1>3, <1>5, LastFitsPointer
  <2>4. QED
    BY <2>3, <1>2, <1>9
<1>11. \A g \in 1 .. n : NoFunctionPointer(src[g]) => TextFits(g, src[g], text'[g], n, more)
  <2> SUFFICES ASSUME NEW g \in 1 .. n, NoFunctionPointer(src[g])
               PROVE  TextFits(g, src[g], new[g], n, more)
    BY <1>7
  <2>1. CASE g = n
    BY <2>1, <1>10
  <2>2. CASE g # n
    <3>1. g \in 1 .. n - 1
      BY <2>2, <1>3
    <3>2. QED
      BY <3>1, <1>9
  <2>3. QED
    BY <2>1, <2>2
<1>12. PendingOK'
  BY <1>1, PendingPointer
<1>13. text' \in Seq(Range(text')) /\ Len(text') = n /\ \A g \in 1 .. n : IsText(text'[g])
  BY <1>7, <1>9
<1>14. lastValueDecl'[1] = n /\ \A g \in 1 .. n : src[g].decls # <<>>
  BY <1>4, <1>5
<1>15. QED
  BY <1>1, <1>3, <1>6, <1>8, <1>11, <1>12, <1>13, <1>14, Handled

LEMMA VariableHandled ==
  ASSUME NEW src, NEW txt, Ready(src, txt), source' = src, pc' = pc,
         HandleVariable(src, txt)
  PROVE  IInv'
<1>1. \/ translateFunctionPointer(src, txt) \/ translatePointer(src, txt)
      \/ translateSmartPointer(src, txt) \/ translateTemplateArguments(src, txt)
      \/ OtherVariable(src, txt)
  BY DEF HandleVariable
<1>2. QED
  BY <1>1, OtherHandled, TypeNameHandled, FunctionPointerHandled, PointerHandled

-----------------------------------------------------------------------------
(***************************************************************************)
(* The invariance.                                                         *)
(***************************************************************************)

LEMMA InitIInv == Init => IInv
<1> SUFFICES ASSUME Init
             PROVE  IInv
  OBVIOUS
<1>1. /\ source = <<>> /\ text = <<>> /\ lastValueDecl = <<0, 0>>
      /\ edited = {} /\ filesToWrite = {} /\ pc = "visit"
  BY DEF Init, None
<1>2. DOMAIN source = {} /\ Len(source) = 0 /\ Len(text) = 0 /\ text \in Seq(Range(text))
  BY <1>1
<1>3. Shape
  <2>1. source \in Seq([file: Files, macro: BOOLEAN, base: Bases, decls: Seq(Decls)])
    BY <1>1
  <2>2. QED
    BY <2>1, <1>1, <1>2 DEF Shape
<1>4. PendingOK
  <2>1. lastValueDecl = None /\ lastValueDecl \in Nat \X Nat /\ lastValueDecl[1] <= Len(source)
    BY <1>1, <1>2 DEF None
  <2>2. QED
    BY <2>1, <1>1 DEF PendingOK
<1>5. TextOK /\ DoneOK
  BY <1>1, <1>2 DEF TextOK, DoneOK
<1>6. QED
  BY <1>3, <1>4, <1>5 DEF IInv

LEMMA VisitGroupIInv ==
  ASSUME IInv, NEW f \in Files, NEW macro \in BOOLEAN, NEW base \in Bases,
         NEW d \in Decls, VisitGroup(f, macro, base, d)
  PROVE  IInv'
<1>1. PICK src :
        src = Append(source, [file |-> f, macro |-> macro, base |-> base, decls |-> <<d>>])
  OBVIOUS
<1>2. PICK txt :
        txt = Append(text, [base |-> base, items |-> Add(<<>>, 1, Item(d)), extent |-> 0])
  OBVIOUS
<1>3. pc = "visit" /\ pc' = pc /\ source' = src /\ HandleVariable(src, txt)
  BY <1>1, <1>2 DEF VisitGroup
<1>4. Ready(src, txt)
  BY <1>1, <1>2, <1>3, GroupReady
<1>5. QED
  BY <1>3, <1>4, VariableHandled

LEMMA VisitDeclaratorIInv ==
  ASSUME IInv, NEW d \in Decls, VisitDeclarator(d)
  PROVE  IInv'
<1>1. PICK n : n = Len(source)
  OBVIOUS
<1>2. PICK src : src = MoreDecls(source, n, d)
  OBVIOUS
<1>3. PICK txt : txt = MoreItems(text, n, Len(src[n].decls), Item(d))
  OBVIOUS
<1>4. /\ pc = "visit" /\ source # <<>> /\ pc' = pc
      /\ source' = src /\ HandleVariable(src, txt)
  BY <1>1, <1>2, <1>3 DEF VisitDeclarator, MoreDecls, MoreItems
<1>5. Ready(src, txt)
  BY <1>1, <1>2, <1>3, <1>4, DeclaratorReady
<1>6. QED
  BY <1>4, <1>5, VariableHandled

LEMMA NodeIInv ==
  ASSUME IInv, pc = "visit", pc' = pc, edited \subseteq edited', filesToWrite \subseteq filesToWrite',
         edited' \cup filesToWrite' \subseteq Files,
         UNCHANGED <<source, text, lastValueDecl, declGroupString>>
  PROVE  IInv'
<1>1. Shape'
  BY DEF IInv, Shape
<1>2. PendingOK'
  <2>1. PendingOK
    BY DEF IInv
  <2>2. QED
    BY <2>1 DEF PendingOK, checkSourceRange
<1>3. TextOK'
  <2>1. PICK files : files = edited \cap filesToWrite
    OBVIOUS
  <2>2. PICK more : more = edited' \cap filesToWrite'
    OBVIOUS
  <2>3. files \subseteq more
    BY <2>1, <2>2
  <2>4. PICK last : last = lastValueDecl[1]
    OBVIOUS
  <2>5. \A g \in DOMAIN source : NoFunctionPointer(source[g]) =>
          TextFits(g, source[g], text[g], last, files)
    BY <2>1, <2>4 DEF IInv, TextOK, Waiting
  <2>6. \A g \in DOMAIN source : NoFunctionPointer(source[g]) =>
          TextFits(g, source[g], text[g], last, more)
    BY <2>3, <2>5, FitsMore
  <2>7. Waiting' = last
    BY <2>4 DEF Waiting
  <2>8. QED
    BY <2>2, <2>6, <2>7 DEF TextOK
<1>4. DoneOK'
  BY DEF DoneOK
<1>5. QED
  BY <1>1, <1>2, <1>3, <1>4 DEF IInv

LEMMA VisitNodeIInv ==
  ASSUME IInv, NEW f \in Files, NEW checked \in BOOLEAN, NEW rewrite \in BOOLEAN,
         VisitNode(f, checked, rewrite)
  PROVE  IInv'
<1>1. edited \cup filesToWrite \subseteq Files
  BY DEF IInv, Shape
<1>2. edited' = edited \/ edited' = edited \cup {f}
  BY DEF VisitNode
<1>3. filesToWrite' = filesToWrite \/ filesToWrite' = filesToWrite \cup {f}
  BY DEF VisitNode
<1>4. /\ pc = "visit" /\ pc' = pc /\ UNCHANGED <<source, text, lastValueDecl, declGroupString>>
  BY DEF VisitNode
<1>5. edited \subseteq edited' /\ filesToWrite \subseteq filesToWrite'
      /\ edited' \cup filesToWrite' \subseteq Files
  BY <1>1, <1>2, <1>3
<1>6. QED
  BY <1>4, <1>5, NodeIInv

\* At the end no group waits any more.
LEMMA EndIInv ==
  ASSUME IInv, HandleTranslationUnit
  PROVE  IInv'
<1>1. /\ pc = "visit" /\ pc' = "done"
      /\ text' = translateLastDeclGroup(text)
      /\ edited' = edited \cup FlushedFiles
      /\ written' = filesToWrite \cap edited'
      /\ UNCHANGED <<source, lastValueDecl, declGroupString, filesToWrite>>
  BY DEF HandleTranslationUnit
<1>2. PICK n : n = Len(source)
  OBVIOUS
<1>3. /\ source \in Seq(Groups) /\ text \in Seq(Range(text)) /\ Len(text) = n
      /\ edited \cup filesToWrite \subseteq Files
  BY <1>2 DEF IInv, Shape, Groups
<1>4. n \in Nat /\ DOMAIN source = 1 .. n
  BY <1>2, <1>3
<1>5. \A g \in 1 .. n : source[g].decls # <<>> /\ IsText(text[g])
  BY <1>4 DEF IInv, Shape, IsText
<1>6. PendingOK
  BY DEF IInv
<1>7. /\ lastValueDecl \in Nat \X Nat /\ lastValueDecl[1] <= n
      /\ lastValueDecl[1] = 0 => lastValueDecl = None
  BY <1>2, <1>6 DEF PendingOK
<1>8. lastValueDecl # None => source[lastValueDecl[1]] \in Groups
  BY <1>2, <1>3, <1>4, <1>7
<1>9. lastValueDecl # None => PendingGroup(source[lastValueDecl[1]])
  <2>1. \A grp \in Groups : Pointers(grp) \subseteq Nat
    BY DEF Groups, Pointers
  <2>2. QED
    BY <2>1, <1>6, <1>8 DEF PendingOK, PendingGroup
<1>10. GroupsFit(text, n, lastValueDecl[1], edited \cap filesToWrite)
  BY <1>1, <1>4 DEF IInv, TextOK, Waiting, GroupsFit
<1>11. AllTexts(text) /\ n <= Len(text)
  BY <1>3, <1>4, <1>5 DEF AllTexts
<1>12. PICK new : new = text'
  OBVIOUS
<1>13. new = translateLastDeclGroup(text)
  BY <1>1, <1>12
<1>14. PICK more : more = filesToWrite
  OBVIOUS
<1>15. Written(new, text, n, (edited \cup FlushedFiles) \cap more)
  <2>1. filesToWrite \subseteq more
    BY <1>14
  <2>2. QED
    BY <2>1, <1>3, <1>4, <1>7, <1>9, <1>10, <1>11, <1>13, GroupWritten
<1>16. /\ new \in Seq(Range(new)) /\ Len(new) = n
       /\ \A g \in 1 .. n : IsText(new[g])
  BY <1>3, <1>15 DEF Written, AllTexts
<1>17. edited' \cup filesToWrite' \subseteq Files
  <2>1. FlushedFiles \subseteq Files
    BY <1>8 DEF FlushedFiles, checkSourceRange, Groups
  <2>2. QED
    BY <2>1, <1>1, <1>3
<1>18. Shape'
  <2>1. source' = source
    BY <1>1
  <2>2. QED
    BY <2>1, <1>1, <1>2, <1>3, <1>4, <1>5, <1>12, <1>16, <1>17 DEF Shape, Groups, IsText
<1>19. PendingOK'
  BY <1>1, <1>6 DEF PendingOK, checkSourceRange
<1>20. TextOK'
  <2>1. \A g \in 1 .. n : NoFunctionPointer(source[g]) =>
          TextFits(g, source[g], new[g], 0, (edited \cup FlushedFiles) \cap more)
    BY <1>15 DEF Written, GroupsFit
  <2>2. Waiting' = 0
    BY <1>1 DEF Waiting
  <2>3. (edited \cup FlushedFiles) \cap more = edited' \cap filesToWrite'
    BY <1>1, <1>14
  <2>4. source' = source
    BY <1>1
  <2>5. QED
    BY <2>1, <2>2, <2>3, <2>4, <1>4, <1>12 DEF TextOK
<1>21. DoneOK'
  BY <1>1 DEF DoneOK
<1>22. QED
  BY <1>18, <1>19, <1>20, <1>21 DEF IInv

LEMMA NextIInv == IInv /\ [Next]_vars => IInv'
<1> SUFFICES ASSUME IInv, [Next]_vars
             PROVE  IInv'
  OBVIOUS
<1>1. ASSUME NEW f \in Files, NEW macro \in BOOLEAN, NEW base \in Bases,
             NEW d \in Decls, VisitGroup(f, macro, base, d)
      PROVE  IInv'
  BY <1>1, VisitGroupIInv
<1>2. ASSUME NEW d \in Decls, VisitDeclarator(d)
      PROVE  IInv'
  BY <1>2, VisitDeclaratorIInv
<1>3. ASSUME NEW f \in Files, NEW checked \in BOOLEAN, NEW rewrite \in BOOLEAN,
             VisitNode(f, checked, rewrite)
      PROVE  IInv'
  BY <1>3, VisitNodeIInv
<1>4. ASSUME NEW f \in Files,
             \/ translateDelete(f) \/ translatePointerTypedef(f) \/ translateNewExpr(f)
             \/ translateCast(f)
             \/ \E b \in BOOLEAN :
                  translateFunction(f, b) \/ translateSystemCall(f, b) \/ translateMain(f, b)
      PROVE  IInv'
  <2>1. \E checked \in BOOLEAN : \E rewrite \in BOOLEAN : VisitNode(f, checked, rewrite)
    BY <1>4 DEF translateDelete, translatePointerTypedef, translateNewExpr, translateCast,
                translateFunction, translateSystemCall, translateMain
  <2>2. QED
    BY <2>1, <1>3
<1>5. CASE HandleTranslationUnit
  BY <1>5, EndIInv
<1>6. CASE UNCHANGED vars
  <2>1. UNCHANGED <<source, text, lastValueDecl, declGroupString, edited, filesToWrite, pc>>
    BY <1>6 DEF vars
  <2>2. UNCHANGED written
    BY <1>6 DEF vars
  <2>3. Shape' /\ PendingOK'
    BY <2>1 DEF IInv, Shape, PendingOK, checkSourceRange
  <2>4. TextOK'
    BY <2>1 DEF IInv, TextOK, Waiting
  <2>5. DoneOK'
    BY <2>1, <2>2 DEF IInv, DoneOK
  <2>6. QED
    BY <2>3, <2>4, <2>5 DEF IInv
<1>7. QED
  BY <1>1, <1>2, <1>4, <1>5, <1>6 DEF Next

\* The inductive invariant of the translator: the pending group, the texts and
\* the files they are written to.
THEOREM Invariance == Spec => []IInv
<1>1. Init => IInv
  BY InitIInv
<1>2. IInv /\ [Next]_vars => IInv'
  BY NextIInv
<1>3. QED
  BY <1>1, <1>2, PTL DEF Spec

-----------------------------------------------------------------------------
(***************************************************************************)
(* The replacement of a group's pointers is the last that happens to it.   *)
(***************************************************************************)

\* The text of a group that was replaced: the group has a pointer and does not
\* wait.
LEMMA ReplacedGroup ==
  ASSUME IInv, NEW g \in DOMAIN source, NoFunctionPointer(source[g]), text[g].extent > 0
  PROVE  Pointers(source[g]) # {} /\ g # Waiting
<1>1. PICK grp : grp = source[g]
  OBVIOUS
<1>2. TextFits(g, grp, text[g], Waiting, edited \cap filesToWrite)
  BY <1>1 DEF IInv, TextOK
<1>3. Untouched(grp).extent = 0
  BY DEF Untouched
<1>4. text[g] # Untouched(grp) /\ text[g].extent # 0
  BY <1>3
<1>5. Pointers(grp) # {}
  <2> SUFFICES ASSUME Pointers(grp) = {}
               PROVE  FALSE
    OBVIOUS
  <2>1. ~grp.macro
    BY <1>2, <1>4 DEF TextFits
  <2>2. text[g] = [Untouched(grp) EXCEPT !.base = SafeBase(@)]
    BY <1>2, <2>1 DEF TextFits
  <2>3. text[g] = [base |-> SafeBase(grp.base),
                   items |-> Original(grp).items, extent |-> 0]
    BY <2>2, UntouchedTypeName
  <2>4. QED
    BY <2>3, <1>4
<1>6. g # Waiting
  BY <1>2, <1>4, <1>5 DEF TextFits
<1>7. QED
  BY <1>1, <1>5, <1>6

\* The groups that were counted stay so.
CountsOK == DOMAIN rewrites = DOMAIN source

LEMMA CountsGrow ==
  ASSUME NEW src, NEW S, rewrites' = RewriteSource(src, S)
  PROVE  /\ DOMAIN rewrites' = DOMAIN src
         /\ \A g \in DOMAIN src : g \in DOMAIN rewrites /\ g \notin S => rewrites'[g] = rewrites[g]
BY DEF RewriteSource

LEMMA VariableCounted ==
  ASSUME NEW src, NEW txt, HandleVariable(src, txt)
  PROVE  \E S : /\ rewrites' = RewriteSource(src, S)
                /\ S \subseteq {Len(src), lastValueDecl[1]}
<1>1. FlushedGroup \subseteq {lastValueDecl[1]} /\ ThisGroup(src) \subseteq {Len(src)}
  BY DEF FlushedGroup, ThisGroup
<1>2. CASE translateFunctionPointer(src, txt)
  BY <1>1, <1>2 DEF translateFunctionPointer
<1>3. CASE translatePointer(src, txt)
  <2>1. \/ rewrites' = RewriteSource(src, {})
        \/ rewrites' = RewriteSource(src, FlushedGroup)
    BY <1>3 DEF translatePointer
  <2>2. QED
    BY <2>1, <1>1
<1>4. CASE translateSmartPointer(src, txt)
  BY <1>1, <1>4 DEF translateSmartPointer
<1>5. CASE translateTemplateArguments(src, txt)
  <2>1. \/ rewrites' = RewriteSource(src, {})
        \/ rewrites' = RewriteSource(src, ThisGroup(src))
    BY <1>5 DEF translateTemplateArguments
  <2>2. QED
    BY <2>1, <1>1
<1>6. CASE OtherVariable(src, txt)
  <2>1. rewrites' = RewriteSource(src, {})
    BY <1>6 DEF OtherVariable
  <2>2. QED
    BY <2>1
<1>7. QED
  BY <1>2, <1>3, <1>4, <1>5, <1>6 DEF HandleVariable

LEMMA CountsInvariance == Spec => []CountsOK
<1>1. Init => CountsOK
  BY DEF Init, CountsOK
<1>2. CountsOK /\ [Next]_vars => CountsOK'
  <2> SUFFICES ASSUME CountsOK, [Next]_vars
               PROVE  CountsOK'
    OBVIOUS
  <2>1. ASSUME NEW src, NEW txt, source' = src, HandleVariable(src, txt)
        PROVE  CountsOK'
    BY <2>1, VariableCounted, CountsGrow DEF CountsOK
  <2>2. ASSUME NEW f \in Files, NEW macro \in BOOLEAN, NEW base \in Bases,
               NEW d \in Decls, VisitGroup(f, macro, base, d)
        PROVE  CountsOK'
    BY <2>1, <2>2 DEF VisitGroup
  <2>3. ASSUME NEW d \in Decls, VisitDeclarator(d)
        PROVE  CountsOK'
    BY <2>1, <2>3 DEF VisitDeclarator
  <2>4. ASSUME NEW f \in Files,
               \/ translateDelete(f) \/ translatePointerTypedef(f) \/ translateNewExpr(f)
               \/ translateCast(f)
               \/ \E b \in BOOLEAN :
                    translateFunction(f, b) \/ translateSystemCall(f, b) \/ translateMain(f, b)
        PROVE  CountsOK'
    <3>1. UNCHANGED <<source, rewrites>>
      BY <2>4 DEF translateDelete, translatePointerTypedef, translateNewExpr, translateCast,
                  translateFunction, translateSystemCall, translateMain, VisitNode
    <3>2. QED
      BY <3>1 DEF CountsOK
  <2>5. CASE HandleTranslationUnit
    <3>1. source' = source /\ rewrites' = RewriteSource(source, FlushedGroup)
      BY <2>5 DEF HandleTranslationUnit
    <3>2. QED
      BY <3>1, CountsGrow DEF CountsOK
  <2>6. CASE UNCHANGED vars
    BY <2>6 DEF vars, CountsOK
  <2>7. QED
    BY <2>2, <2>3, <2>4, <2>5, <2>6 DEF Next
<1>3. QED
  BY <1>1, <1>2, PTL DEF Spec

\* What HandleVariable leaves alone.
LEMMA OthersKept ==
  ASSUME NEW src, NEW txt, HandleVariable(src, txt),
         NEW g \in DOMAIN txt, g # Len(src), g # lastValueDecl[1],
         g \in DOMAIN src, g \in DOMAIN rewrites
  PROVE  text'[g] = txt[g] /\ rewrites'[g] = rewrites[g]
<1>1. translateLastDeclGroup(txt)[g] = txt[g]
  BY DEF translateLastDeclGroup
<1>2. text'[g] = txt[g]
  <2>1. CASE translateFunctionPointer(src, txt)
    BY <2>1 DEF translateFunctionPointer
  <2>2. CASE translatePointer(src, txt)
    BY <1>1, <2>2 DEF translatePointer
  <2>3. CASE translateSmartPointer(src, txt) \/ translateTemplateArguments(src, txt)
    BY <2>3 DEF translateSmartPointer, translateTemplateArguments, ReplaceTypeName
  <2>4. CASE OtherVariable(src, txt)
    BY <2>4 DEF OtherVariable
  <2>5. QED
    BY <2>1, <2>2, <2>3, <2>4 DEF HandleVariable
<1>3. PICK S : rewrites' = RewriteSource(src, S) /\ S \subseteq {Len(src), lastValueDecl[1]}
  BY VariableCounted
<1>4. rewrites'[g] = rewrites[g]
  BY <1>3, CountsGrow
<1>5. QED
  BY <1>2, <1>4

LEMMA StepWrittenLast ==
  ASSUME IInv, CountsOK, Next,
         NEW g \in DOMAIN source, NoFunctionPointer(source[g]), text[g].extent > 0
  PROVE  source'[g] = source[g] /\ text'[g] = text[g] /\ rewrites'[g] = rewrites[g]
<1>1. Pointers(source[g]) # {} /\ g # Waiting
  BY ReplacedGroup
<1>2. PICK n : n = Len(source)
  OBVIOUS
<1>3. source \in Seq(Groups) /\ text \in Seq(Range(text)) /\ Len(text) = n
  BY <1>2 DEF IInv, Shape, Groups
<1>4. n \in Nat /\ g \in 1 .. n /\ DOMAIN text = 1 .. n /\ g \in DOMAIN rewrites
  BY <1>2, <1>3 DEF CountsOK
<1>5. pc = "visit" => g # lastValueDecl[1]
  BY <1>1 DEF Waiting
<1>6. ASSUME NEW f \in Files, NEW macro \in BOOLEAN, NEW base \in Bases,
             NEW d \in Decls, VisitGroup(f, macro, base, d)
      PROVE  source'[g] = source[g] /\ text'[g] = text[g] /\ rewrites'[g] = rewrites[g]
  <2>1. PICK grp : grp = [file |-> f, macro |-> macro, base |-> base, decls |-> <<d>>]
    OBVIOUS
  <2>2. PICK src : src = Append(source, grp)
    OBVIOUS
  <2>3. PICK t : t = [base |-> base, items |-> Add(<<>>, 1, Item(d)), extent |-> 0]
    OBVIOUS
  <2>4. PICK txt : txt = Append(text, t)
    OBVIOUS
  <2>5. pc = "visit" /\ source' = src /\ HandleVariable(src, txt)
    BY <1>6, <2>1, <2>2, <2>3, <2>4 DEF VisitGroup
  <2>6. Len(src) = n + 1 /\ g \in DOMAIN src /\ src[g] = source[g]
    <3>1. grp \in Groups
      BY <2>1 DEF Groups
    <3>2. QED
      BY <3>1, <2>2, <1>2, <1>3, <1>4
  <2>7. \A h \in 1 .. Len(text) : txt[h] = text[h]
    BY <2>4, <1>3, EntryAdded
  <2>8. g \in DOMAIN txt /\ txt[g] = text[g]
    <3>1. txt \in Seq(Range(txt)) /\ Len(txt) = Len(text) + 1
      BY <2>4, <1>3, EntryAdded
    <3>2. QED
      BY <3>1, <2>7, <1>3, <1>4
  <2>9. g # Len(src) /\ g # lastValueDecl[1]
    BY <2>5, <2>6, <1>4, <1>5
  <2>10. text'[g] = txt[g] /\ rewrites'[g] = rewrites[g]
    BY <2>5, <2>6, <2>8, <2>9, <1>4, OthersKept
  <2>11. QED
    BY <2>5, <2>6, <2>8, <2>10
<1>7. ASSUME NEW d \in Decls, VisitDeclarator(d)
      PROVE  source'[g] = source[g] /\ text'[g] = text[g] /\ rewrites'[g] = rewrites[g]
  <2>1. PICK src : src = MoreDecls(source, n, d)
    OBVIOUS
  <2>2. PICK txt : txt = MoreItems(text, n, Len(src[n].decls), Item(d))
    OBVIOUS
  <2>3. pc = "visit" /\ source # <<>> /\ source' = src /\ HandleVariable(src, txt)
    BY <1>2, <1>7, <2>1, <2>2 DEF VisitDeclarator, MoreDecls, MoreItems
  <2>4. g # n
    <3>1. Pointers(source[n]) # {} => lastValueDecl[1] = n
      BY <2>3, <1>2 DEF IInv, PendingOK
    <3>2. QED
      BY <2>3, <3>1, <1>1, <1>5
  <2>5. g \in DOMAIN txt /\ txt[g] = text[g]
    BY <2>2, <2>4, <1>4 DEF MoreItems
  <2>6. Len(src) = n /\ g \in DOMAIN src /\ src[g] = source[g]
    BY <2>1, <2>4, <1>2, <1>3, <1>4 DEF MoreDecls
  <2>7. g # Len(src) /\ g # lastValueDecl[1]
    BY <2>3, <2>4, <2>6, <1>5
  <2>8. text'[g] = txt[g] /\ rewrites'[g] = rewrites[g]
    BY <2>3, <2>5, <2>6, <2>7, <1>4, OthersKept
  <2>9. QED
    BY <2>3, <2>5, <2>6, <2>8
<1>8. ASSUME NEW f \in Files,
             \/ translateDelete(f) \/ translatePointerTypedef(f) \/ translateNewExpr(f)
             \/ translateCast(f)
             \/ \E b \in BOOLEAN :
                  translateFunction(f, b) \/ translateSystemCall(f, b) \/ translateMain(f, b)
      PROVE  source'[g] = source[g] /\ text'[g] = text[g] /\ rewrites'[g] = rewrites[g]
  BY <1>8 DEF translateDelete, translatePointerTypedef, translateNewExpr, translateCast,
              translateFunction, translateSystemCall, translateMain, VisitNode
<1>9. CASE HandleTranslationUnit
  <2>1. /\ text' = translateLastDeclGroup(text) /\ g # lastValueDecl[1] /\ g \in DOMAIN text
        /\ source' = source /\ rewrites' = RewriteSource(source, FlushedGroup)
    BY <1>4, <1>5, <1>9 DEF HandleTranslationUnit
  <2>2. text'[g] = text[g] /\ g \notin FlushedGroup
    BY <2>1 DEF translateLastDeclGroup, FlushedGroup
  <2>3. rewrites'[g] = rewrites[g]
    BY <2>1, <2>2, <1>4, CountsGrow
  <2>4. QED
    BY <2>1, <2>2, <2>3
<1>10. QED
  BY <1>6, <1>7, <1>8, <1>9 DEF Next

\* WrittenLast: however the declarations, the macros and the other nodes of a
\* program follow each other, when translateLastDeclGroup has replaced the
\* pointers of a group, the visitor is through with that group: no declarator
\* of it follows, and neither translatePointer, translateSmartPointer,
\* translateTemplateArguments nor HandleTranslationUnit has it rewritten again.
THEOREM WrittenLastHolds == Spec => WrittenLast
<1>1. IInv /\ CountsOK /\ [Next]_vars =>
        [\A g \in DOMAIN source : NoFunctionPointer(source[g]) /\ text[g].extent > 0
           => /\ source'[g] = source[g] /\ text'[g] = text[g]
              /\ rewrites'[g] = rewrites[g]]_vars
  <2> SUFFICES ASSUME IInv, CountsOK, Next
               PROVE  \A g \in DOMAIN source : NoFunctionPointer(source[g]) /\ text[g].extent > 0
                        => /\ source'[g] = source[g] /\ text'[g] = text[g]
                           /\ rewrites'[g] = rewrites[g]
    OBVIOUS
  <2>1. QED
    BY StepWrittenLast
<1>2. QED
  BY <1>1, Invariance, CountsInvariance, PTL DEF Spec, WrittenLast

-----------------------------------------------------------------------------
(***************************************************************************)
(* What the groups become.  The builder gives an initializer back as it    *)
(* was when it has one construct at most; with more it does not            *)
(* (InitTranslated).                                                       *)
(***************************************************************************)

LEMMA ChainParts ==
  ASSUME MaxInit \in {0, 1}, NEW c \in Chains, c # <<>>
  PROVE  Tail(c) = <<>> /\ <<Head(c)>> = c
<1>1. PICK n \in 0 .. MaxInit : c \in [1 .. n -> {"cast", "call"}]
  BY DEF Chains
<1>2. CASE n = 0
  <2>1. c \in [1 .. 0 -> {"cast", "call"}]
    BY <1>1, <1>2
  <2>2. c = <<>>
    BY <2>1
  <2>3. QED
    BY <2>2
<1>3. CASE n = 1
  <2>1. PICK a \in Nat : a = 1
    OBVIOUS
  <2>2. c \in [1 .. a -> {"cast", "call"}]
    BY <2>1, <1>1, <1>3
  <2>3. c \in Seq({"cast", "call"}) /\ Len(c) = a
    BY <2>2, FunctionIsSeq
  <2>4. Tail(c) = <<>>
    <3>1. Tail(c) \in Seq({"cast", "call"}) /\ Len(Tail(c)) = 0
      BY <2>1, <2>3
    <3>2. QED
      BY <3>1
  <2>5. <<Head(c)>> = c
    <3>1. DOMAIN c = 1 .. 1 /\ Head(c) = c[1]
      BY <2>1, <2>3
    <3>2. c = [k \in 1 .. 1 |-> c[k]]
      BY <3>1, <1>1
    <3>3. QED
      BY <3>1, <3>2
  <2>6. QED
    BY <2>4, <2>5
<1>4. QED
  BY <1>1, <1>2, <1>3

LEMMA TraverseSame ==
  ASSUME MaxInit \in {0, 1}, NEW c \in Chains
  PROVE  traverseStmt[c] = c
<1> DEFINE Build(f, s) ==
             IF s = <<>> THEN <<>> ELSE f[Tail(s)] \o (<<Head(s)>> \o f[Tail(s)])
           same == [s \in Chains |-> s]
<1>1. <<>> \in Chains
  <2>1. <<>> \in [1 .. 0 -> {"cast", "call"}] /\ 0 \in 0 .. MaxInit
    OBVIOUS
  <2>2. QED
    BY <2>1 DEF Chains
<1>2. \A s \in Chains : s # <<>> => Build(same, s) = s
  <2> SUFFICES ASSUME NEW s \in Chains, s # <<>>
               PROVE  same[Tail(s)] \o (<<Head(s)>> \o same[Tail(s)]) = s
    OBVIOUS
  <2>1. Tail(s) = <<>> /\ <<Head(s)>> = s
    BY ChainParts
  <2>2. same[Tail(s)] = <<>>
    BY <2>1, <1>1
  <2>3. s \o <<>> = s /\ <<>> \o s = s
    <3>1. s \in Seq({"cast", "call"})
      BY DEF Chains
    <3>2. QED
      BY <3>1
  <2>4. QED
    BY <2>1, <2>2, <2>3
<1>3. same = [s \in Chains |-> Build(same, s)]
  BY <1>2
<1>4. traverseStmt = CHOOSE f : f = [s \in Chains |-> Build(f, s)]
  BY DEF traverseStmt
<1>5. traverseStmt = [s \in Chains |-> Build(traverseStmt, s)]
  <2> HIDE DEF Build, same
  <2> QED
    BY <1>3, <1>4
<1>6. traverseStmt[<<>>] = <<>>
  BY <1>1, <1>5
<1>7. CASE c = <<>>
  BY <1>6, <1>7
<1>8. CASE c # <<>>
  <2>1. traverseStmt[c] = Build(traverseStmt, c)
    BY <1>5
  <2>2. Tail(c) = <<>> /\ <<Head(c)>> = c
    BY <1>8, ChainParts
  <2>3. c \o <<>> = c /\ <<>> \o c = c
    <3>1. c \in Seq({"cast", "call"})
      BY DEF Chains
    <3>2. QED
      BY <3>1
  <2>4. QED
    BY <2>1, <2>2, <2>3, <1>6, <1>8
<1>9. QED
  BY <1>7, <1>8

\* The declarators of a group, as the declarations of the language have them.
LEMMA DeclaratorKinds ==
  ASSUME NEW d \in Decls
  PROVE  d.init \in Chains /\ (d.mods \notin PtrMods => d.init = <<>>)
<1>1. <<>> \in Chains
  <2>1. <<>> \in [1 .. 0 -> {"cast", "call"}] /\ 0 \in 0 .. MaxInit
    BY TranslatorAssumption
  <2>2. QED
    BY <2>1 DEF Chains
<1>2. d \in AllDecls
  BY TranslatorAssumption
<1>3. CASE d \in [mods: {"*"}, singleton: BOOLEAN, init: Chains]
  BY <1>3 DEF PtrMods
<1>4. CASE d \in {[mods |-> m, singleton |-> FALSE, init |-> <<>>] : m \in Mods \ {"*"}}
  BY <1>1, <1>4
<1>5. QED
  BY <1>2, <1>3, <1>4 DEF AllDecls

\* The one replacement of a group is its translation.
LEMMA ReplacedIsTranslation ==
  ASSUME MaxInit \in {0, 1}, NEW grp \in Groups, ~grp.macro, Pointers(grp) # {},
         NEW t, t = Replaced(grp)
  PROVE  [base |-> t.base, items |-> t.items] = Translation(grp)
<1>1. PICK P : P = Pointers(grp)
  OBVIOUS
<1>2. PICK k : k = Max(P)
  OBVIOUS
<1>3. DOMAIN grp.decls \subseteq Nat /\ \A i \in DOMAIN grp.decls : grp.decls[i] \in Decls
  BY DEF Groups
<1>4. P \subseteq DOMAIN grp.decls /\ P \subseteq Nat /\ P # {}
  BY <1>1, <1>3 DEF Pointers
<1>5. \A i \in P : grp.decls[i].mods \in PtrMods /\ traverseStmt[grp.decls[i].init] = grp.decls[i].init
  <2> SUFFICES ASSUME NEW i \in P
               PROVE  grp.decls[i].mods \in PtrMods
                      /\ traverseStmt[grp.decls[i].init] = grp.decls[i].init
    OBVIOUS
  <2>1. grp.decls[i].mods \in PtrMods /\ grp.decls[i] \in Decls
    BY <1>1, <1>3, <1>4 DEF Pointers
  <2>2. grp.decls[i].init \in Chains
    BY <2>1, DeclaratorKinds
  <2>3. QED
    BY <2>1, <2>2, TraverseSame
<1>6. PICK base : base = buildType(grp.decls[Min(P)])
  OBVIOUS
<1>7. Collected(grp, P)
        = [base |-> base, items |-> [i \in P |-> [mods |-> "", init |-> grp.decls[i].init]]]
  BY <1>5, <1>6 DEF Collected
<1>8. PICK new : new = [i \in P |-> [mods |-> "", init |-> grp.decls[i].init]]
  OBVIOUS
<1>9. PICK old : old = [i \in DOMAIN grp.decls |-> Item(grp.decls[i])]
  OBVIOUS
<1>10. Untouched(grp) = [base |-> grp.base, items |-> old, extent |-> 0]
  BY <1>9 DEF Untouched, Original
<1>11. Collected(grp, P).base = base /\ Collected(grp, P).items = new
  <2>1. PICK col : col = Collected(grp, P)
    OBVIOUS
  <2>2. col = [base |-> base, items |-> new]
    BY <2>1, <1>7, <1>8
  <2>3. QED
    BY <2>1, <2>2
<1>12. t = ReplaceText(Untouched(grp), k, base, new)
  BY <1>1, <1>2, <1>11 DEF Replaced
<1>13. Untouched(grp).extent = 0 /\ Untouched(grp).items = old
  BY <1>10
<1>14. ~(k < 0)
  <2>1. \E m \in P : \A i \in P : i <= m
    <3>1. PICK n \in Nat : DOMAIN grp.decls = 1 .. n
      <4>1. PICK s \in Seq(Decls) : s = grp.decls
        BY DEF Groups
      <4>2. QED
        BY <4>1
    <3>2. P \subseteq 1 .. n
      BY <1>4, <3>1
    <3>3. QED
      BY <1>4, <3>2, GreatestExists
  <2>2. QED
    BY <2>1, <1>2, <1>4, GreatestPlace
<1>15. PICK keep : keep = P \cup {j \in DOMAIN grp.decls : j > k}
  OBVIOUS
<1>16. PICK items : items = [i \in keep |-> IF i \in P THEN new[i] ELSE old[i]]
  OBVIOUS
<1>17. DOMAIN new = P /\ DOMAIN old = DOMAIN grp.decls
  BY <1>8, <1>9
<1>18. t = [base |-> base, extent |-> k, items |-> items]
  BY <1>12, <1>13, <1>14, <1>15, <1>16, <1>17 DEF ReplaceText
<1>19. PICK kept : kept = [i \in keep |->
         [mods |-> IF grp.decls[i].mods \in PtrMods THEN "" ELSE grp.decls[i].mods,
          init |-> grp.decls[i].init]]
  OBVIOUS
<1>20. items = kept
  <2>1. \A i \in keep : (IF i \in P THEN new[i] ELSE old[i]) = kept[i]
    <3> SUFFICES ASSUME NEW i \in keep
                 PROVE  (IF i \in P THEN new[i] ELSE old[i]) = kept[i]
      OBVIOUS
    <3>1. CASE i \in P
      BY <3>1, <1>5, <1>8, <1>19
    <3>2. CASE i \notin P
      <4>1. i \in DOMAIN grp.decls /\ grp.decls[i].mods \notin PtrMods
        BY <3>2, <1>1, <1>15 DEF Pointers
      <4>2. QED
        BY <3>2, <4>1, <1>9, <1>19 DEF Item
    <3>3. QED
      BY <3>1, <3>2
  <2>2. QED
    BY <2>1, <1>16, <1>19
<1>21. Translation(grp) = [base |-> base, items |-> kept]
  BY <1>1, <1>2, <1>4, <1>6, <1>15, <1>19 DEF Translation
<1>22. QED
  BY <1>18, <1>20, <1>21

LEMMA DoneGroupText ==
  ASSUME MaxInit \in {0, 1}, IInv, pc = "done", NEW g \in DOMAIN source,
         NoFunctionPointer(source[g]), NEW t, t = [base |-> text[g].base, items |-> text[g].items]
  PROVE  /\ t = Translation(source[g])
         /\ t # Original(source[g]) => source[g].file \in written
<1>1. source \in Seq(Groups)
  BY DEF IInv, Shape, Groups
<1>2. PICK grp \in Groups : grp = source[g]
  BY <1>1
<1>3. PICK new : new = text[g]
  OBVIOUS
<1>4. PICK files : files = edited \cap filesToWrite
  OBVIOUS
<1>5. written = files
  BY <1>4 DEF IInv, DoneOK
<1>6. TextFits(g, grp, new, 0, files)
  BY <1>2, <1>3, <1>4 DEF IInv, TextOK, Waiting
<1>7. g # 0
  BY <1>1
<1>8. PICK items : items = [i \in DOMAIN grp.decls |-> Item(grp.decls[i])]
  OBVIOUS
<1>9. Original(grp) = [base |-> grp.base, items |-> items] /\ Original(grp).items = items
  BY <1>8 DEF Original
<1>10. CASE grp.macro
  <2>1. new = [base |-> grp.base, items |-> items, extent |-> 0]
    BY <1>6, <1>9, <1>10 DEF TextFits, Untouched
  <2>2. t = Original(grp)
    BY <2>1, <1>3, <1>9
  <2>3. Translation(grp) = Original(grp)
    BY <1>10 DEF Translation
  <2>4. QED
    BY <2>2, <2>3, <1>2
<1>11. CASE ~grp.macro /\ Pointers(grp) = {}
  <2>1. /\ new = [Untouched(grp) EXCEPT !.base = SafeBase(@)]
        /\ grp.base # "int" => grp.file \in files
    BY <1>6, <1>11 DEF TextFits
  <2>2. PICK base : base = SafeBase(grp.base)
    OBVIOUS
  <2>3. new = [base |-> base, items |-> items, extent |-> 0]
    BY <2>1, <2>2, <1>9, UntouchedTypeName
  <2>4. t = [base |-> base, items |-> items]
    BY <2>3, <1>3
  <2>5. Translation(grp) = [base |-> base, items |-> items]
    <3>1. PICK o : o = [base |-> grp.base, items |-> items]
      OBVIOUS
    <3>2. Translation(grp) = [o EXCEPT !.base = SafeBase(@)]
      BY <3>1, <1>9, <1>11 DEF Translation
    <3>3. [o EXCEPT !.base = base] = [base |-> base, items |-> items] /\ o.base = grp.base
      BY <3>1
    <3>4. QED
      BY <3>2, <3>3, <2>2
  <2>6. t # Original(grp) => grp.file \in files
    BY <2>1, <2>2, <2>4, <1>9 DEF SafeBase
  <2>7. QED
    BY <2>4, <2>5, <2>6, <1>2, <1>5
<1>12. CASE ~grp.macro /\ Pointers(grp) # {}
  <2>1. new = Replaced(grp) /\ grp.file \in files
    BY <1>6, <1>7, <1>12 DEF TextFits
  <2>2. [base |-> new.base, items |-> new.items] = Translation(grp)
    BY <2>1, <1>12, ReplacedIsTranslation
  <2>3. QED
    BY <2>1, <2>2, <1>2, <1>3, <1>5
<1>13. QED
  BY <1>10, <1>11, <1>12

\* GroupText: where no initializer nests two constructs, every group without a
\* function pointer comes out of translatePointer, translateLastDeclGroup and
\* HandleTranslationUnit as one declaration of all its pointers, and its file
\* is written.
THEOREM GroupTextHolds ==
  ASSUME MaxInit \in {0, 1}
  PROVE  Spec => []GroupText
<1>1. IInv => GroupText
  <2> SUFFICES ASSUME IInv, pc = "done", NEW g \in DOMAIN source, NoFunctionPointer(source[g])
               PROVE  LET t == [base |-> text[g].base, items |-> text[g].items] IN
                      /\ t = Translation(source[g])
                      /\ t # Original(source[g]) => source[g].file \in written
    BY DEF GroupText
  <2>1. QED
    BY DoneGroupText
<1>2. QED
  BY <1>1, Invariance, PTL
=============================================================================
