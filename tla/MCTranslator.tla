---------------------------- MODULE MCTranslator ----------------------------
EXTENDS Translator

Declarator(m, s, c) == [mods |-> m, singleton |-> s, init |-> c]

\* One declarator of each kind, a pointer of either class, one initialized.
MCDecls ==
  {Declarator("", FALSE, <<>>), Declarator("[]", FALSE, <<>>), Declarator("(T)", FALSE, <<>>),
   Declarator("*", FALSE, <<>>), Declarator("*", TRUE, <<"cast">>)}

\* A pointer with any initializer.
NestedDecls == {d \in AllDecls : d.mods = "*" /\ d.singleton}

FileSymmetry == Permutations(Files)
=============================================================================
