----------------------------- MODULE MCProjectRoot -----------------------------
EXTENDS ProjectRoot

A == <<"a">>
B == <<"b">>
F == <<"f">>
L == <<"l">>
X == <<"x">>
AB == <<"a", "b">>

\* /a/b/b, so that b means something else in /a/b; /a_b, whose key is that of /a/b.
TreeDirs == {<<>>, <<A>>, <<A, B>>, <<A, B, B>>, <<AB>>}
TreeFiles == {<<A, B, F>>}
TreeLinks == [p \in {<<L>>} |-> <<A, B>>]
\* There is no x; /l/.. is /a, but "/" by its text.
SomeRoots ==
    {Relative(names) : names \in {<<>>, <<Up>>, <<B>>, <<L, F>>, <<X, Up>>}} \cup
    {Absolute(names) : names \in {<<A, X>>, <<L, Up>>}}
SomePlaces == (TreeDirs \ {<<A, B, B>>}) \cup {<<L>>}

=============================================================================
