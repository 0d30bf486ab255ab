---------------------------- MODULE MCTextSearch ----------------------------
(* Values of the constants of TextSearch for the runs.  97 is a, 98 is b.   *)
EXTENDS TextSearch

\* Empty, blank, alike but for blanks, one a prefix of the other, an upper byte.
MCLiterals  == {<<>>, <<32>>, <<97>>, <<97, 32>>, <<97, 98>>, <<98>>, <<200>>}
MCPatterns  == {<<97>>, <<97, 32>>, <<97, 37>>, <<37, 98>>, <<95>>, <<97, 95>>, <<37>>,
                <<98, 37>>, <<37, 97, 37>>}
\* A byte a pattern gives a meaning to, the last byte there is, and no byte.
DotLiterals == {<<97>>, <<46>>}
DotPatterns == {<<46>>}
TopLiterals == {<<97>>, <<255>>, <<255, 97>>}
TopPatterns == {<<255, 37>>}
NoPatterns  == {<<>>}
\* Longer than a CHARX of two.
LongLiterals == {<<97, 98, 97>>, <<97, 98>>}
=============================================================================
