---------------------------- MODULE MC_FcbNames ----------------------------
(* Model checking the names: parts that are empty, short and full, with    *)
(* and without wild cards, in directories with and without dots; labels    *)
(* with letters of the code page, and with letters that it lacks.          *)
EXTENDS FcbNames

Full(n) == [i \in 1 .. n |-> IF i = n THEN "B" ELSE "A"]
Wild(n) == [i \in 1 .. n |-> "?"]

MCDirs  == {<<"C", ":">>, <<"C", ":", "\\", "A", ".", "B">>}
MCBases == {<<"A">>, <<"A", "B">>, Full(BaseLen), <<"A", "?">>, Wild(BaseLen)}
MCExts  == {<<>>, <<"?", "B">>, Full(3), Wild(3)}
MCPaths == [dir : MCDirs, base : MCBases, ext : MCExts]
             \cup [dir : MCDirs, base : {<<>>}, ext : {<<>>}]

(* A share with accents, one with letters of other scripts, and a long one *)
(* in which one letter is not in the code page.                            *)
Padded(codes) == codes \o [i \in 1 .. FcbLen - Len(codes) |-> 32]
MCLabels == {Padded(<<65, \hC7, \hA0, \h2550>>),
             Padded(<<\h0416, 65, \h20AC>>),
             [i \in 1 .. FcbLen |-> \hBE + i]}
=============================================================================
