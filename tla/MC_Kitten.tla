------------------------------ MODULE MC_Kitten ------------------------------
(* Model checking the message catalogue.  Files are made of a few lines    *)
(* with messages 1.1, 1.2 and 257.2, a line that is no message, and an     *)
(* empty one, with every kind of escape and of line end.                   *)
EXTENDS Kitten

Head11  == <<49, DOT, 49, COLON>>
Head12  == <<49, DOT, 50, COLON>>
Head257 == <<50, 53, 55, DOT, 50, COLON>>
NoHead  == <<49, DOT, 49, DOT, 50, COLON>>

Line(head, key, raw, eol) == [head |-> head, key |-> key, raw |-> raw, eol |-> eol]

HexLine     == Line(Head11, <<1, 1>>, <<SLASH, HEX, 52, 49>>, <<LF>>)
NewlineLine == Line(Head12, <<1, 2>>, <<SLASH, 110>>, <<CR, LF>>)
SecondLine  == Line(Head11, <<1, 1>>, <<50>>, <<LF>>)
WideLine    == Line(Head257, <<257, 2>>, <<50>>, <<LF>>)
OtherLine   == Line(NoHead, <<>>, <<50>>, <<LF>>)
EmptyLine   == Line(<<>>, <<>>, <<>>, <<LF>>)
CommentLine == Line(<<35>>, <<>>, <<COLON>>, <<CR, LF>>)

(* a loose slash before q, an octal number, a hexadecimal one cut short,   *)
(* a slash at the end of a line, and one at the end of the file            *)
LooseLine == Line(Head12, <<1, 2>>, <<SLASH, 113, 50>>, <<LF>>)
OctalLine == Line(Head12, <<1, 2>>, <<SLASH, 49, 48, 49>>, <<LF>>)
ShortLine == Line(Head12, <<1, 2>>, <<SLASH, HEX, 52>>, <<LF>>)
SlashLine == Line(Head12, <<1, 2>>, <<SLASH>>, <<LF>>)
LastLine  == Line(Head12, <<1, 2>>, <<SLASH>>, <<>>)

Lines == {HexLine, NewlineLine, SecondLine, WideLine, OtherLine, EmptyLine,
          CommentLine, LooseLine, OctalLine, ShortLine, SlashLine, LastLine}

Few   == {HexLine, SecondLine, OtherLine, EmptyLine, SlashLine, LastLine}

MCCatalogues == UNION {[1 .. n -> Lines] : n \in 0 .. 2} \cup [1 .. 3 -> Few]

(* The file of the run documented_answers: each of its lines is read in a  *)
(* way that the comments do not say.  The backslash at the end of the      *)
(* fourth line makes the decoder swallow the fifth, so the table is full   *)
(* with four entries; 1.2 and 3.1 have no line.                            *)
Head21 == <<50, DOT, 49, COLON>>
Head22 == <<50, DOT, 50, COLON>>
Head23 == <<50, DOT, 51, COLON>>

OddCatalogue == {<<Line(Head11, <<1, 1>>, OctalLine.raw, <<LF>>),
                   Line(Head21, <<2, 1>>, LooseLine.raw, <<LF>>),
                   WideLine,
                   Line(Head22, <<2, 2>>, SlashLine.raw, <<LF>>),
                   Line(Head23, <<2, 3>>, <<50>>, <<LF>>)>>}

OddKeys == {<<1, 1>>, <<2, 1>>, <<1, 2>>, <<2, 2>>, <<2, 3>>, <<3, 1>>}

MCNlsPaths  == {<<>>, <<"fits">>, <<"long">>, <<"fits", "long">>, <<"fits", "fits">>}
OneSegment  == {<<"fits">>}

(* 1.1 and 1.2, one that no file has, and the one that 257.2 passes for    *)
MCKeys == {<<1, 1>>, <<1, 2>>, <<2, 1>>}
=============================================================================
