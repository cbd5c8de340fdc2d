----------------------------- MODULE MC_VbsMount -----------------------------
(* Model checking the transient program, with and without a resident copy. *)
EXTENDS VbsMount

MCHostErrors == {-1, -37}
MCClientIds  == {11, 12}
NotInstalled == {FALSE}
Installed    == {TRUE}

(* every string of up to three characters, and up to three words, words    *)
(* among them that are cut short, run on or belong nowhere                 *)
Pieces == {Spelled[w] : w \in Words} \cup {<<"/", "H">>, <<"/">>, <<"Q">>, <<"/", "x">>}
MCArgStrings == BoundedSeq(Chars, 3) \cup {FlattenSeq(ps) : ps \in BoundedSeq(Pieces, 3)}
MCSentences  == BoundedSeq(Words, 3)
=============================================================================
