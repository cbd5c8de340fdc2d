------------------------------- MODULE CmdLine -------------------------------
(***************************************************************************)
(* main.c, GetOptions(): the options in the argument string.               *)
(*                                                                         *)
(* Characters are told apart as far as the parser does: a blank or tab, a  *)
(* slash or dash, the letters of the options (a question mark is an H;     *)
(* toupper() makes lower case the same), and any other.                    *)
(***************************************************************************)
EXTENDS Naturals, SequencesExt

Chars       == {"blank", "/", "H", "Q", "V", "U", "T", "x"}
Verbosities == {"SILENT", "QUIET", "NORMAL", "VERBOSE"}

(* The value to return and the globals set on the way: 1 is a call for     *)
(* help, which hides what follows it, and 2 an option that is none.        *)
Globals == [ret : {0, 1, 2}, vset : BOOLEAN, verbosity : Verbosities,
            uninstall : BOOLEAN, testOnly : BOOLEAN]
Start   == [ret |-> 0, vset |-> FALSE, verbosity |-> "NORMAL",
            uninstall |-> FALSE, testOnly |-> FALSE]

(* Mutant: a second /Q, /QQ or /V wins over the first.                     *)
VerbosityAgain(o, v) == [o EXCEPT !.vset = TRUE, !.verbosity = v]

(* Only the first of /Q, /QQ and /V sets the verbosity; a second is an     *)
(* error.                                                                  *)
Verbosity(o, v) ==
  IF o.vset THEN [o EXCEPT !.ret = 2]
  ELSE [o EXCEPT !.vset = TRUE, !.verbosity = v]

At(args, i) == IF i \in DOMAIN args THEN args[i] ELSE "end"

Switch(args, i, letter) == At(args, i) = "/" /\ At(args, i + 1) = letter

(* What the option at position i does to the globals o.                    *)
Option(args, i, o) ==
  CASE Switch(args, i, "H") -> [o EXCEPT !.ret = 1]
    [] Switch(args, i, "Q") ->
         Verbosity(o, IF At(args, i + 2) = "Q" THEN "SILENT" ELSE "QUIET")
    [] Switch(args, i, "V") -> Verbosity(o, "VERBOSE")
    [] Switch(args, i, "U") -> [o EXCEPT !.uninstall = TRUE]
    [] Switch(args, i, "T") -> [o EXCEPT !.testOnly = TRUE]
    [] At(args, i) = "blank" -> o
    [] OTHER                 -> [o EXCEPT !.ret = 2]

(* By how much argIndex grows.                                             *)
Length(args, i) == IF At(args, i) = "blank" THEN 1
                   ELSE IF Switch(args, i, "Q") /\ At(args, i + 2) = "Q" THEN 3 ELSE 2

(* A turn of the loop, none behind the end or once a value is returned.    *)
Turn(args, s) ==
  IF At(args, s.at) = "end" \/ s.o.ret # 0 THEN s
  ELSE [at |-> s.at + Length(args, s.at), o |-> Option(args, s.at, s.o)]

(* A string of n characters takes at most n turns.                         *)
GetOptions(args) ==
  LET turned[n \in 0 .. Len(args)] ==
        IF n = 0 THEN [at |-> 1, o |-> Start] ELSE Turn(args, turned[n - 1])
  IN  turned[Len(args)].o

-----------------------------------------------------------------------------
(* What the usage text says                                                *)

(* The words of the usage, and how each is spelled.                        *)
Spelled == [blank |-> <<"blank">>, Q |-> <<"/", "Q">>, QQ |-> <<"/", "Q", "Q">>,
            V |-> <<"/", "V">>, U |-> <<"/", "U">>, T |-> <<"/", "T">>]
Words   == DOMAIN Spelled

Level == [Q |-> "QUIET", QQ |-> "SILENT", V |-> "VERBOSE"]

Text(ws) == FlattenSeq([i \in DOMAIN ws |-> Spelled[ws[i]]])

Levels(ws) == {i \in DOMAIN ws : ws[i] \in DOMAIN Level}

(* "[/V|/Q|/QQ]", in both forms of the usage: at most one of them.         *)
Allowed(ws) == \A i, j \in Levels(ws) : i = j

(* The parser reads the words ws, of either form or of both, as the usage  *)
(* text explains each, and refuses them only for a second verbosity.       *)
ReadAsMeant(ws) ==
  LET o == GetOptions(Text(ws))
  IN  /\ o.ret = IF Allowed(ws) THEN 0 ELSE 2
      /\ Allowed(ws) =>
           /\ o.uninstall = \E i \in DOMAIN ws : ws[i] = "U"
           /\ o.testOnly = \E i \in DOMAIN ws : ws[i] = "T"
           /\ Levels(ws) = {} => o.verbosity = "NORMAL"
           /\ \A i \in Levels(ws) : o.verbosity = Level[ws[i]]
           /\ GetOptions(Text(ws) \o <<"/", "H">>).ret = 1

=============================================================================
