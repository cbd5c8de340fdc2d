------------------------------- MODULE Kitten -------------------------------
(***************************************************************************)
(* kitten.c: the message catalogue.  kittenopen() looks for a file along   *)
(* NLSPATH; catread() reads it into one buffer and cuts it, in place, into *)
(* keys and texts; processEscChars() decodes each text in place;           *)
(* kittengets() looks a message up.                                        *)
(*                                                                         *)
(* Characters are their codes and addresses are offsets in catcontents[].  *)
(* main opens one catalogue with a name that has no backslash and never    *)
(* closes it, so the branches for a second open and for a file name are    *)
(* left out.                                                               *)
(***************************************************************************)
EXTENDS Integers, SequencesExt, FiniteSetsExt

CONSTANTS
  BufferSize,  (* sizeof(catcontents), 8192 in the code                    *)
  TableSize,   (* entries of catpoints[], 128 in the code                  *)
  Catalogues,  (* the files there may be: sequences of lines               *)
  NlsPaths,    (* values of NLSPATH: for each segment, "fits" or "long"    *)
  Keys         (* the <<set, message>> pairs that are asked for            *)

ASSUME KittenAssumption ==
  /\ BufferSize \in Nat /\ BufferSize > 2
  /\ TableSize \in Nat \ {0}
  /\ NlsPaths \subseteq Seq({"fits", "long"})
  /\ Keys \subseteq Nat \X Nat

VARIABLES
  pc,        (* where kittenopen() is; "corrupt" once it wrote past a table *)
  langOk,    (* LANG is set, two letters or two letters and a dash         *)
  nlspath,   (* the segments of NLSPATH still to be tried                  *)
  rule,      (* which of a segment's two file names is next                *)
  ret,       (* what kittenopen() returned                                 *)
  handles,   (* file handles in use                                        *)
  mem,       (* catcontents[], and at -1 the byte in front of it           *)
  where,     (* the line catread() is at                                   *)
  next,      (* tok: the line after it                                     *)
  entries,   (* i: entries of catpoints[] in use                           *)
  table,     (* catpoints[]                                                *)
  msg, src, dst,   (* processEscChars(): its argument and its pointers     *)
  file,      (* history: the catalogue that was read                       *)
  rejected   (* history: files of a wrong size                             *)

openVars == <<langOk, nlspath, rule, ret, handles, rejected>>
escVars  == <<msg, src, dst, next>>
vars     == <<pc, openVars, mem, where, entries, table, escVars, file>>

NUL   == 0
LF    == 10
CR    == 13
DOT   == 46
COLON == 58
SLASH == 92
HEX   == 120

Byte == 0 .. 255

LastByte   == BufferSize - 1
NoText == -2

(* The letters after a backslash, n r t v b a f and the backslash itself.  *)
Letters == {110, 114, 116, 118, 98, 97, 102, SLASH}
Simple == [c \in Letters |->
            CASE c = 110 -> LF [] c = 114 -> CR [] c = 116 -> 9
              [] c = 118 -> 11 [] c = 98  -> 8  [] c = 97  -> 7
              [] c = 102 -> 12 [] OTHER   -> SLASH]

(* A line of a file: what stands before its text, the keys this spells     *)
(* (<<>> if the line holds no message), the text and the end of the line.  *)
Bytes == [f \in Catalogues |->
           FlattenSeq([i \in 1 .. Len(f) |-> f[i].head \o f[i].raw \o f[i].eol])]

DigitOf(c) ==
  CASE c \in 48 .. 57  -> c - 48
    [] c \in 65 .. 90  -> c - 55
    [] c \in 97 .. 122 -> c - 87
    [] OTHER           -> 99

Int16(n) == ((n + 32768) % 65536) - 32768

(* What the digits s stand for.                                            *)
Value(s, base) ==
  LET value[n \in 0 .. Len(s)] ==
        IF n = 0 THEN 0 ELSE value[n - 1] * base + DigitOf(s[n])
  IN  value[Len(s)]

(* mystrtoul(): -1 if one of the characters is no digit.                   *)
Number(s, base) ==
  IF \E i \in DOMAIN s : DigitOf(s[i]) >= base THEN -1 ELSE Int16(Value(s, base))

(* The text t begins with digits and a dot, which is at d, and then digits *)
(* and a colon, which is at c.                                             *)
SpellsKeys(t, d, c) ==
  /\ 1 < d /\ d < c /\ t[d] = DOT /\ t[c] = COLON
  /\ \A i \in 1 .. c - 1 : i # d => t[i] \in 48 .. 57

(* The key of a line is what its head spells, and there is none only where *)
(* the line does not begin with keys.                                      *)
HasItsKey(line) ==
  LET t == line.head \o line.raw
      c == Len(line.head)
  IN  IF line.key = <<>>
      THEN \A i, j \in DOMAIN t : ~ SpellsKeys(t, i, j)
      ELSE \E d \in 1 .. c :
             /\ SpellsKeys(t, d, c)
             /\ line.key = <<Value(SubSeq(t, 1, d - 1), 10),
                             Value(SubSeq(t, d + 1, c - 1), 10)>>

(* A line is what lies between line ends, and a carriage return in front   *)
(* of the line feed is part of that.                                       *)
IsLine(line) ==
  LET t == line.head \o line.raw
  IN  /\ line.head \in Seq(Byte) /\ line.raw \in Seq(Byte)
      /\ line.eol \in {<<>>, <<LF>>, <<CR, LF>>}
      /\ \A i \in DOMAIN t : t[i] # LF
      /\ t # <<>> /\ t[Len(t)] = CR => line.eol # <<LF>>
      /\ HasItsKey(line)

ASSUME CatalogueAssumption ==
  \A f \in Catalogues :
    Len(f) \in Nat /\ DOMAIN f = 1 .. Len(f) /\ \A i \in DOMAIN f : IsLine(f[i])

(* strchr(where, '\n'): the first line feed of the string at where, if any.  *)
LineFeed ==
  {a \in where .. LastByte :
     mem[a] = LF /\ \A b \in where .. a - 1 : mem[b] \notin {LF, NUL}}

(* The C string at an address.                                             *)
StringAt(m, a) ==
  LET e == Min({b \in a .. LastByte : m[b] = NUL})
  IN  [i \in 1 .. e - a |-> m[a + i - 1]]

(* The n characters from address a; the last byte ends every number.       *)
Chars(a, n) ==
  [i \in 1 .. n |-> IF a + i - 1 > LastByte THEN NUL ELSE mem[a + i - 1]]

Cleared(t) == [i \in DOMAIN t |-> [t[i] EXCEPT !.text = NoText]]

Init ==
  /\ pc = "open"
  /\ langOk \in BOOLEAN
  /\ nlspath \in NlsPaths
  /\ rule = 1 /\ ret = 0 /\ handles = 0
  /\ \E c \in {NUL, CR} :
       mem = [a \in -1 .. LastByte |-> IF a = -1 THEN c ELSE NUL]
  /\ where = 0 /\ next = 0 /\ entries = 0
  /\ table = [i \in 0 .. TableSize - 1 |->
                [key1 |-> 0, key2 |-> 0, text |-> NoText]]
  /\ msg = 0 /\ src = 0 /\ dst = 0
  /\ file = <<>> /\ rejected = 0

-----------------------------------------------------------------------------
(* kittenopen()                                                            *)

Return(value) == pc' = "ready" /\ ret' = value

NoLanguage ==
  /\ pc = "open" /\ ~ langOk
  /\ Return(-1)
  /\ UNCHANGED <<langOk, nlspath, rule, handles, rejected, mem, where, entries,
                 table, escVars, file>>

StartSearch ==
  /\ pc = "open" /\ langOk
  /\ pc' = "search"
  /\ UNCHANGED <<openVars, mem, where, entries, table, escVars, file>>

(* No NLSPATH, or all of it tried; a segment too long for catfile[].       *)
EndSearch ==
  /\ pc = "search"
  /\ \/ nlspath = <<>> /\ Return(-1)
     \/ nlspath # <<>> /\ Head(nlspath) = "long" /\ Return(0)
  /\ UNCHANGED <<langOk, nlspath, rule, handles, rejected, mem, where, entries,
                 table, escVars, file>>

Candidate == pc = "search" /\ nlspath # <<>> /\ Head(nlspath) = "fits"

(* Mutant: the segment is not left after its second name.                  *)
SameCandidate == rule' = 3 - rule /\ UNCHANGED nlspath

(* %NLSPATH%\%LANG%\cat, then %NLSPATH%\cat.%LANG%, then the next segment. *)
NextCandidate ==
  /\ rule' = 3 - rule
  /\ nlspath' = IF rule = 1 THEN nlspath ELSE Tail(nlspath)

NoSuchFile ==
  /\ Candidate /\ NextCandidate
  /\ UNCHANGED <<pc, langOk, ret, handles, rejected, mem, where, entries, table,
                 escVars, file>>

(* Mutant: a file that fills the buffer is taken.                          *)
AnySize == {f \in Catalogues : Len(Bytes[f]) \in 1 .. LastByte}

(* read() asks for one byte less than the buffer has; getting as many      *)
(* means the file is too big.                                              *)
RightSize == {f \in Catalogues : Len(Bytes[f]) \in 1 .. LastByte - 1}

(* A file of a wrong size is not closed.  What it leaves in the buffer is  *)
(* cleared before the next file is read, and no entry points to it.        *)
RejectFile ==
  /\ Candidate /\ NextCandidate
  /\ Catalogues # RightSize
  /\ handles' = handles + 1 /\ rejected' = rejected + 1
  /\ table' = Cleared(table)
  /\ UNCHANGED <<pc, langOk, ret, mem, where, entries, escVars, file>>

(* From here on catread() succeeds, so the search is over.                 *)
ReadFile ==
  /\ Candidate
  /\ \E f \in RightSize :
       /\ file' = f
       /\ mem' = [a \in -1 .. LastByte |->
                    CASE a = -1                       -> mem[-1]
                      [] a \in 0 .. Len(Bytes[f]) - 1 -> Bytes[f][a + 1]
                      [] OTHER                        -> NUL]
  /\ handles' = handles + 1
  /\ table' = Cleared(table)
  /\ pc' = "lines" /\ where' = 0 /\ entries' = 0
  /\ nlspath' = <<>> /\ rule' = 1
  /\ UNCHANGED <<langOk, ret, rejected, escVars>>

-----------------------------------------------------------------------------
(* catread()                                                               *)

(* The line that ends at lf is "digits.digits:message".                    *)
Colon(lf) == Min({a \in where .. lf : mem[a] = COLON} \cup {lf})
Dot(lf)   == Min({a \in where .. Colon(lf) : mem[a] = DOT} \cup {Colon(lf)})

HasColon(lf) == mem[where] \in 48 .. 57 /\ Colon(lf) < lf
HasDot(lf)   == HasColon(lf) /\ Dot(lf) < Colon(lf)
Key1(lf)     == Number(Chars(where, Dot(lf) - where), 10)
Key2(lf)     == Number(Chars(Dot(lf) + 1, Colon(lf) - Dot(lf) - 1), 10)
HasKeys(lf)  == HasDot(lf) /\ Key1(lf) >= 0 /\ Key2(lf) >= 0

(* Mutant: a carriage return stays in the text.                            *)
LineEndAtLf(lf) == {lf}

(* The end of a line is LF or CR LF.  For an empty first line this looks   *)
(* at the byte in front of the buffer.                                     *)
LineEnd(lf) == {lf} \cup {a \in {lf - 1} : mem[a] = CR}

(* The line falls into strings: both keys and the message.                 *)
Cut(lf) ==
  LET ends == LineEnd(lf) \cup {a \in {Colon(lf)} : HasColon(lf)}
                          \cup {a \in {Dot(lf)} : HasDot(lf)}
  IN  mem' = [a \in DOMAIN mem |-> IF a \in ends THEN NUL ELSE mem[a]]

(* key1 and key2 of an entry are of type char.                             *)
Key(n) == n % 256

(* Mutant: the file is left open.                                          *)
EndOfFileOpen ==
  /\ pc = "lines" /\ LineFeed = {}
  /\ Return(1)
  /\ UNCHANGED <<langOk, nlspath, rule, handles, rejected, mem, where, entries,
                 table, escVars, file>>

(* Mutant: the file is closed twice.                                       *)
EndOfFileClosedTwice ==
  /\ pc = "lines" /\ LineFeed = {}
  /\ handles' = handles - 2
  /\ Return(1)
  /\ UNCHANGED <<langOk, nlspath, rule, rejected, mem, where, entries, table,
                 escVars, file>>

(* No line feed left: the file is closed; text behind the last one is not  *)
(* looked at.                                                              *)
EndOfFile ==
  /\ pc = "lines" /\ LineFeed = {}
  /\ handles' = handles - 1
  /\ Return(1)
  /\ UNCHANGED <<langOk, nlspath, rule, rejected, mem, where, entries, table,
                 escVars, file>>

(* Mutant: a line without a message takes an entry as well.                *)
SkipLineCounted ==
  /\ pc = "lines"
  /\ \E lf \in LineFeed :
       /\ ~ HasKeys(lf)
       /\ Cut(lf)
       /\ where' = lf + 1
  /\ entries < TableSize /\ entries' = entries + 1
  /\ UNCHANGED <<pc, openVars, table, escVars, file>>

(* A comment, or keys that are no numbers: the line takes no entry.        *)
SkipLine ==
  /\ pc = "lines"
  /\ \E lf \in LineFeed :
       /\ ~ HasKeys(lf)
       /\ Cut(lf)
       /\ where' = lf + 1
  /\ UNCHANGED <<pc, openVars, entries, table, escVars, file>>

(* The keys go into the next entry, of which there may be none.            *)
ReadLine ==
  /\ pc = "lines"
  /\ \E lf \in LineFeed :
        /\ HasKeys(lf)
        /\ Cut(lf)
        /\ next' = lf + 1
        /\ msg' = Colon(lf) + 1 /\ src' = Colon(lf) + 1 /\ dst' = Colon(lf) + 1
        /\ \/ /\ entries < TableSize
              /\ pc' = "escape"
              /\ table' = [table EXCEPT ![entries].key1 = Key(Key1(lf)),
                                        ![entries].key2 = Key(Key2(lf))]
           \/ /\ entries >= TableSize
              /\ pc' = "corrupt"
              /\ UNCHANGED table
  /\ UNCHANGED <<openVars, where, entries, file>>

-----------------------------------------------------------------------------
(* processEscChars()                                                       *)

Store(c) == mem' = [mem EXCEPT ![dst] = c] /\ dst' = dst + 1

InText == pc = "escape" /\ mem[src] # NUL

EscapeNothing ==
  /\ InText /\ mem[src] # SLASH
  /\ Store(mem[src])
  /\ src' = src + 1
  /\ UNCHANGED <<pc, openVars, where, entries, table, msg, next, file>>

EscapeLetter ==
  /\ InText /\ mem[src] = SLASH /\ mem[src + 1] \in Letters
  /\ Store(Simple[mem[src + 1]])
  /\ src' = src + 2
  /\ UNCHANGED <<pc, openVars, where, entries, table, msg, next, file>>

(* Mutant: what is no number is stored with its backslash and letter.      *)
StoreWhole(c) ==
  /\ mem' = [mem EXCEPT ![dst] = SLASH, ![dst + 1] = HEX, ![dst + 2] = c]
  /\ dst' = dst + 3

(* No number after the letter: the character c after it is stored.         *)
StoreLoose(c) == Store(c)

(* \xdd, or any other character: mystrtoul() starts behind it.             *)
EscapeNumber ==
  /\ InText /\ mem[src] = SLASH /\ mem[src + 1] \notin Letters
  /\ LET size  == IF mem[src + 1] = HEX THEN 2 ELSE 3
         base  == IF mem[src + 1] = HEX THEN 16 ELSE 8
         value == Number(Chars(src + 2, size), base)
     IN \/ value >= 0 /\ Store(value % 256) /\ src' = src + 2 + size
        \/ value < 0  /\ StoreLoose(mem[src + 2]) /\ src' = src + 2
  /\ UNCHANGED <<pc, openVars, where, entries, table, msg, next, file>>

(* The entry gets its text, and the loop of catread() its next line.       *)
EscapeEnd ==
  /\ pc = "escape" /\ mem[src] = NUL
  /\ mem' = [mem EXCEPT ![dst] = NUL]
  /\ table' = [table EXCEPT ![entries].text = msg]
  /\ entries' = entries + 1
  /\ where' = next
  /\ pc' = "lines"
  /\ UNCHANGED <<openVars, escVars, file>>

Next ==
  \/ NoLanguage \/ StartSearch \/ EndSearch
  \/ NoSuchFile \/ RejectFile \/ ReadFile
  \/ EndOfFile \/ SkipLine \/ ReadLine
  \/ EscapeNothing \/ EscapeLetter \/ EscapeNumber \/ EscapeEnd

Spec == Init /\ [][Next]_vars

(* The program runs on: catopen() is called once, before all else.         *)
FairSpec == Spec /\ WF_vars(Next)

-----------------------------------------------------------------------------
(* kittengets()                                                            *)

(* The caller's message, and what other bytes may pass for: no texts of a  *)
(* catalogue.                                                              *)
Default == <<-1>>
Stray   == <<-2>>

(* What may be answered.  The search ends at the first entry that matches  *)
(* or is empty.  If none does, it looks at the bytes behind the table      *)
(* before it tests the index: they are unknown, and may look like the keys *)
(* with some text.                                                         *)
Kittengets(set, message) ==
  LET Matches(i) == table[i].key1 = set /\ table[i].key2 = message
      Ends == {i \in DOMAIN table : Matches(i) \/ table[i].text = NoText}
      text == table[Min(Ends)].text
  IN  IF Ends = {} THEN {Default, Stray}
      ELSE {IF text = NoText THEN Default ELSE StringAt(mem, text)}

-----------------------------------------------------------------------------
(* Properties                                                              *)

(* Every variable has its type; a key is a byte.                           *)
TypeOK ==
  /\ pc \in {"open", "search", "lines", "escape", "ready", "corrupt"}
  /\ langOk \in BOOLEAN
  /\ nlspath \in Seq({"fits", "long"})
  /\ rule \in {1, 2}
  /\ ret \in {-1, 0, 1}
  /\ handles \in Nat /\ rejected \in Nat
  /\ mem \in [-1 .. LastByte -> 0 .. 255]
  /\ {where, next, msg, src, dst} \subseteq Nat
  /\ entries \in 0 .. TableSize
  /\ table \in [0 .. TableSize - 1 ->
                 [key1 : 0 .. 255, key2 : 0 .. 255, text : {NoText} \cup 0 .. LastByte]]

(* The decoder never reads or writes behind catcontents[], not even when a *)
(* backslash ends a text and it runs on into the lines that follow: the    *)
(* "- 1" of read() and the test for a file too big leave two zeros there.  *)
StaysInBuffer ==
  pc = "escape" =>
    /\ src <= LastByte /\ dst <= src
    /\ mem[src] = SLASH => src + 2 <= LastByte
    /\ mem[LastByte] = NUL

(* "possible as dst is shorter than src" (processEscChars): decoding in    *)
(* place never overwrites a character that it has not read yet.            *)
UnreadTextKept ==
  [][pc = "escape" /\ pc' = "escape" =>
       \A a \in src' .. LastByte : mem'[a] = mem[a]]_vars

(* What the comment on processEscChars() says of a text, from its i-th      *)
(* character on: the C escapes, \ddd, \xdd, and for a loose slash the      *)
(* letter.                                                                 *)
Text(raw) ==
  LET Digits(i, n, base) ==
        i + n - 1 <= Len(raw) /\ Number(SubSeq(raw, i, i + n - 1), base) >= 0
      text[i \in 1 .. Len(raw) + 1] ==
        IF i > Len(raw) THEN <<>>
        ELSE IF raw[i] # SLASH THEN <<raw[i]>> \o text[i + 1]
        ELSE IF i = Len(raw) THEN <<>>
        ELSE IF raw[i + 1] \in Letters
          THEN <<Simple[raw[i + 1]]>> \o text[i + 2]
        ELSE IF raw[i + 1] = HEX /\ Digits(i + 2, 2, 16)
          THEN <<Number(SubSeq(raw, i + 2, i + 3), 16)>> \o text[i + 4]
        ELSE IF Digits(i + 1, 3, 8)
          THEN <<Number(SubSeq(raw, i + 1, i + 3), 8) % 256>> \o text[i + 4]
        ELSE <<raw[i + 1]>> \o text[i + 2]
  IN  text

Documented(raw) == Text(raw)[1]

Messages == {i \in DOMAIN file : file[i].key # <<>>}

(* The lines with the keys k; the documented answer is the text of the     *)
(* first one, and otherwise the caller's message.                          *)
LinesOf(k)  == {i \in Messages : file[i].key = k}
Expected(k) == IF LinesOf(k) = {} THEN Default ELSE Documented(file[Min(LinesOf(k))].raw)

(* "Converting \n, ... \ddd, \xdd" (processEscChars), "on failure,        *)
(* catgets() returns the value 'message'" (kittengets): after catread()     *)
(* has succeeded, kittengets() gives the documented answer for every key,   *)
(* and no other.                                                           *)
AnswerAsDocumented ==
  pc = "ready" /\ ret = 1 =>
    \A k \in Keys : Kittengets(k[1], k[2]) = {Expected(k)}

(* Where an escape starts: at a backslash that belongs to none before it.  *)
Starts(raw) ==
  LET starts[i \in DOMAIN raw] == raw[i] = SLASH /\ (i = 1 \/ ~ starts[i - 1])
  IN  starts

(* A line that the reader handles: terminated, without the character 0,    *)
(* keys that fit a char, and no escapes but letters and \xdd, not for the   *)
(* character 0.                                                            *)
Clean(line) ==
  LET t   == line.head \o line.raw
      raw == line.raw
  IN  /\ line.eol # <<>>
      /\ \A i \in DOMAIN t : t[i] # NUL
      /\ line.key # <<>> => line.key[1] < 256 /\ line.key[2] < 256
      /\ \A i \in DOMAIN raw :
           Starts(raw)[i] =>
             /\ i < Len(raw)
             /\ \/ raw[i + 1] \in Letters
                \/ /\ raw[i + 1] = HEX /\ i + 3 <= Len(raw)
                   /\ Number(SubSeq(raw, i + 2, i + 3), 16) > 0

CleanFile == \A i \in DOMAIN file : Clean(file[i])

(* For such a file the answers are as documented, whatever the order of    *)
(* its lines and the ends of its lines: for the keys that it has, and,     *)
(* while an entry of the table is left, for those that it has not.         *)
AnswerIsMessage ==
  CleanFile /\ pc = "ready" /\ ret = 1 =>
    \A k \in Keys :
      LinesOf(k) # {} \/ Cardinality(Messages) < TableSize =>
        Kittengets(k[1], k[2]) = {Expected(k)}

(* A clean catalogue with no more messages than catpoints[] has entries is *)
(* never written past the table, whatever else it contains.                *)
TableSuffices ==
  CleanFile /\ Cardinality(Messages) <= TableSize => pc # "corrupt"

(* The handle of the file in use is closed again; what stays open are the  *)
(* handles of the files of a wrong size that were met on the way.          *)
HandlesAccounted ==
  pc # "corrupt" =>
    handles = rejected + (IF pc \in {"lines", "escape"} THEN 1 ELSE 0)

(* Opening a catalogue ends, whatever NLSPATH and the files contain.       *)
OpenEnds == <>(pc \in {"ready", "corrupt"})

=============================================================================
