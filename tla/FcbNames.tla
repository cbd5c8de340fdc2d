------------------------------ MODULE FcbNames ------------------------------
(***************************************************************************)
(* The names in redir.c.  DOS leaves the full path that a call is about in *)
(* the swappable data area, FileName1.  IsCallForUs() derives FcbName1     *)
(* from its last component, in the form of a directory entry, and the      *)
(* search for the volume label copies that into the search block and the   *)
(* converted label into the found entry.  The functions that compare and   *)
(* reassemble names are there too; no code calls them yet.                 *)
(***************************************************************************)
EXTENDS MiniClib, Ucs2, SequencesExt

CONSTANTS
  Paths,          (* what DOS asks about: records of dir, base and ext     *)
  Labels          (* ucs2label of the mount, filled in by no code yet      *)

VARIABLES
  asked,          (* history: the path of the call                         *)
  fileName1,      (* SDA.fileName1                                         *)
  fcbName1,       (* SDA.fcbName1                                          *)
  searchMask,     (* SDB.searchMask                                        *)
  fdbName,        (* FDB.fileName                                          *)
  searched,       (* history: the path of the last search                  *)
  ucs2label,      (* volInfo[driveIdx].ucs2label                           *)
  pc              (* how far the call is                                   *)

vars == <<asked, fileName1, fcbName1, searchMask, fdbName, searched,
          ucs2label, pc>>

(* char fcbName1[11], of which eight for the name and three behind the dot.*)
BaseLen == 8
FcbLen  == 11

(* At most n characters and no separator; the character " " is "blank".    *)
Upto(s, n) ==
  s \in Seq(STRING) /\ Len(s) <= n /\ {".", "\\", "blank"} \cap ToSet(s) = {}

(* DOS resolves names before it calls a redirector: the path is absolute   *)
(* and its last component has at most eight and three characters.          *)
ASSUME PathsAssumption ==
  \A p \in Paths : /\ p = [dir |-> p.dir, base |-> p.base, ext |-> p.ext]
                   /\ p.dir \in Seq(STRING) /\ p.dir # <<>>
                   /\ Upto(p.base, BaseLen) /\ Upto(p.ext, FcbLen - BaseLen)
                   /\ p.base = <<>> => p.ext = <<>>
ASSUME LabelsAssumption == Labels \subseteq [1 .. FcbLen -> 1 .. MaxCode]

Component(p) == p.base \o (IF p.ext = <<>> THEN <<>> ELSE <<".">> \o p.ext)
PathText(p)  == p.dir \o <<"\\">> \o Component(p)
None == [dir |-> <<>>, base |-> <<>>, ext |-> <<>>]

Blanks(n) == [i \in 1 .. n |-> "blank"]

(* Blanks up to n characters; a longer text stays as it is.                *)
Pad(s, n) == s \o Blanks(n - Len(s))

(* Mutant: the base name gets one blank too many.                          *)
PutOneMore(fcb, ch) == IF ch = "." THEN Pad(fcb, BaseLen + 1) ELSE Append(fcb, ch)

(* One turn of the loop of FillFcbName().                                  *)
Put(fcb, ch) == IF ch = "." THEN Pad(fcb, BaseLen) ELSE Append(fcb, ch)

(* All that FillFcbName() stores, more than FcbLen where nothing stops it. *)
FillFcbName(fileName) ==
  LET p == fstrrchr(fileName, "\\")
      filled[i \in p .. Len(fileName)] ==
        IF i = p THEN <<>> ELSE Put(filled[i - 1], fileName[i])
  IN  Pad(filled[Len(fileName)], FcbLen)

(* Mutant: the dot is put for every name.                                  *)
DotAlways(fcbName, i) == (IF i = BaseLen + 1 THEN <<".">> ELSE <<>>)
                         \o (IF fcbName[i] = "blank" THEN <<>> ELSE <<fcbName[i]>>)

(* What the loop of MakeFullPath() adds for the i-th character.            *)
Piece(fcbName, i) == IF fcbName[i] = "blank" THEN <<>>
                     ELSE IF i = BaseLen + 1 THEN <<".", fcbName[i]>>
                     ELSE <<fcbName[i]>>

(* The path of a directory entry.                                          *)
MakeFullPath(dirName, fcbName) ==
  dirName \o <<"\\">> \o FlattenSeq([i \in 1 .. FcbLen |-> Piece(fcbName, i)])

(* Mutant: a wild card does not stand for a blank.                         *)
MatchNoBlank(fname, mask) ==
  \A i \in 1 .. FcbLen : fname[i] = mask[i] \/ (mask[i] = "?" /\ fname[i] # "blank")

MatchNameMask(fname, mask) ==
  \A i \in 1 .. FcbLen : fname[i] = mask[i] \/ mask[i] = "?"

FcbNameHasWildCards(fcbName) == \E i \in 1 .. FcbLen : fcbName[i] = "?"

-----------------------------------------------------------------------------

Init ==
  /\ asked = None /\ searched = None
  /\ fileName1 = <<>>
  /\ fcbName1 = Blanks(FcbLen)
  /\ searchMask = Blanks(FcbLen)
  /\ fdbName = [i \in 1 .. FcbLen |-> 0]
  /\ ucs2label \in Labels
  /\ pc = "idle"

(* DOS asks about a path, for any function with the current CDS.           *)
DosCalls ==
  /\ pc = "idle"
  /\ \E p \in Paths : asked' = p /\ fileName1' = PathText(p)
  /\ pc' = "claim"
  /\ UNCHANGED <<fcbName1, searchMask, fdbName, searched, ucs2label>>

(* The end of IsCallForUs(); every function but the search for the label   *)
(* has an empty body.                                                      *)
Claim ==
  /\ pc = "claim"
  /\ fcbName1' = FillFcbName(fileName1)
  /\ \E to \in {"label", "idle"} : pc' = to
  /\ UNCHANGED <<asked, fileName1, searchMask, fdbName, searched, ucs2label>>

(* FindFirst() for the volume label.                                       *)
FindFirst ==
  /\ pc = "label"
  /\ searchMask' = fmemcpy(searchMask, fcbName1, FcbLen)
  /\ fdbName' = cp_ucs2_to_local(ucs2label, FcbLen)
  /\ searched' = asked
  /\ pc' = "idle"
  /\ UNCHANGED <<asked, fileName1, fcbName1, ucs2label>>

Next == DosCalls \/ Claim \/ FindFirst

Spec == Init /\ [][Next]_vars

-----------------------------------------------------------------------------
(* Properties                                                              *)

(* FillFcbName() and the copy of the label have no bound of their own:     *)
(* what they store fits the eleven bytes of their fields, for every name   *)
(* that DOS may pass.                                                      *)
TypeOK ==
  /\ asked \in Paths \cup {None} /\ searched \in Paths \cup {None}
  /\ {Len(fcbName1), Len(searchMask), Len(fdbName)} = {FcbLen}
  /\ ToSet(fdbName) \subseteq 0 .. 255
  /\ pc \in {"idle", "claim", "label"}

(* A name as directory entries hold it: each part left-justified.          *)
Entry(p) ==
  [i \in 1 .. FcbLen |->
     IF i <= BaseLen
     THEN IF i <= Len(p.base) THEN p.base[i] ELSE "blank"
     ELSE IF i - BaseLen <= Len(p.ext) THEN p.ext[i - BaseLen] ELSE "blank"]

(* The search block keeps the mask of the search that filled it in, in the *)
(* form of directory entries, whatever names the calls before and after    *)
(* it left in the shared FcbName1.                                         *)
MaskIsOfSearch ==
  /\ pc = "label" => fcbName1 = Entry(asked)
  /\ searchMask = Entry(searched)

(* MakeFullPath() undoes FillFcbName(): a directory and the FCB name of a  *)
(* path in it give the path back.                                          *)
PathComesBack ==
  pc = "label" => MakeFullPath(asked.dir, fcbName1) = fileName1

(* A part of a mask selects a part of a name: equal where the mask has a   *)
(* character, anything or nothing for a wild card.                         *)
Selects(mask, name) ==
  /\ Len(name) <= Len(mask)
  /\ \A i \in DOMAIN mask :
       mask[i] # "?" => i \in DOMAIN name /\ name[i] = mask[i]

(* MatchNameMask() on the padded forms selects as base name and extension  *)
(* by themselves do, and a mask that FcbNameHasWildCards() calls plain     *)
(* selects only the name itself.                                           *)
MaskSelectsByParts ==
  pc = "label" =>
    \A p \in {q \in Paths : q.dir = asked.dir} :
      LET matches == MatchNameMask(Entry(p), fcbName1) IN
      /\ matches <=> Selects(asked.base, p.base) /\ Selects(asked.ext, p.ext)
      /\ matches /\ ~ FcbNameHasWildCards(fcbName1) => p = asked

(* The character of a byte, in the code page.                              *)
CharOf(byte) == IF byte < 128 THEN byte ELSE fpUnicodeTbl[byte - 127]

(* The label that DOS shows is the label of the share: each byte stands    *)
(* for the host's character, or is an underscore, only for a character     *)
(* that the code page does not have.                                       *)
LabelReadable ==
  searched # None =>
    \A i \in 1 .. FcbLen :
      \/ CharOf(fdbName[i]) = ucs2label[i]
      \/ fdbName[i] = Underscore /\ ucs2label[i] \notin ToSet(fpUnicodeTbl)

(* ucs2_to_local(), into a buffer with room for the text and its zero:     *)
(* the bytes are a C string of as many characters, and the result is 0     *)
(* exactly if the text can be read back from them.                         *)
LossIsReported ==
  asked = None =>
    \A len \in 0 .. FcbLen : \A buflen \in len + 1 .. FcbLen + 1 :
      LET c == ucs2_to_local(ucs2label, len, buflen) IN
      /\ Len(c.out) = len + 1
      /\ \A i \in 1 .. len + 1 : c.out[i] = 0 <=> i = len + 1
      /\ c.ret = 0 <=> \A i \in 1 .. len : CharOf(c.out[i]) = ucs2label[i]

=============================================================================
