-------------------------------- MODULE Ucs2 --------------------------------
(***************************************************************************)
(* ucs2.c, and the copy of it in vboxaux.c: text of the host, in 16-bit    *)
(* Unicode, as bytes of the code page of the guest.                        *)
(***************************************************************************)
EXTENDS Integers, Sequences

(* A character of the host is a uint16_t.                                  *)
MaxCode == 65535

(* The characters 128 .. 255 of the code page.                             *)
fpUnicodeTbl == <<
  \h00C7, \h00FC, \h00E9, \h00E2, \h00E4, \h00E0, \h00E5, \h00E7,
  \h00EA, \h00EB, \h00E8, \h00EF, \h00EE, \h00EC, \h00C4, \h00C5,
  \h00C9, \h00E6, \h00C6, \h00F4, \h00F6, \h00F2, \h00FB, \h00F9,
  \h00FF, \h00D6, \h00DC, \h00F8, \h00A3, \h00D8, \h00D7, \h0192,
  \h00E1, \h00ED, \h00F3, \h00FA, \h00F1, \h00D1, \h00AA, \h00BA,
  \h00BF, \h00AE, \h00AC, \h00BD, \h00BC, \h00A1, \h00AB, \h00BB,
  \h2591, \h2592, \h2593, \h2502, \h2524, \h25C1, \h00C2, \h00C0,
  \h00A9, \h2563, \h2551, \h2557, \h255D, \h00A2, \h00A5, \h2510,
  \h2514, \h2534, \h252C, \h251C, \h2500, \h253C, \h00E3, \h00C3,
  \h255A, \h2554, \h2569, \h2566, \h2560, \h2550, \h256C, \h00A4,
  \h00F0, \h00D0, \h00CA, \h00CB, \h00C8, \h20AC, \h00CD, \h00CE,
  \h00CF, \h2518, \h250C, \h2588, \h2584, \h00A6, \h00CC, \h2580,
  \h00D3, \h00DF, \h00D4, \h00D2, \h00F5, \h00D5, \h00B5, \h00FE,
  \h00DE, \h00DA, \h00DB, \h00D9, \h00FD, \h00DD, \h00AF, \h00B4,
  \h00AD, \h00B1, \h2017, \h00BE, \h00B6, \h00A7, \h00F7, \h00B8,
  \h00B0, \h00A8, \h00B7, \h00B9, \h00B3, \h00B2, \h25A0, \h00A0
>>

(* Mutant: the result is the index into the table.                         *)
lookupIndex(cp) ==
  LET Hits == {i \in DOMAIN fpUnicodeTbl : fpUnicodeTbl[i] = cp}
  IN  IF Hits = {} THEN 0 ELSE CHOOSE i \in Hits : \A j \in Hits : i <= j

(* The first entry with this code, 0 when there is none.                   *)
lookupCP(cp) ==
  LET Hits == {i \in DOMAIN fpUnicodeTbl : fpUnicodeTbl[i] = cp}
  IN  IF Hits = {} THEN 0 ELSE 127 + CHOOSE i \in Hits : \A j \in Hits : i <= j

Underscore == \h5F

(* One turn of either conversion's loop.                                   *)
LocalByte(ucs2) ==
  IF ucs2 < 128 THEN ucs2
  ELSE IF lookupCP(ucs2) = 0 THEN Underscore
  ELSE lookupCP(ucs2)

(* Mutant: every character that is no ASCII counts as replaced.            *)
IsReplacedHigh(ucs2) == ucs2 >= 128

IsReplaced(ucs2) == ucs2 >= 128 /\ lookupCP(ucs2) = 0

(* The bytes stored for the first len characters; no zero behind them.     *)
cp_ucs2_to_local(instr, len) == [i \in 1 .. len |-> LocalByte(instr[i])]

(* C reads "! buflen > len" as "(buflen == 0) > len": with len # 0 nothing *)
(* is refused, and what does not fit is stored all the same.               *)
Refuses(len, buflen) == (IF buflen = 0 THEN 1 ELSE 0) > len

(* What is stored at outstr, and what is returned.                         *)
ucs2_to_local(instr, len, buflen) ==
  IF len # 0 /\ Refuses(len, buflen)
  THEN [out |-> <<>>, ret |-> -1]
  ELSE [out |-> Append(cp_ucs2_to_local(instr, len), 0),
        ret |-> IF \E i \in 1 .. len : IsReplaced(instr[i]) THEN 1 ELSE 0]

=============================================================================
