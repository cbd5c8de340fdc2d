--------------------------- MODULE FcbNames_proofs ---------------------------
(***************************************************************************)
(* Proofs about FcbNames: what FillFcbName(), MakeFullPath() and           *)
(* MatchNameMask() do to every name that DOS may pass, and the invariants  *)
(* that rest on it.                                                        *)
(***************************************************************************)
EXTENDS FcbNames, Induction

(* What the proofs expand again and again.                                 *)
USE DEF BaseLen, FcbLen

(* The characters: the provers do not see that a literal is a string.      *)
Char == STRING \cup {"blank", ".", "\\"}

(* The first m characters of e.                                            *)
Prefix(e, m) == [k \in 1 .. m |-> e[k]]

(* The text u is s and then t.                                             *)
Joins(u, s, t) ==
  /\ u \in Seq(Char)
  /\ Len(u) = Len(s) + Len(t)
  /\ \A i \in 1 .. Len(s) : u[i] = s[i]
  /\ \A i \in 1 .. Len(t) : u[Len(s) + i] = t[i]

LEMMA ConcatIs ==
  ASSUME NEW s \in Seq(Char), NEW t \in Seq(Char)
  PROVE  Joins(s \o t, s, t)
<1>. HIDE DEF Char
<1>1. Len(s) \in Nat /\ Len(t) \in Nat
  OBVIOUS
<1>2. /\ s \o t \in Seq(Char)
      /\ Len(s \o t) = Len(s) + Len(t)
      /\ \A i \in 1 .. Len(s) + Len(t) :
           (s \o t)[i] = IF i <= Len(s) THEN s[i] ELSE t[i - Len(s)]
  BY ConcatProperties
<1>3. \A i \in 1 .. Len(s) : (s \o t)[i] = s[i]
  BY <1>1, <1>2
<1>4. ASSUME NEW i \in 1 .. Len(t)
      PROVE  (s \o t)[Len(s) + i] = t[i]
  <2>1. /\ Len(s) + i \in 1 .. Len(s) + Len(t)
        /\ ~ (Len(s) + i <= Len(s)) /\ (Len(s) + i) - Len(s) = i
    BY <1>1
  <2>. QED
    BY <1>2, <2>1
<1>. QED
  BY <1>2, <1>3, <1>4 DEF Joins

LEMMA PrefixIsSeq ==
  ASSUME NEW n \in Nat, NEW e \in [1 .. n -> Char], NEW m \in 0 .. n
  PROVE  Prefix(e, m) \in Seq(Char) /\ Len(Prefix(e, m)) = m
<1>1. Prefix(e, m) \in [1 .. m -> Char] /\ m \in Nat
  BY DEF Prefix
<1>. QED
  BY <1>1

LEMMA PrefixAppend ==
  ASSUME NEW n \in Nat, NEW e \in [1 .. n -> Char], NEW m \in 0 .. n - 1
  PROVE  Append(Prefix(e, m), e[m + 1]) = Prefix(e, m + 1)
<1>0. m \in 0 .. n /\ m + 1 \in 0 .. n /\ e[m + 1] \in Char
  OBVIOUS
<1>1. Prefix(e, m) \in Seq(Char) /\ Len(Prefix(e, m)) = m
  BY <1>0, PrefixIsSeq
<1>2. Prefix(e, m + 1) \in Seq(Char) /\ Len(Prefix(e, m + 1)) = m + 1
  BY <1>0, PrefixIsSeq
<1>3. /\ Append(Prefix(e, m), e[m + 1]) \in Seq(Char)
      /\ Len(Append(Prefix(e, m), e[m + 1])) = m + 1
      /\ \A i \in 1 .. m : Append(Prefix(e, m), e[m + 1])[i] = Prefix(e, m)[i]
      /\ Append(Prefix(e, m), e[m + 1])[m + 1] = e[m + 1]
  BY <1>0, <1>1, AppendProperties
<1>4. \A i \in 1 .. m + 1 : Append(Prefix(e, m), e[m + 1])[i] = Prefix(e, m + 1)[i]
  BY <1>3 DEF Prefix
<1>. QED
  BY <1>2, <1>3, <1>4, SeqEqual

LEMMA BlanksIsSeq ==
  ASSUME NEW n \in Int
  PROVE  /\ Blanks(n) \in Seq(Char)
         /\ Len(Blanks(n)) = IF n > 0 THEN n ELSE 0
         /\ \A i \in 1 .. n : Blanks(n)[i] = "blank"
<1>1. CASE n > 0
  <2>1. Blanks(n) \in [1 .. n -> Char] /\ n \in Nat
    BY <1>1 DEF Blanks, Char
  <2>. QED
    BY <1>1, <2>1 DEF Blanks
<1>2. CASE ~ (n > 0)
  <2>1. Blanks(n) = [i \in 1 .. 0 |-> "blank"]
    BY <1>2 DEF Blanks
  <2>. QED
    BY <1>2, <2>1
<1>. QED
  BY <1>1, <1>2

(* Padding is right where only blanks are missing.                         *)
LEMMA PrefixPad ==
  ASSUME NEW e \in [1 .. FcbLen -> Char], NEW n \in 0 .. FcbLen, NEW m \in 0 .. n,
         \A k \in m + 1 .. n : e[k] = "blank"
  PROVE  Pad(Prefix(e, m), n) = Prefix(e, n)
<1>0. m \in 0 .. 11 /\ 11 \in Nat /\ n - m \in Int
  OBVIOUS
<1>1. Prefix(e, m) \in Seq(Char) /\ Len(Prefix(e, m)) = m
  BY <1>0, PrefixIsSeq
<1>2. Prefix(e, n) \in Seq(Char) /\ Len(Prefix(e, n)) = n
  BY <1>0, PrefixIsSeq
<1>3. /\ Blanks(n - m) \in Seq(Char) /\ Len(Blanks(n - m)) = n - m
      /\ \A i \in 1 .. n - m : Blanks(n - m)[i] = "blank"
  <2>. DEFINE d == n - m
  <2>1. d \in Int /\ (IF d > 0 THEN d ELSE 0) = d
    OBVIOUS
  <2>. HIDE DEF d
  <2>2. /\ Blanks(d) \in Seq(Char) /\ Len(Blanks(d)) = IF d > 0 THEN d ELSE 0
        /\ \A i \in 1 .. d : Blanks(d)[i] = "blank"
    BY <2>1, BlanksIsSeq
  <2>. QED
    BY <2>1, <2>2 DEF d
<1>. DEFINE s == Prefix(e, m)
            b == Blanks(n - m)
<1>4. /\ s \o b \in Seq(Char) /\ Len(s \o b) = n
      /\ \A i \in 1 .. m : (s \o b)[i] = s[i]
      /\ \A i \in 1 .. n - m : (s \o b)[m + i] = b[i]
  <2>1. s \in Seq(Char) /\ b \in Seq(Char) /\ Len(s) = m /\ Len(b) = n - m
    BY <1>1, <1>3
  <2>2. m + (n - m) = n
    OBVIOUS
  <2>. HIDE DEF s, b
  <2>3. Joins(s \o b, s, b)
    BY <2>1, ConcatIs
  <2>. QED
    BY <2>1, <2>2, <2>3 DEF Joins
<1>5. ASSUME NEW i \in 1 .. n
      PROVE  (s \o b)[i] = Prefix(e, n)[i]
  <2>1. CASE i <= m
    <3>1. s[i] = e[i] /\ Prefix(e, n)[i] = e[i] /\ i \in 1 .. m
      BY <2>1 DEF Prefix
    <3>. QED
      BY <1>4, <3>1
  <2>2. CASE ~ (i <= m)
    <3>1. i - m \in 1 .. n - m /\ m + (i - m) = i /\ i \in m + 1 .. n
      BY <2>2
    <3>2. b[i - m] = "blank" /\ e[i] = "blank"
      BY <1>3, <3>1
    <3>3. Prefix(e, n)[i] = e[i]
      BY DEF Prefix
    <3>. QED
      BY <1>4, <3>1, <3>2, <3>3
  <2>. QED
    BY <2>1, <2>2
<1>6. s \o b = Prefix(e, n)
  BY <1>2, <1>4, <1>5, SeqEqual
<1>. QED
  BY <1>1, <1>6 DEF Pad

-----------------------------------------------------------------------------
(* The parts of a path                                                     *)

LEMMA PathParts ==
  ASSUME NEW p \in Paths
  PROVE  /\ p.dir \in Seq(Char)
         /\ p.base \in Seq(Char) /\ Len(p.base) \in 0 .. 8
         /\ p.ext \in Seq(Char) /\ Len(p.ext) \in 0 .. 3
         /\ \A i \in 1 .. Len(p.base) : p.base[i] \notin {".", "\\", "blank"}
         /\ \A i \in 1 .. Len(p.ext) : p.ext[i] \notin {".", "\\", "blank"}
         /\ p.base = <<>> => p.ext = <<>>
<1>1. Upto(p.base, 8) /\ Upto(p.ext, 3)
  BY PathsAssumption
<1>2. ASSUME NEW s, NEW n \in Nat, Upto(s, n)
      PROVE  /\ s \in Seq(Char) /\ Len(s) \in 0 .. n
             /\ \A i \in 1 .. Len(s) : s[i] \notin {".", "\\", "blank"}
  <2>1. s \in Seq(STRING) /\ Len(s) \in 0 .. n
    BY <1>2 DEF Upto
  <2>2. \A i \in 1 .. Len(s) : s[i] \in ToSet(s)
    BY <2>1 DEF ToSet
  <2>3. \A i \in 1 .. Len(s) : s[i] \notin {".", "\\", "blank"}
    BY <1>2, <2>2 DEF Upto
  <2>4. s \in Seq(Char)
    BY <2>1, SeqMonotonic DEF Char
  <2>. QED
    BY <2>1, <2>3, <2>4
<1>3. p.dir \in Seq(Char)
  BY PathsAssumption, SeqMonotonic DEF Char
<1>. QED
  BY <1>1, <1>2, <1>3, PathsAssumption

LEMMA EntryType ==
  ASSUME NEW p \in Paths
  PROVE  Entry(p) \in [1 .. FcbLen -> Char]
<1>1. ASSUME NEW i \in 1 .. 11
      PROVE  Entry(p)[i] \in Char
  <2>1. "blank" \in Char
    BY DEF Char
  <2>2. \A k \in 1 .. Len(p.base) : p.base[k] \in Char
    BY PathParts
  <2>3. \A k \in 1 .. Len(p.ext) : p.ext[k] \in Char
    BY PathParts
  <2>4. Len(p.base) \in Nat /\ Len(p.ext) \in Nat
    BY PathParts
  <2>. HIDE DEF Char
  <2>. QED
    BY <2>1, <2>2, <2>3, <2>4 DEF Entry
<1>. QED
  BY <1>1 DEF Entry

(* The characters of the last component: the base name, and behind it, if  *)
(* there is one, the extension with its dot.                               *)
IsComponent(p, c, b, x) ==
  /\ c \in Seq(Char) /\ b \in 0 .. 8 /\ x \in 0 .. 3
  /\ b = Len(p.base) /\ x = Len(p.ext)
  /\ Len(c) = b + (IF x = 0 THEN 0 ELSE 1 + x)
  /\ \A i \in 1 .. b : c[i] = p.base[i]
  /\ x > 0 => c[b + 1] = "."
  /\ \A i \in 1 .. x : c[b + 1 + i] = p.ext[i]

LEMMA ComponentIs ==
  ASSUME NEW p \in Paths
  PROVE  IsComponent(p, Component(p), Len(p.base), Len(p.ext))
<1>. DEFINE c == Component(p)
            b == Len(p.base)
            x == Len(p.ext)
<1>. HIDE DEF c, b, x
<1>1. p.base \in Seq(Char) /\ p.ext \in Seq(Char) /\ b \in 0 .. 8 /\ x \in 0 .. 3
  BY PathParts DEF b, x
<1>2. CASE p.ext = <<>>
  <2>1. x = 0 /\ c = p.base \o <<>>
    BY <1>2 DEF Component, c, x
  <2>2. c = p.base
    BY <1>1, <2>1, ConcatEmptySeq
  <2>3. Len(c) = b
    BY <2>2 DEF b
  <2>. QED
    BY <1>1, <2>1, <2>2, <2>3 DEF IsComponent, c, b, x
<1>3. CASE p.ext # <<>>
  <2>1. x > 0
    BY <1>1, <1>3, EmptySeq DEF x
  <2>. DEFINE dot == <<".">>
              t == dot \o p.ext
  <2>2. dot \in Seq(Char) /\ Len(dot) = 1 /\ dot[1] = "."
    BY DEF Char
  <2>. HIDE DEF dot
  <2>3. /\ t \in Seq(Char) /\ Len(t) = 1 + x
        /\ t[1] = "."
        /\ \A i \in 1 .. x : t[1 + i] = p.ext[i]
    <3>1. Joins(t, dot, p.ext)
      BY <1>1, <2>2, ConcatIs
    <3>. HIDE DEF t
    <3>. QED
      BY <2>2, <3>1 DEF Joins, x
  <2>. HIDE DEF t
  <2>5. c = p.base \o t
    BY <1>3 DEF Component, c, t, dot
  <2>6. /\ c \in Seq(Char) /\ Len(c) = b + (1 + x)
        /\ \A i \in 1 .. b : c[i] = p.base[i]
        /\ \A i \in 1 .. 1 + x : c[b + i] = t[i]
    <3>1. Joins(c, p.base, t)
      BY <1>1, <2>3, <2>5, ConcatIs
    <3>. QED
      BY <2>3, <3>1 DEF Joins, b
  <2>8. c[b + 1] = "."
    BY <1>1, <2>6, <2>3
  <2>9. ASSUME NEW i \in 1 .. x
        PROVE  c[b + 1 + i] = p.ext[i]
    <3>1. 1 + i \in 1 .. 1 + x /\ b + 1 + i = b + (1 + i)
      BY <1>1
    <3>. QED
      BY <3>1, <2>6, <2>3
  <2>10. b = Len(p.base) /\ x = Len(p.ext)
    BY DEF b, x
  <2>11. IsComponent(p, c, b, x)
    <3>1. Len(c) = b + (IF x = 0 THEN 0 ELSE 1 + x)
      BY <2>1, <2>6, <1>1
    <3>. QED
      BY <3>1, <1>1, <2>1, <2>6, <2>8, <2>9, <2>10 DEF IsComponent
  <2>. QED
    BY <2>11 DEF c, b, x
<1>. QED
  BY <1>2, <1>3

LEMMA ComponentSize ==
  ASSUME NEW p, NEW c, NEW b, NEW x, IsComponent(p, c, b, x)
  PROVE  /\ b \in Int /\ 0 <= b /\ b <= 8 /\ x \in Int /\ 0 <= x /\ x <= 3
         /\ Len(c) = b + (IF x = 0 THEN 0 ELSE 1 + x)
         /\ Len(c) \in Int /\ Len(c) >= 0
<1>1. b \in 0 .. 8 /\ x \in 0 .. 3 /\ Len(c) = b + (IF x = 0 THEN 0 ELSE 1 + x)
  BY DEF IsComponent
<1>. DEFINE n == Len(c)
<1>. HIDE DEF n
<1>2. n = b + (IF x = 0 THEN 0 ELSE 1 + x)
  BY <1>1 DEF n
<1>3. n \in Int /\ n >= 0
  BY <1>1, <1>2
<1>. QED
  BY <1>1, <1>3 DEF n

(* A path: its last separator is behind the directory.                     *)
IsPath(p, t, L) ==
  /\ t \in Seq(Char) /\ L \in Nat /\ L > 0
  /\ Len(t) = L + Len(Component(p))
  /\ t[L] = "\\"
  /\ \A i \in 1 .. Len(Component(p)) : t[L + i] = Component(p)[i]
  /\ \A i \in 1 .. Len(Component(p)) : t[L + i] # "\\"

LEMMA PathIs ==
  ASSUME NEW p \in Paths
  PROVE  IsPath(p, PathText(p), Len(p.dir) + 1)
<1>. DEFINE c == Component(p)
            b == Len(p.base)
            x == Len(p.ext)
            sep == <<"\\">>
            d == p.dir \o sep
            t == PathText(p)
            L == Len(p.dir) + 1
<1>1. p.dir \in Seq(Char) /\ Len(p.dir) \in Nat
  BY PathParts
<1>2. sep \in Seq(Char) /\ Len(sep) = 1 /\ sep[1] = "\\"
  BY DEF Char
<1>3. IsComponent(p, c, b, x)
  BY ComponentIs
<1>. HIDE DEF c, b, x, sep
<1>4a. /\ b \in Int /\ 0 <= b /\ b <= 8 /\ x \in Int /\ 0 <= x /\ x <= 3
      /\ Len(c) = b + (IF x = 0 THEN 0 ELSE 1 + x) /\ Len(c) \in Int /\ Len(c) >= 0
  BY <1>3, ComponentSize
<1>4b. c \in Seq(Char)
  BY <1>3 DEF IsComponent
<1>4. c \in Seq(Char) /\ Len(c) \in Nat
  BY <1>4a, <1>4b
<1>5. Joins(d, p.dir, sep)
  BY <1>1, <1>2, ConcatIs
<1>6. d \in Seq(Char) /\ Len(d) = L /\ d[L] = "\\"
  <2>. HIDE DEF d
  <2>. QED
    BY <1>1, <1>2, <1>5 DEF Joins
<1>7. t = d \o c
  BY DEF PathText, c, sep
<1>. HIDE DEF d, t
<1>8. Joins(t, d, c)
  BY <1>4, <1>6, <1>7, ConcatIs
<1>9. /\ t \in Seq(Char) /\ Len(t) = L + Len(c) /\ t[L] = d[L]
      /\ \A i \in 1 .. Len(c) : t[L + i] = c[i]
  BY <1>1, <1>6, <1>8 DEF Joins
<1>10. ASSUME NEW i \in 1 .. Len(c)
       PROVE  c[i] # "\\"
  <2>1. /\ \A k \in 1 .. b : p.base[k] # "\\"
        /\ \A k \in 1 .. x : p.ext[k] # "\\"
    BY PathParts DEF b, x
  <2>2. CASE i <= b
    <3>1. i \in 1 .. b
      BY <2>2, <1>4a
    <3>. QED
      BY <3>1, <2>1, <1>3 DEF IsComponent
  <2>3. CASE i = b + 1
    <3>1. x > 0
      BY <2>3, <1>4a
    <3>2. c[b + 1] = "."
      BY <1>3, <3>1 DEF IsComponent
    <3>. QED
      BY <2>3, <3>2
  <2>4. CASE i > b + 1
    <3>1. i - (b + 1) \in 1 .. x /\ b + 1 + (i - (b + 1)) = i
      BY <2>4, <1>4a
    <3>2. c[b + 1 + (i - (b + 1))] = p.ext[i - (b + 1)]
      BY <3>1, <1>3 DEF IsComponent
    <3>. QED
      BY <3>1, <3>2, <2>1
  <2>. QED
    BY <2>2, <2>3, <2>4, <1>4a
<1>11. \A i \in 1 .. Len(c) : t[L + i] # "\\"
  BY <1>9, <1>10
<1>12. L \in Nat /\ L > 0
  BY <1>1
<1>. QED
  BY <1>6, <1>9, <1>11, <1>12 DEF IsPath, c, t

(* fstrrchr() finds it.                                                    *)
LEMMA LastSeparator ==
  ASSUME NEW p \in Paths, NEW t, NEW L, IsPath(p, t, L)
  PROVE  fstrrchr(t, "\\") = L
<1>. DEFINE n == Len(Component(p))
            S == {i \in DOMAIN t : t[i] = "\\"} \cup {1}
<1>1. n \in Nat
  BY ComponentIs, ComponentSize
<1>2. DOMAIN t = 1 .. L + n /\ L \in Nat /\ L > 0
  BY DEF IsPath
<1>3. L \in S
  BY <1>1, <1>2 DEF IsPath
<1>4. ASSUME NEW y \in S
      PROVE  y \in Nat /\ y <= L
  <2>. SUFFICES ASSUME y \in 1 .. L + n, y > L, t[y] = "\\"
                PROVE  FALSE
    BY <1>2
  <2>1. y - L \in 1 .. n /\ L + (y - L) = y
    BY <1>1, <1>2
  <2>2. t[L + (y - L)] # "\\"
    BY <2>1 DEF IsPath
  <2>. QED
    BY <2>1, <2>2
<1>. HIDE DEF S
<1>5. Max(S) = L
  <2>1. \A y \in S : L >= y
    BY <1>2, <1>4
  <2>2. \A z \in S : (\A y \in S : z >= y) => z = L
    BY <1>2, <1>3, <1>4
  <2>. QED
    BY <1>3, <2>1, <2>2 DEF Max
<1>. QED
  BY <1>5 DEF fstrrchr, S

LEMMA EntryIs ==
  ASSUME NEW p \in Paths
  PROVE  /\ \A k \in 1 .. Len(p.base) : Entry(p)[k] = p.base[k]
         /\ \A k \in Len(p.base) + 1 .. 8 : Entry(p)[k] = "blank"
         /\ \A k \in 1 .. Len(p.ext) : Entry(p)[8 + k] = p.ext[k]
         /\ \A k \in 8 + Len(p.ext) + 1 .. 11 : Entry(p)[k] = "blank"
<1>. DEFINE b == Len(p.base)
            x == Len(p.ext)
            e == Entry(p)
<1>1. b \in 0 .. 8 /\ x \in 0 .. 3
  BY PathParts
<1>2. e = [i \in 1 .. 11 |-> IF i <= 8 THEN IF i <= b THEN p.base[i] ELSE "blank"
                             ELSE IF i - 8 <= x THEN p.ext[i - 8] ELSE "blank"]
  BY DEF Entry
<1>. HIDE DEF b, x, e
<1>3. \A k \in 1 .. b : e[k] = p.base[k]
  BY <1>1, <1>2
<1>4. \A k \in b + 1 .. 8 : e[k] = "blank"
  BY <1>1, <1>2
<1>5. ASSUME NEW k \in 1 .. x
      PROVE  e[8 + k] = p.ext[k]
  <2>1. 8 + k \in 1 .. 11 /\ ~ (8 + k <= 8) /\ (8 + k) - 8 = k /\ k <= x
    BY <1>1
  <2>. QED
    BY <2>1, <1>2
<1>6. \A k \in 8 + x + 1 .. 11 : e[k] = "blank"
  BY <1>1, <1>2
<1>. QED
  BY <1>3, <1>4, <1>5, <1>6 DEF b, x, e

(* How much of the entry is complete after j characters of the component.  *)
Filled(p, j) == IF j <= Len(p.base) THEN j ELSE BaseLen + (j - Len(p.base) - 1)

(* A turn of the loop adds the next character, or the blanks up to the     *)
(* extension.                                                              *)
LEMMA PutStep ==
  ASSUME NEW p \in Paths, NEW j \in 1 .. Len(Component(p))
  PROVE  Put(Prefix(Entry(p), Filled(p, j - 1)), Component(p)[j])
           = Prefix(Entry(p), Filled(p, j))
<1>. DEFINE e == Entry(p)
            b == Len(p.base)
            x == Len(p.ext)
            c == Component(p)
<1>1. IsComponent(p, c, b, x)
  BY ComponentIs
<1>2. e \in [1 .. 11 -> Char]
  BY EntryType
<1>3. /\ \A k \in 1 .. b : e[k] = p.base[k]
      /\ \A k \in b + 1 .. 8 : e[k] = "blank"
      /\ \A k \in 1 .. x : e[8 + k] = p.ext[k]
  BY EntryIs
<1>4. /\ \A k \in 1 .. b : p.base[k] # "."
      /\ \A k \in 1 .. x : p.ext[k] # "."
  BY PathParts
<1>. HIDE DEF e, b, x, c
<1>5. /\ b \in Int /\ 0 <= b /\ b <= 8 /\ x \in Int /\ 0 <= x /\ x <= 3
      /\ Len(c) = b + (IF x = 0 THEN 0 ELSE 1 + x) /\ Len(c) \in Int /\ Len(c) >= 0
  BY <1>1, ComponentSize
<1>6. /\ j \in Int /\ 1 <= j /\ (x = 0 => j <= b) /\ j <= b + 1 + x
      /\ \A i \in Int : Filled(p, i) = IF i <= b THEN i ELSE 8 + (i - b - 1)
  <2>1. j \in 1 .. Len(c)
    BY DEF c
  <2>2. j \in Int /\ 1 <= j /\ (x = 0 => j <= b) /\ j <= b + 1 + x
    BY <1>5, <2>1
  <2>. QED
    BY <2>2 DEF Filled, b
<1>7. ASSUME NEW m \in 0 .. 11 - 1
      PROVE  Append(Prefix(e, m), e[m + 1]) = Prefix(e, m + 1)
  <2>1. 11 \in Nat
    OBVIOUS
  <2>. QED
    BY <1>2, <2>1, PrefixAppend
<1>8. CASE j <= b
  <2>1. j \in 1 .. b /\ j - 1 \in 0 .. 11 - 1 /\ (j - 1) + 1 = j
    BY <1>5, <1>6, <1>8
  <2>2. Filled(p, j - 1) = j - 1 /\ Filled(p, j) = j
    BY <1>5, <1>6, <1>8, <2>1
  <2>3. c[j] = e[j] /\ c[j] # "."
    BY <1>1, <1>3, <1>4, <2>1 DEF IsComponent
  <2>4. Append(Prefix(e, j - 1), e[j]) = Prefix(e, j)
    BY <1>7, <2>1
  <2>. QED
    BY <2>2, <2>3, <2>4 DEF Put, e, c
<1>9. CASE j = b + 1
  <2>1. x > 0 /\ j - 1 = b
    BY <1>5, <1>6, <1>9
  <2>2. Filled(p, j - 1) = b /\ Filled(p, j) = 8
    BY <1>5, <1>6, <1>9, <2>1
  <2>3. c[j] = "."
    BY <1>1, <1>9, <2>1 DEF IsComponent
  <2>4. Pad(Prefix(e, b), 8) = Prefix(e, 8)
    <3>1. b \in 0 .. 8 /\ 8 \in 0 .. 11
      BY <1>5
    <3>. QED
      BY <1>2, <1>3, <3>1, PrefixPad
  <2>. QED
    BY <2>2, <2>3, <2>4 DEF Put, e, c
<1>10. CASE j > b + 1
  <2>. DEFINE k == j - (b + 1)
  <2>1. /\ x > 0 /\ k \in 1 .. x /\ 8 + (k - 1) \in 0 .. 11 - 1 /\ (8 + (k - 1)) + 1 = 8 + k
        /\ b + 1 + k = j
    BY <1>5, <1>6, <1>10
  <2>2. Filled(p, j - 1) = 8 + (k - 1) /\ Filled(p, j) = 8 + k
    BY <1>5, <1>6, <1>10
  <2>. HIDE DEF k
  <2>3. c[b + 1 + k] = p.ext[k]
    BY <1>1, <2>1 DEF IsComponent
  <2>4. c[j] = e[8 + k] /\ c[j] # "."
    BY <1>3, <1>4, <2>1, <2>3
  <2>5. Append(Prefix(e, 8 + (k - 1)), e[8 + k]) = Prefix(e, 8 + k)
    BY <1>7, <2>1
  <2>. QED
    BY <2>2, <2>4, <2>5 DEF Put, e, c
<1>. QED
  BY <1>5, <1>6, <1>8, <1>9, <1>10

(* FillFcbName() makes the directory entry of every name that DOS passes.  *)
THEOREM FillMakesEntry ==
  ASSUME NEW p \in Paths
  PROVE  FillFcbName(PathText(p)) = Entry(p)
<1>. DEFINE e == Entry(p)
            b == Len(p.base)
            x == Len(p.ext)
            c == Component(p)
            t == PathText(p)
            L == Len(p.dir) + 1
            n == Len(c)
            N == Len(t)
            Body(f) == [i \in L .. N |->
                          IF i = L THEN <<>> ELSE Put(f[i - 1], t[i])]
            h == [i \in L .. N |-> Prefix(e, Filled(p, i - L))]
            f == CHOOSE f : f = Body(f)
<1>1. IsPath(p, t, L)
  BY PathIs
<1>2. fstrrchr(t, "\\") = L
  BY <1>1, LastSeparator
<1>3. FillFcbName(t) = Pad(f[N], FcbLen)
  BY <1>2 DEF FillFcbName
<1>. HIDE DEF t, L
<1>4. IsComponent(p, c, b, x)
  BY ComponentIs
<1>. HIDE DEF c, b, x, n
<1>5. /\ b \in Int /\ 0 <= b /\ b <= 8 /\ x \in Int /\ 0 <= x /\ x <= 3
      /\ n = b + (IF x = 0 THEN 0 ELSE 1 + x) /\ n \in Int /\ n >= 0
  BY <1>4, ComponentSize DEF n
<1>6. L \in Nat /\ N = L + n /\ \A i \in 1 .. n : t[L + i] = c[i]
  BY <1>1 DEF IsPath, c, n
<1>7. \A j \in 1 .. n : Put(Prefix(e, Filled(p, j - 1)), c[j]) = Prefix(e, Filled(p, j))
  BY PutStep DEF c, n
<1>8. Prefix(e, Filled(p, 0)) = <<>>
  <2>1. Filled(p, 0) = 0
    BY <1>5 DEF Filled, b
  <2>. QED
    BY <2>1 DEF Prefix
<1>. HIDE DEF e, N
<1>9. h = Body(h)
  <2>. SUFFICES ASSUME NEW i \in L .. N
                PROVE  h[i] = Body(h)[i]
    OBVIOUS
  <2>1. CASE i = L
    BY <2>1, <1>6, <1>8
  <2>2. CASE i # L
    <3>. DEFINE j == i - L
    <3>1. j \in 1 .. n /\ L + j = i /\ i - 1 \in L .. N /\ (i - 1) - L = j - 1
      BY <1>5, <1>6, <2>2
    <3>2. t[i] = c[j]
      BY <1>6, <3>1
    <3>3. h[i - 1] = Prefix(e, Filled(p, j - 1)) /\ h[i] = Prefix(e, Filled(p, j))
      BY <3>1
    <3>. HIDE DEF j, h
    <3>4. h[i] = Put(h[i - 1], t[i])
      BY <1>7, <3>1, <3>2, <3>3
    <3>. QED
      BY <3>4, <2>2
  <2>. QED
    BY <2>1, <2>2
<1>10. f = Body(f)
  <2>. HIDE DEF Body, h
  <2>1. \E g : g = Body(g)
    BY <1>9
  <2>. QED
    BY <2>1
<1>. HIDE DEF f
<1>11. h[L] = <<>> /\ \A i \in L + 1 .. N : h[i] = Put(h[i - 1], t[i])
  <2>. HIDE DEF h
  <2>. QED
    BY <1>5, <1>6, <1>9
<1>12. f[L] = <<>> /\ \A i \in L + 1 .. N : f[i] = Put(f[i - 1], t[i])
  BY <1>5, <1>6, <1>10
<1>13. f[N] = h[N]
  <2>. DEFINE U == {j \in 0 .. n : f[L + j] = h[L + j]}
  <2>1. 0 \in U
    BY <1>5, <1>6, <1>11, <1>12
  <2>2. ASSUME NEW j \in 0 .. n - 1, j \in U
        PROVE  j + 1 \in U
    <3>1. j + 1 \in 0 .. n /\ L + (j + 1) \in L + 1 .. N /\ (L + (j + 1)) - 1 = L + j
      BY <1>5, <1>6
    <3>. HIDE DEF h
    <3>2. /\ f[L + (j + 1)] = Put(f[L + j], t[L + (j + 1)])
          /\ h[L + (j + 1)] = Put(h[L + j], t[L + (j + 1)])
      BY <1>11, <1>12, <3>1
    <3>. QED
      BY <2>2, <3>1, <3>2
  <2>3. n \in Nat /\ n \in 0 .. n
    BY <1>5
  <2>. HIDE DEF U
  <2>4. \A j \in 0 .. n : j \in U
    BY <2>1, <2>2, <2>3, IntervalInduction
  <2>. HIDE DEF h
  <2>. QED
    BY <1>6, <2>3, <2>4 DEF U
<1>14. f[N] = Prefix(e, Filled(p, n))
  BY <1>5, <1>6, <1>13
<1>15. e \in [1 .. 11 -> Char]
  BY EntryType DEF e
<1>16. /\ \A k \in b + 1 .. 8 : e[k] = "blank"
       /\ \A k \in 8 + x + 1 .. 11 : e[k] = "blank"
  BY EntryIs DEF e, b, x
<1>17. /\ Filled(p, n) \in 0 .. 11
       /\ \A k \in Filled(p, n) + 1 .. 11 : e[k] = "blank"
  <2>1. CASE x = 0
    <3>1. Filled(p, n) = b
      BY <1>5, <2>1 DEF Filled, b
    <3>. QED
      BY <1>5, <1>16, <2>1, <3>1
  <2>2. CASE x # 0
    <3>1. n = b + 1 + x /\ ~ (n <= b) /\ n - b - 1 = x
      BY <1>5, <2>2
    <3>2. Filled(p, n) = 8 + x
      BY <3>1 DEF Filled, b
    <3>. QED
      BY <1>5, <1>16, <3>2
  <2>. QED
    BY <2>1, <2>2
<1>18. Pad(Prefix(e, Filled(p, n)), 11) = Prefix(e, 11)
  BY <1>15, <1>17, PrefixPad, 11 \in 0 .. 11
<1>19. Prefix(e, 11) = e
  BY <1>15 DEF Prefix
<1>. QED
  BY <1>3, <1>14, <1>18, <1>19 DEF e, t

LEMMA PrefixJoin ==
  ASSUME NEW n \in Nat, NEW e \in [1 .. n -> Char], NEW m \in 0 .. n - 1
  PROVE  Prefix(e, m) \o <<e[m + 1]>> = Prefix(e, m + 1)
<1>1. m \in 0 .. n /\ e[m + 1] \in Char
  OBVIOUS
<1>2. Prefix(e, m) \in Seq(Char)
  BY <1>1, PrefixIsSeq
<1>3. Append(Prefix(e, m), e[m + 1]) = Prefix(e, m) \o <<e[m + 1]>>
  BY <1>1, <1>2, AppendIsConcat
<1>. QED
  BY <1>3, PrefixAppend

LEMMA PrefixJoinTwo ==
  ASSUME NEW n \in Nat, NEW e \in [1 .. n -> Char], NEW m \in 0 .. n - 2
  PROVE  Prefix(e, m) \o <<e[m + 1], e[m + 2]>> = Prefix(e, m + 2)
<1>. DEFINE a == <<e[m + 1]>>
            z == <<e[m + 2]>>
            u == Prefix(e, m)
<1>1. /\ m \in 0 .. n - 1 /\ m + 1 \in 0 .. n - 1 /\ (m + 1) + 1 = m + 2 /\ m \in 0 .. n
      /\ e[m + 1] \in Char /\ e[m + 2] \in Char
  OBVIOUS
<1>2. u \in Seq(Char) /\ a \in Seq(Char) /\ z \in Seq(Char)
  BY <1>1, PrefixIsSeq
<1>3. <<e[m + 1], e[m + 2]>> = a \o z
  BY <1>1
<1>4. u \o a = Prefix(e, m + 1)
  BY <1>1, PrefixJoin
<1>5. Prefix(e, m + 1) \o z = Prefix(e, m + 2)
  BY <1>1, PrefixJoin
<1>. HIDE DEF a, z, u
<1>6. (u \o a) \o z = u \o (a \o z)
  BY <1>2, ConcatAssociative
<1>. QED
  BY <1>3, <1>4, <1>5, <1>6 DEF u

(* How much of the component the first i characters of the entry make.     *)
Taken(b, x, i) ==
  IF i <= b THEN i
  ELSE IF i <= 8 \/ x = 0 THEN b
  ELSE IF i - 8 <= x THEN b + 1 + (i - 8)
  ELSE b + 1 + x

LEMMA PieceStep ==
  ASSUME NEW p \in Paths, NEW k \in 1 .. 11
  PROVE  LET c == Component(p)
             b == Len(p.base)
             x == Len(p.ext)
         IN  Prefix(c, Taken(b, x, k - 1)) \o Piece(Entry(p), k)
               = Prefix(c, Taken(b, x, k))
<1>. DEFINE c == Component(p)
            b == Len(p.base)
            x == Len(p.ext)
            e == Entry(p)
            n == Len(c)
<1>1. IsComponent(p, c, b, x)
  BY ComponentIs
<1>2. /\ \A i \in 1 .. b : e[i] = p.base[i]
      /\ \A i \in b + 1 .. 8 : e[i] = "blank"
      /\ \A i \in 1 .. x : e[8 + i] = p.ext[i]
      /\ \A i \in 8 + x + 1 .. 11 : e[i] = "blank"
  BY EntryIs
<1>3. /\ \A i \in 1 .. b : p.base[i] # "blank"
      /\ \A i \in 1 .. x : p.ext[i] # "blank"
  BY PathParts
<1>. HIDE DEF c, b, x, e, n
<1>4. /\ b \in Int /\ 0 <= b /\ b <= 8 /\ x \in Int /\ 0 <= x /\ x <= 3
      /\ n = b + (IF x = 0 THEN 0 ELSE 1 + x) /\ n \in Int /\ n >= 0
  BY <1>1, ComponentSize DEF n
<1>5. c \in Seq(Char)
  BY <1>1 DEF IsComponent
<1>6. n \in Nat /\ c \in [1 .. n -> Char]
  BY <1>4, <1>5, LenProperties DEF n
<1>7. /\ \A i \in 1 .. b : c[i] = e[i]
      /\ x > 0 => c[b + 1] = "."
      /\ \A i \in 1 .. x : c[b + 1 + i] = e[8 + i]
  BY <1>1, <1>2 DEF IsComponent
<1>8. /\ \A i \in 1 .. b : e[i] # "blank"
      /\ \A i \in 1 .. x : e[8 + i] # "blank"
  BY <1>2, <1>3
<1>9. ASSUME NEW m \in 0 .. n
      PROVE  Prefix(c, m) \o <<>> = Prefix(c, m)
  BY <1>6, PrefixIsSeq, ConcatEmptySeq
<1>. DEFINE q(i) == Taken(b, x, i)
            w == Piece(e, k)
<1>10. CASE k <= b
  <2>1. q(k - 1) = k - 1 /\ q(k) = k /\ k - 1 \in 0 .. n - 1 /\ (k - 1) + 1 = k
    BY <1>4, <1>10 DEF Taken
  <2>2. w = <<c[k]>>
    <3>1. k \in 1 .. b /\ k # 9
      BY <1>4, <1>10
    <3>. QED
      BY <3>1, <1>7, <1>8 DEF Piece
  <2>3. Prefix(c, k - 1) \o <<c[k]>> = Prefix(c, k)
    BY <1>6, <2>1, PrefixJoin
  <2>. QED
    BY <2>1, <2>2, <2>3 DEF c, b, x, e
<1>11. CASE e[k] = "blank"
  <2>1. ~ (k <= b) /\ (k <= 8 \/ k > 8 + x)
    <3>1. ASSUME k > 8, k <= 8 + x
          PROVE  FALSE
      <4>1. k - 8 \in 1 .. x /\ 8 + (k - 8) = k
        BY <1>4, <3>1
      <4>2. e[8 + (k - 8)] # "blank"
        BY <1>8, <4>1
      <4>. QED
        BY <1>11, <4>1, <4>2
    <3>2. ASSUME k <= b
          PROVE  FALSE
      <4>1. k \in 1 .. b
        BY <1>4, <3>2
      <4>. QED
        BY <1>8, <1>11, <4>1
    <3>. QED
      BY <1>4, <3>1, <3>2
  <2>2. q(k) = q(k - 1) /\ q(k) \in 0 .. n
    BY <1>4, <2>1 DEF Taken
  <2>3. w = <<>>
    BY <1>11 DEF Piece
  <2>. HIDE DEF q, w
  <2>4. Prefix(c, q(k)) \o w = Prefix(c, q(k))
    BY <1>9, <2>2, <2>3
  <2>. QED
    BY <2>2, <2>4 DEF c, b, x, e, q, w
<1>12. CASE k > b /\ e[k] # "blank" /\ k = 9
  <2>1. x > 0
    <3>1. x = 0 => 9 \in 8 + x + 1 .. 11
      OBVIOUS
    <3>. QED
      BY <1>2, <1>4, <1>12, <3>1
  <2>2. q(k - 1) = b /\ q(k) = b + 2 /\ b \in 0 .. n - 2
    BY <1>4, <1>12, <2>1 DEF Taken
  <2>3. 1 \in 1 .. x /\ b + 1 + 1 = b + 2 /\ 8 + 1 = 9
    BY <1>4, <2>1
  <2>4. c[b + 1] = "." /\ c[b + 1 + 1] = e[8 + 1]
    BY <1>7, <2>1, <2>3
  <2>5. w = <<c[b + 1], c[b + 2]>>
    BY <1>12, <2>3, <2>4 DEF Piece
  <2>6. Prefix(c, b) \o <<c[b + 1], c[b + 2]>> = Prefix(c, b + 2)
    BY <1>6, <2>2, PrefixJoinTwo
  <2>. QED
    BY <2>2, <2>5, <2>6 DEF c, b, x, e
<1>13. CASE k > b /\ e[k] # "blank" /\ k # 9
  <2>. DEFINE i == k - 8
  <2>1. i \in 1 .. x /\ i > 1
    <3>1. k \notin b + 1 .. 8 /\ k \notin 8 + x + 1 .. 11
      BY <1>2, <1>13
    <3>. QED
      BY <1>4, <1>13, <3>1
  <2>2. /\ q(k - 1) = b + i /\ q(k) = b + 1 + i
        /\ b + i \in 0 .. n - 1 /\ (b + i) + 1 = b + 1 + i /\ 8 + i = k
    BY <1>4, <1>13, <2>1 DEF Taken
  <2>. HIDE DEF i
  <2>3. c[b + 1 + i] = e[8 + i]
    BY <1>7, <2>1
  <2>4. w = <<c[b + 1 + i]>>
    BY <1>13, <2>2, <2>3 DEF Piece
  <2>5. Prefix(c, b + i) \o <<c[(b + i) + 1]>> = Prefix(c, (b + i) + 1)
    BY <1>6, <2>2, PrefixJoin
  <2>. QED
    BY <2>2, <2>4, <2>5 DEF c, b, x, e
<1>. QED
  BY <1>4, <1>10, <1>11, <1>12, <1>13

(* MakeFullPath() takes the directory and the entry of a path back to it.  *)
THEOREM MakePathUndoes ==
  ASSUME NEW p \in Paths
  PROVE  MakeFullPath(p.dir, Entry(p)) = PathText(p)
<1>. DEFINE c == Component(p)
            b == Len(p.base)
            x == Len(p.ext)
            e == Entry(p)
            n == Len(c)
            ss == [i \in 1 .. 11 |-> Piece(e, i)]
            h == [i \in 0 .. 11 |-> Prefix(c, Taken(b, x, i))]
<1>1. IsComponent(p, c, b, x)
  BY ComponentIs
<1>2. ASSUME NEW k \in 1 .. 11
      PROVE  Prefix(c, Taken(b, x, k - 1)) \o Piece(e, k) = Prefix(c, Taken(b, x, k))
  BY PieceStep
<1>3. e \in [1 .. 11 -> Char]
  BY EntryType
<1>. HIDE DEF c, b, x, e, n
<1>4. /\ b \in Int /\ 0 <= b /\ b <= 8 /\ x \in Int /\ 0 <= x /\ x <= 3
      /\ n = b + (IF x = 0 THEN 0 ELSE 1 + x) /\ n \in Int /\ n >= 0
  BY <1>1, ComponentSize DEF n
<1>5. \A k \in 1 .. 11 : Piece(e, k) \in Seq(Char)
  <2>. SUFFICES ASSUME NEW k \in 1 .. 11 PROVE Piece(e, k) \in Seq(Char)
    OBVIOUS
  <2>1. e[k] \in Char /\ "." \in Char
    BY <1>3 DEF Char
  <2>. QED
    BY <2>1 DEF Piece
<1>6. ss \in Seq(Seq(Char)) /\ Len(ss) = 11
  BY <1>5
<1>7. FlattenSteps(h, ss)
  <2>1. h[0] = <<>>
    <3>1. Taken(b, x, 0) = 0
      BY <1>4 DEF Taken
    <3>. QED
      BY <3>1 DEF Prefix
  <2>2. ASSUME NEW i \in 0 .. 10
        PROVE  h[i + 1] = h[i] \o ss[i + 1]
    <3>1. i + 1 \in 1 .. 11 /\ (i + 1) - 1 = i /\ i \in 0 .. 11 /\ i + 1 \in 0 .. 11
      OBVIOUS
    <3>2. Prefix(c, Taken(b, x, i)) \o Piece(e, i + 1) = Prefix(c, Taken(b, x, i + 1))
      BY <1>2, <3>1
    <3>3. /\ h[i] = Prefix(c, Taken(b, x, i)) /\ h[i + 1] = Prefix(c, Taken(b, x, i + 1))
          /\ ss[i + 1] = Piece(e, i + 1)
      BY <3>1
    <3>. HIDE DEF h, ss
    <3>. QED
      BY <3>2, <3>3
  <2>. HIDE DEF h, ss
  <2>3. Len(ss) - 1 = 10
    BY <1>6
  <2>. QED
    BY <2>1, <2>2, <2>3 DEF FlattenSteps
<1>8. FlattenSeq(ss) = h[11]
  <2>. HIDE DEF h, ss
  <2>. QED
    BY <1>6, <1>7, FlattenIs
<1>9. h[11] = Prefix(c, n)
  <2>1. Taken(b, x, 11) = n
    BY <1>4 DEF Taken
  <2>. QED
    BY <2>1
<1>10. Prefix(c, n) = c
  <2>1. c \in Seq(Char)
    BY <1>1 DEF IsComponent
  <2>2. c \in [1 .. n -> Char]
    BY <2>1, LenProperties DEF n
  <2>. QED
    BY <2>2 DEF Prefix
<1>11. MakeFullPath(p.dir, e) = p.dir \o <<"\\">> \o FlattenSeq(ss)
  BY DEF MakeFullPath
<1>. QED
  BY <1>8, <1>9, <1>10, <1>11 DEF PathText, c, e

-----------------------------------------------------------------------------
(* A mask and a name, part by part                                         *)

(* The part s as it stands in the w characters behind the first o.         *)
HoldsPart(e, o, w, s) ==
  /\ o \in Nat /\ w \in Nat /\ s \in Seq(Char) /\ Len(s) \in 0 .. w
  /\ \A k \in 1 .. Len(s) : e[o + k] = s[k] /\ s[k] # "blank"
  /\ \A k \in Len(s) + 1 .. w : e[o + k] = "blank"

LEMMA EntryParts ==
  ASSUME NEW p \in Paths
  PROVE  HoldsPart(Entry(p), 0, 8, p.base) /\ HoldsPart(Entry(p), 8, 3, p.ext)
<1>. DEFINE b == Len(p.base)
            x == Len(p.ext)
            e == Entry(p)
<1>1. /\ p.base \in Seq(Char) /\ b \in 0 .. 8 /\ p.ext \in Seq(Char) /\ x \in 0 .. 3
      /\ \A k \in 1 .. b : p.base[k] # "blank"
      /\ \A k \in 1 .. x : p.ext[k] # "blank"
  BY PathParts
<1>2. /\ \A i \in 1 .. b : e[i] = p.base[i]
      /\ \A i \in b + 1 .. 8 : e[i] = "blank"
      /\ \A i \in 1 .. x : e[8 + i] = p.ext[i]
      /\ \A i \in 8 + x + 1 .. 11 : e[i] = "blank"
  BY EntryIs
<1>. HIDE DEF b, x, e
<1>3. \A k \in 1 .. 8 : 0 + k = k
  OBVIOUS
<1>4. /\ \A k \in 1 .. b : e[0 + k] = p.base[k]
      /\ \A k \in b + 1 .. 8 : e[0 + k] = "blank"
      /\ \A k \in x + 1 .. 3 : e[8 + k] = "blank"
  BY <1>1, <1>2
<1>. QED
  BY <1>1, <1>2, <1>4 DEF HoldsPart, b, x, e

LEMMA PartSelects ==
  ASSUME NEW f, NEW e, NEW o, NEW w, NEW name, NEW mask,
         HoldsPart(f, o, w, name), HoldsPart(e, o, w, mask)
  PROVE  (\A k \in 1 .. w : f[o + k] = e[o + k] \/ e[o + k] = "?")
           <=> Selects(mask, name)
<1>. DEFINE m == Len(mask)
            n == Len(name)
            S == Selects(mask, name)
<1>1. /\ m \in 0 .. w /\ n \in 0 .. w /\ w \in Nat
      /\ \A k \in 1 .. m : e[o + k] = mask[k] /\ mask[k] # "blank"
      /\ \A k \in m + 1 .. w : e[o + k] = "blank"
      /\ \A k \in 1 .. n : f[o + k] = name[k] /\ name[k] # "blank"
      /\ \A k \in n + 1 .. w : f[o + k] = "blank"
  BY DEF HoldsPart
<1>2. S <=> /\ n <= m
            /\ \A k \in 1 .. m : mask[k] # "?" => k \in 1 .. n /\ name[k] = mask[k]
  <2>1. mask \in Seq(Char) /\ name \in Seq(Char)
    BY DEF HoldsPart
  <2>2. DOMAIN mask = 1 .. m /\ DOMAIN name = 1 .. n
    BY <2>1
  <2>. HIDE DEF m, n
  <2>3. S <=> /\ n <= m
              /\ \A k \in DOMAIN mask : mask[k] # "?" => k \in DOMAIN name /\ name[k] = mask[k]
    BY Zenon DEF Selects, S, m, n
  <2>. QED
    BY <2>2, <2>3
<1>. HIDE DEF m, n, S
<1>3. ASSUME \A k \in 1 .. w : f[o + k] = e[o + k] \/ e[o + k] = "?"
      PROVE  S
  <2>1. n <= m
    <3>. SUFFICES ASSUME m < n PROVE FALSE
      BY <1>1
    <3>1. m + 1 \in 1 .. n /\ m + 1 \in m + 1 .. w /\ m + 1 \in 1 .. w
      BY <1>1
    <3>2. e[o + (m + 1)] = "blank" /\ f[o + (m + 1)] # "blank"
      BY <1>1, <3>1
    <3>. QED
      BY <1>3, <3>1, <3>2
  <2>2. ASSUME NEW k \in 1 .. m, mask[k] # "?"
        PROVE  k \in 1 .. n /\ name[k] = mask[k]
    <3>1. k \in 1 .. w /\ e[o + k] = mask[k] /\ mask[k] # "blank"
      BY <1>1
    <3>2. f[o + k] = mask[k]
      BY <1>3, <2>2, <3>1
    <3>3. k \notin n + 1 .. w
      BY <1>1, <3>1, <3>2
    <3>4. k \in 1 .. n
      BY <1>1, <3>1, <3>3
    <3>. QED
      BY <1>1, <3>2, <3>4
  <2>. QED
    BY <1>2, <2>1, <2>2
<1>4. ASSUME S, NEW k \in 1 .. w
      PROVE  f[o + k] = e[o + k] \/ e[o + k] = "?"
  <2>1. CASE k <= m
    <3>1. k \in 1 .. m
      BY <1>1, <2>1
    <3>. QED
      BY <1>1, <1>2, <1>4, <3>1
  <2>2. CASE m < k
    <3>1. k \in m + 1 .. w /\ k \in n + 1 .. w
      BY <1>1, <1>2, <1>4, <2>2
    <3>. QED
      BY <1>1, <3>1
  <2>. QED
    BY <1>1, <2>1, <2>2
<1>. QED
  BY <1>3, <1>4 DEF S

LEMMA SamePart ==
  ASSUME NEW f, NEW e, NEW o, NEW w, NEW name, NEW mask,
         HoldsPart(f, o, w, name), HoldsPart(e, o, w, mask),
         \A k \in 1 .. w : f[o + k] = e[o + k]
  PROVE  name = mask
<1>. DEFINE m == Len(mask)
            n == Len(name)
<1>1. /\ m \in 0 .. w /\ n \in 0 .. w /\ w \in Nat
      /\ \A k \in 1 .. m : e[o + k] = mask[k] /\ mask[k] # "blank"
      /\ \A k \in m + 1 .. w : e[o + k] = "blank"
      /\ \A k \in 1 .. n : f[o + k] = name[k] /\ name[k] # "blank"
      /\ \A k \in n + 1 .. w : f[o + k] = "blank"
  BY DEF HoldsPart
<1>2. name \in Seq(Char) /\ mask \in Seq(Char)
  BY DEF HoldsPart
<1>3. m = n
  <2>. HIDE DEF m, n
  <2>1. ASSUME m < n PROVE FALSE
    <3>1. m + 1 \in 1 .. n /\ m + 1 \in m + 1 .. w /\ m + 1 \in 1 .. w
      BY <1>1, <2>1
    <3>. QED
      BY <1>1, <3>1
  <2>2. ASSUME n < m PROVE FALSE
    <3>1. n + 1 \in 1 .. m /\ n + 1 \in n + 1 .. w /\ n + 1 \in 1 .. w
      BY <1>1, <2>2
    <3>. QED
      BY <1>1, <3>1
  <2>. QED
    BY <1>1, <2>1, <2>2
<1>. HIDE DEF m, n
<1>4. \A k \in 1 .. n : name[k] = mask[k]
  BY <1>1, <1>3
<1>. QED
  BY <1>2, <1>3, <1>4, SeqEqual DEF m, n

(* MatchNameMask() on two entries selects as the parts do by themselves.   *)
THEOREM MatchIsByParts ==
  ASSUME NEW p \in Paths, NEW a \in Paths
  PROVE  /\ MatchNameMask(Entry(p), Entry(a))
               <=> Selects(a.base, p.base) /\ Selects(a.ext, p.ext)
         /\ (/\ MatchNameMask(Entry(p), Entry(a)) /\ ~ FcbNameHasWildCards(Entry(a))
             /\ p.dir = a.dir)
              => p = a
<1>. DEFINE f == Entry(p)
            e == Entry(a)
<1>1. HoldsPart(f, 0, 8, p.base) /\ HoldsPart(f, 8, 3, p.ext)
  BY EntryParts
<1>2. HoldsPart(e, 0, 8, a.base) /\ HoldsPart(e, 8, 3, a.ext)
  BY EntryParts
<1>. HIDE DEF f, e
<1>3. (\A k \in 1 .. 8 : f[0 + k] = e[0 + k] \/ e[0 + k] = "?") <=> Selects(a.base, p.base)
  BY <1>1, <1>2, PartSelects
<1>4. (\A k \in 1 .. 3 : f[8 + k] = e[8 + k] \/ e[8 + k] = "?") <=> Selects(a.ext, p.ext)
  BY <1>1, <1>2, PartSelects
<1>5. \A k \in 1 .. 11 : \/ k \in 1 .. 8 /\ 0 + k = k
                         \/ k - 8 \in 1 .. 3 /\ 8 + (k - 8) = k
  OBVIOUS
<1>6. /\ \A k \in 1 .. 8 : k \in 1 .. 11 /\ 0 + k = k
      /\ \A k \in 1 .. 3 : 8 + k \in 1 .. 11
  OBVIOUS
<1>7. MatchNameMask(f, e) <=> /\ \A k \in 1 .. 8 : f[0 + k] = e[0 + k] \/ e[0 + k] = "?"
                              /\ \A k \in 1 .. 3 : f[8 + k] = e[8 + k] \/ e[8 + k] = "?"
  BY <1>5, <1>6 DEF MatchNameMask
<1>8. ASSUME MatchNameMask(f, e), ~ FcbNameHasWildCards(e), p.dir = a.dir
      PROVE  p = a
  <2>1. \A i \in 1 .. 11 : f[i] = e[i]
    BY <1>8 DEF MatchNameMask, FcbNameHasWildCards
  <2>2. /\ \A k \in 1 .. 8 : f[0 + k] = e[0 + k]
        /\ \A k \in 1 .. 3 : f[8 + k] = e[8 + k]
    BY <1>6, <2>1
  <2>3. p.base = a.base
    BY <1>1, <1>2, <2>2, SamePart
  <2>4. p.ext = a.ext
    BY <1>1, <1>2, <2>2, SamePart
  <2>. QED
    BY <1>8, <2>3, <2>4, PathsAssumption
<1>9. MatchNameMask(f, e) <=> Selects(a.base, p.base) /\ Selects(a.ext, p.ext)
  BY <1>3, <1>4, <1>7
<1>. QED
  BY <1>8, <1>9 DEF f, e

-----------------------------------------------------------------------------
(* The code page                                                           *)

LEMMA TableSize == DOMAIN fpUnicodeTbl = 1 .. 128
BY DEF fpUnicodeTbl

(* lookupCP() finds the byte of a character that the code page has.        *)
LEMMA LookupIs ==
  ASSUME NEW cp
  PROVE  \/ lookupCP(cp) = 0 /\ cp \notin ToSet(fpUnicodeTbl)
         \/ /\ lookupCP(cp) \in 128 .. 255
            /\ fpUnicodeTbl[lookupCP(cp) - 127] = cp
<1>. DEFINE Hits == {i \in DOMAIN fpUnicodeTbl : fpUnicodeTbl[i] = cp}
            i == CHOOSE i \in Hits : \A j \in Hits : i <= j
<1>1. lookupCP(cp) = IF Hits = {} THEN 0 ELSE 127 + i
  BY DEF lookupCP
<1>2. CASE Hits = {}
  <2>1. cp \notin ToSet(fpUnicodeTbl)
    BY <1>2 DEF ToSet
  <2>. QED
    BY <1>1, <1>2, <2>1
<1>3. CASE Hits # {}
  <2>1. Hits \subseteq Nat
    BY TableSize
  <2>2. \E k \in Hits : \A j \in Hits : k <= j
    <3>. HIDE DEF Hits
    <3>. QED
      BY <1>3, <2>1, LeastElement
  <2>3. i \in Hits
    <3>. HIDE DEF Hits
    <3>. QED
      BY <2>2
  <2>4. i \in 1 .. 128 /\ fpUnicodeTbl[i] = cp
    BY <2>3, TableSize
  <2>. HIDE DEF i
  <2>5. (127 + i) - 127 = i /\ 127 + i \in 128 .. 255
    BY <2>4
  <2>. QED
    BY <1>1, <1>3, <2>4, <2>5
<1>. QED
  BY <1>2, <1>3

(* A turn of either conversion stores a byte, never a zero, that stands    *)
(* for the character, or an underscore for one the code page lacks.        *)
THEOREM ByteIsOfCharacter ==
  ASSUME NEW u \in 1 .. MaxCode
  PROVE  /\ LocalByte(u) \in 1 .. 255
         /\ \/ CharOf(LocalByte(u)) = u
            \/ LocalByte(u) = Underscore /\ u \notin ToSet(fpUnicodeTbl)
         /\ IsReplaced(u) <=> u > 127 /\ LocalByte(u) = Underscore
<1>1. CASE u < 128
  <2>1. LocalByte(u) = u /\ ~ IsReplaced(u)
    BY <1>1 DEF LocalByte, IsReplaced
  <2>2. CharOf(u) = u
    BY <1>1 DEF CharOf
  <2>. QED
    BY <1>1, <2>1, <2>2
<1>2. CASE u >= 128 /\ lookupCP(u) = 0
  <2>1. LocalByte(u) = Underscore /\ IsReplaced(u) /\ Underscore \in 1 .. 255
    BY <1>2 DEF LocalByte, IsReplaced, Underscore
  <2>2. u \notin ToSet(fpUnicodeTbl)
    <3>1. lookupCP(u) \in 128 .. 255 => lookupCP(u) # 0
      OBVIOUS
    <3>. QED
      BY <1>2, <3>1, LookupIs
  <2>. QED
    BY <1>2, <2>1, <2>2
<1>3. CASE u >= 128 /\ lookupCP(u) # 0
  <2>. DEFINE l == lookupCP(u)
  <2>1. l \in 128 .. 255 /\ fpUnicodeTbl[l - 127] = u
    BY <1>3, LookupIs
  <2>2. LocalByte(u) = l /\ ~ IsReplaced(u)
    BY <1>3 DEF LocalByte, IsReplaced
  <2>. HIDE DEF l
  <2>3. CharOf(l) = u /\ l # Underscore
    BY <2>1 DEF CharOf, Underscore
  <2>. QED
    BY <2>1, <2>2, <2>3
<1>. QED
  BY <1>1, <1>2, <1>3

(* The bytes of a label fill its field.                                    *)
LEMMA LabelBytes ==
  ASSUME NEW l \in Labels, NEW n \in 0 .. 11
  PROVE  /\ cp_ucs2_to_local(l, n) \in [1 .. n -> 1 .. 255]
         /\ \A i \in 1 .. n : /\ l[i] \in 1 .. MaxCode
                              /\ cp_ucs2_to_local(l, n)[i] = LocalByte(l[i])
<1>0. l \in [1 .. 11 -> 1 .. MaxCode]
  BY LabelsAssumption
<1>1. ASSUME NEW i \in 1 .. n
      PROVE  l[i] \in 1 .. MaxCode
  BY <1>0
<1>2. ASSUME NEW i \in 1 .. n
      PROVE  LocalByte(l[i]) \in 1 .. 255
  <2>1. l[i] \in 1 .. MaxCode
    BY <1>1
  <2>. QED
    BY <2>1, ByteIsOfCharacter
<1>3. cp_ucs2_to_local(l, n) = [i \in 1 .. n |-> LocalByte(l[i])]
  BY DEF cp_ucs2_to_local
<1>4. cp_ucs2_to_local(l, n) \in [1 .. n -> 1 .. 255]
  BY <1>2, <1>3
<1>5. \A i \in 1 .. n : cp_ucs2_to_local(l, n)[i] = LocalByte(l[i])
  BY <1>3
<1>. QED
  BY <1>1, <1>4, <1>5

(* ucs2_to_local() stores a C string of as many characters where it has    *)
(* the room, and its result is 0 exactly if the text can be read back.     *)
ReadableBack(l, n, buflen) ==
  LET c == ucs2_to_local(l, n, buflen) IN
  /\ Len(c.out) = n + 1
  /\ \A i \in 1 .. n + 1 : c.out[i] = 0 <=> i = n + 1
  /\ c.ret = 0 <=> \A i \in 1 .. n : CharOf(c.out[i]) = l[i]

THEOREM ConversionReportsLoss ==
  ASSUME NEW l \in Labels, NEW n \in 0 .. 11, NEW buflen \in Nat, n < buflen
  PROVE  ReadableBack(l, n, buflen)
<1>. DEFINE cs == cp_ucs2_to_local(l, n)
            r == ucs2_to_local(l, n, buflen)
            out == Append(cs, 0)
<1>1. ~ (n # 0 /\ Refuses(n, buflen))
  BY DEF Refuses
<1>2. /\ r.out = out
      /\ r.ret = IF \E i \in 1 .. n : IsReplaced(l[i]) THEN 1 ELSE 0
  BY <1>1 DEF ucs2_to_local
<1>3. /\ cs \in [1 .. n -> 1 .. 255]
      /\ \A i \in 1 .. n : l[i] \in 1 .. MaxCode /\ cs[i] = LocalByte(l[i])
  BY Zenon, LabelBytes
<1>. HIDE DEF cs, r
<1>4. cs \in Seq(0 .. 255) /\ Len(cs) = n /\ \A i \in 1 .. n : cs[i] # 0
  <2>1. \A i \in 1 .. n : cs[i] \in 1 .. 255
    BY <1>3
  <2>2. cs \in [1 .. n -> 0 .. 255] /\ n \in Nat
    BY <1>3, <2>1
  <2>3. cs \in Seq(0 .. 255) /\ Len(cs) = n
    BY <2>2
  <2>4. ASSUME NEW i \in 1 .. n
        PROVE  cs[i] # 0
    <3>1. cs[i] \in 1 .. 255
      BY <2>1
    <3>. QED
      BY <3>1
  <2>. QED
    BY <2>3, <2>4
<1>5. /\ Len(out) = n + 1 /\ out[n + 1] = 0
      /\ \A i \in 1 .. n : out[i] = cs[i]
  BY <1>4, AppendProperties, 0 \in 0 .. 255
<1>. HIDE DEF out
<1>6. \A i \in 1 .. n + 1 : out[i] = 0 <=> i = n + 1
  <2>1. \A i \in 1 .. n + 1 : i = n + 1 \/ i \in 1 .. n
    OBVIOUS
  <2>2. \A i \in 1 .. n : i # n + 1
    OBVIOUS
  <2>. QED
    BY <1>4, <1>5, <2>1, <2>2
<1>7. ASSUME NEW i \in 1 .. n
      PROVE  IsReplaced(l[i]) <=> CharOf(out[i]) # l[i]
  <2>. DEFINE u == l[i]
              b == LocalByte(u)
  <2>1. u \in 1 .. MaxCode /\ out[i] = b
    BY <1>3, <1>5
  <2>. HIDE DEF u
  <2>2. IsReplaced(u) <=> u > 127 /\ b = Underscore
    BY <2>1, ByteIsOfCharacter
  <2>3. CharOf(b) = u \/ (b = Underscore /\ u \notin ToSet(fpUnicodeTbl))
    BY <2>1, ByteIsOfCharacter
  <2>4. CharOf(Underscore) = 95
    BY DEF CharOf, Underscore
  <2>5. b = Underscore /\ u <= 127 => u = 95
    <3>1. SUFFICES ASSUME u <= 127, b = Underscore PROVE u = 95
      OBVIOUS
    <3>2. b = u
      <4>1. u < 128
        BY <2>1, <3>1 DEF MaxCode
      <4>. QED
        BY <4>1 DEF LocalByte
    <3>. QED
      BY <3>1, <3>2 DEF Underscore
  <2>6. u \in Int /\ MaxCode \in Int
    BY <2>1 DEF MaxCode
  <2>. HIDE DEF b
  <2>. QED
    BY <2>1, <2>2, <2>3, <2>4, <2>5, <2>6 DEF u
<1>8. r.ret = 0 <=> \A i \in 1 .. n : CharOf(out[i]) = l[i]
  <2>1. r.ret = 0 <=> ~ \E i \in 1 .. n : IsReplaced(l[i])
    BY <1>2
  <2>. QED
    BY <1>7, <2>1
<1>. QED
  BY <1>2, <1>5, <1>6, <1>8 DEF r, ReadableBack

-----------------------------------------------------------------------------
(* The invariants                                                          *)

(* What each stage of a call has to keep for the next.                     *)
IInv ==
  /\ asked \in Paths \cup {None} /\ searched \in Paths \cup {None}
  /\ pc \in {"idle", "claim", "label"}
  /\ pc # "idle" => asked \in Paths /\ fileName1 = PathText(asked)
  /\ \E p \in Paths \cup {None} : fcbName1 = Entry(p)
  /\ pc = "label" => fcbName1 = Entry(asked)
  /\ searchMask = Entry(searched)
  /\ ucs2label \in Labels
  /\ fdbName \in [1 .. FcbLen -> 0 .. 255]
  /\ searched # None => fdbName = cp_ucs2_to_local(ucs2label, FcbLen)

LEMMA NoneIsNoPath == None \notin Paths
BY PathsAssumption DEF None

LEMMA EntryOfNone == Entry(None) = Blanks(FcbLen) /\ Entry(None) \in [1 .. FcbLen -> Char]
<1>1. Entry(None) = Blanks(11)
  BY DEF Entry, None, Blanks
<1>. QED
  BY <1>1 DEF Blanks, Char

LEMMA EntryLen ==
  ASSUME NEW p \in Paths \cup {None}
  PROVE  Entry(p) \in [1 .. FcbLen -> Char]
BY EntryType, EntryOfNone

LEMMA InitIInv == Init => IInv
<1>. SUFFICES ASSUME Init PROVE IInv
  OBVIOUS
<1>1. \E p \in Paths \cup {None} : fcbName1 = Entry(p)
  BY EntryOfNone DEF Init
<1>2. searchMask = Entry(searched)
  BY EntryOfNone DEF Init
<1>3. fdbName \in [1 .. 11 -> 0 .. 255]
  BY DEF Init
<1>. QED
  BY <1>1, <1>2, <1>3 DEF Init, IInv

LEMMA DosCallsKeepsIInv == IInv /\ DosCalls => IInv'
BY DEF IInv, DosCalls

LEMMA ClaimKeepsIInv == IInv /\ Claim => IInv'
<1>. SUFFICES ASSUME IInv, Claim PROVE IInv'
  OBVIOUS
<1>1. asked \in Paths /\ fileName1 = PathText(asked)
  BY DEF IInv, Claim
<1>2. fcbName1' = Entry(asked)
  BY <1>1, FillMakesEntry DEF Claim
<1>. QED
  BY <1>1, <1>2 DEF IInv, Claim

(* All eleven bytes are copied.                                            *)
LEMMA CopyIs ==
  ASSUME NEW d \in [1 .. FcbLen -> Char], NEW s \in [1 .. FcbLen -> Char]
  PROVE  fmemcpy(d, s, FcbLen) = s
<1>1. BytesMoved(11) = 11
  BY DEF BytesMoved
<1>. QED
  BY <1>1 DEF fmemcpy

LEMMA FindFirstKeepsIInv == IInv /\ FindFirst => IInv'
<1>. SUFFICES ASSUME IInv, FindFirst PROVE IInv'
  OBVIOUS
<1>1. asked \in Paths /\ fcbName1 = Entry(asked) /\ searchMask = Entry(searched)
  BY DEF IInv, FindFirst
<1>2. searchMask' = Entry(asked)
  <2>1. searchMask \in [1 .. 11 -> Char] /\ fcbName1 \in [1 .. 11 -> Char]
    BY <1>1, EntryLen DEF IInv
  <2>. QED
    BY <1>1, <2>1, CopyIs DEF FindFirst
<1>3. cp_ucs2_to_local(ucs2label, 11) \in [1 .. 11 -> 0 .. 255]
  <2>1. ucs2label \in Labels
    BY DEF IInv
  <2>2. cp_ucs2_to_local(ucs2label, 11) \in [1 .. 11 -> 1 .. 255]
    BY <2>1, LabelBytes, 11 \in 0 .. 11
  <2>. QED
    BY <2>2
<1>. QED
  BY <1>1, <1>2, <1>3 DEF IInv, FindFirst

LEMMA StutterKeepsIInv == IInv /\ UNCHANGED vars => IInv'
BY DEF IInv, vars

THEOREM Invariance == Spec => []IInv
<1>1. IInv /\ [Next]_vars => IInv'
  BY DosCallsKeepsIInv, ClaimKeepsIInv, FindFirstKeepsIInv, StutterKeepsIInv DEF Next
<1>. QED
  BY InitIInv, <1>1, PTL DEF Spec

(* The fields of the swappable data area and of the search block are never *)
(* overrun: what the functions store has the length of the fields.         *)
THEOREM TypeCorrect == Spec => []TypeOK
<1>1. IInv => TypeOK
  <2>. SUFFICES ASSUME IInv PROVE TypeOK
    OBVIOUS
  <2>1. fcbName1 \in [1 .. 11 -> Char] /\ searchMask \in [1 .. 11 -> Char]
    BY EntryLen DEF IInv
  <2>2. fdbName \in [1 .. 11 -> 0 .. 255]
    BY DEF IInv
  <2>3. Len(fcbName1) = 11 /\ Len(searchMask) = 11 /\ Len(fdbName) = 11
    BY <2>1, <2>2, 11 \in Nat
  <2>4. ToSet(fdbName) \subseteq 0 .. 255
    BY <2>2 DEF ToSet
  <2>. QED
    BY <2>3, <2>4 DEF IInv, TypeOK
<1>. QED
  BY Invariance, <1>1, PTL

(* IsCallForUs() leaves the entry of the name asked about to the search,   *)
(* and the search block keeps that of the name it was filled in for.       *)
THEOREM MaskCorrect == Spec => []MaskIsOfSearch
<1>1. IInv => MaskIsOfSearch
  BY DEF IInv, MaskIsOfSearch
<1>. QED
  BY Invariance, <1>1, PTL

(* MakeFullPath() undoes FillFcbName() for the name of every call.         *)
THEOREM PathCorrect == Spec => []PathComesBack
<1>1. IInv => PathComesBack
  <2>. SUFFICES ASSUME IInv, pc = "label" PROVE MakeFullPath(asked.dir, fcbName1) = fileName1
    BY DEF PathComesBack
  <2>. QED
    BY MakePathUndoes DEF IInv
<1>. QED
  BY Invariance, <1>1, PTL

(* MatchNameMask() with the mask of a call selects, among the entries of   *)
(* its directory, those whose parts the parts of the mask select.          *)
THEOREM MatchCorrect == Spec => []MaskSelectsByParts
<1>1. IInv => MaskSelectsByParts
  <2>. SUFFICES ASSUME IInv, pc = "label", NEW p \in Paths, p.dir = asked.dir
                PROVE  /\ MatchNameMask(Entry(p), fcbName1)
                             <=> Selects(asked.base, p.base) /\ Selects(asked.ext, p.ext)
                       /\ (/\ MatchNameMask(Entry(p), fcbName1)
                           /\ ~ FcbNameHasWildCards(fcbName1))
                            => p = asked
    BY DEF MaskSelectsByParts
  <2>1. asked \in Paths /\ fcbName1 = Entry(asked)
    BY DEF IInv
  <2>. QED
    BY <2>1, MatchIsByParts
<1>. QED
  BY Invariance, <1>1, PTL

(* The bytes of the found entry stand for the characters of the label.     *)
THEOREM LabelCorrect == Spec => []LabelReadable
<1>1. IInv => LabelReadable
  <2>. SUFFICES ASSUME IInv, searched # None, NEW i \in 1 .. 11
                PROVE  \/ CharOf(fdbName[i]) = ucs2label[i]
                       \/ /\ fdbName[i] = Underscore
                          /\ ucs2label[i] \notin ToSet(fpUnicodeTbl)
    BY DEF LabelReadable
  <2>1. ucs2label \in Labels /\ fdbName = cp_ucs2_to_local(ucs2label, 11)
    BY DEF IInv
  <2>2. ucs2label[i] \in 1 .. MaxCode /\ fdbName[i] = LocalByte(ucs2label[i])
    BY <2>1, LabelBytes, 11 \in 0 .. 11
  <2>. QED
    BY <2>2, ByteIsOfCharacter
<1>. QED
  BY Invariance, <1>1, PTL

(* Converting any label with ucs2_to_local() into a buffer with room for   *)
(* it reports a loss exactly if there is one.                              *)
THEOREM LossCorrect == Spec => []LossIsReported
<1>1. IInv => LossIsReported
  <2>1. ASSUME IInv, NEW len \in 0 .. 11, NEW buflen \in len + 1 .. 12
        PROVE  ReadableBack(ucs2label, len, buflen)
    <3>1. ucs2label \in Labels
      BY <2>1 DEF IInv
    <3>2. buflen \in Nat /\ len < buflen
      OBVIOUS
    <3>. QED
      BY <3>1, <3>2, ConversionReportsLoss
  <2>2. 11 + 1 = 12
    OBVIOUS
  <2>. QED
    BY Zenon, <2>1, <2>2 DEF LossIsReported, ReadableBack
<1>. QED
  BY Invariance, <1>1, PTL

=============================================================================
