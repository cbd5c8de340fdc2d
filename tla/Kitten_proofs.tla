---------------------------- MODULE Kitten_proofs ----------------------------
(***************************************************************************)
(* Theorems about kitten.c, for every size of the buffer and the table,    *)
(* every set of files, lines that no catalogue should have included, and   *)
(* every NLSPATH.                                                          *)
(***************************************************************************)
EXTENDS Kitten, Induction, FiniteSetTheorems

(* Two zeros stand behind the text, and what is stored goes in front of    *)
(* them; decoding in place, the store is never ahead of the look.          *)
BufferInv ==
  /\ DOMAIN mem = -1 .. LastByte
  /\ mem[LastByte] = NUL /\ mem[LastByte - 1] = NUL
  /\ where \in Nat /\ next \in Nat
  /\ pc = "escape" => /\ src \in Nat /\ dst \in Nat
                      /\ dst <= src /\ src <= LastByte

HandleInv ==
  /\ pc \in {"open", "search", "lines", "escape", "ready", "corrupt"}
  /\ handles \in Nat /\ rejected \in Nat
  /\ HandlesAccounted

LEMMA BufferBounds == LastByte \in Nat /\ LastByte >= 2
BY KittenAssumption DEF LastByte

-----------------------------------------------------------------------------
(* Facts about the helpers                                                 *)

(* The minimum of a set of natural numbers is one of them, and the least.  *)
LEMMA MinFact ==
  ASSUME NEW S, S \subseteq Nat, S # {}
  PROVE  Min(S) \in S /\ \A y \in S : Min(S) <= y
<1>1. PICK x \in S : \A y \in S : ~ (<<y, x>> \in OpToRel(<, Nat))
  BY NatLessThanWellFounded, WFMin
<1>2. \A y \in S : x <= y
  <2>. SUFFICES ASSUME NEW y \in S PROVE ~ (y < x)
    OBVIOUS
  <2>1. <<y, x>> \notin OpToRel(<, Nat)
    BY <1>1
  <2>. QED
    BY <2>1 DEF OpToRel
<1>. QED
  BY <1>2 DEF Min

(* The colon of a line is in the line, or is the line feed behind it.      *)
LEMMA ColonInLine ==
  ASSUME where \in Nat, NEW lf \in where .. LastByte
  PROVE  Colon(lf) \in where .. lf
<1>. DEFINE S == {a \in where .. lf : mem[a] = COLON} \cup {lf}
<1>1. lf \in where .. lf /\ where .. lf \subseteq Nat
  BY BufferBounds
<1>2. S \subseteq where .. lf /\ S # {}
  BY <1>1
<1>3. Min(S) \in S
  BY <1>1, <1>2, MinFact
<1>. QED
  BY <1>2, <1>3 DEF Colon

(* A number is read only from digits, so not across the end of a text.     *)
LEMMA NumberOfDigits ==
  ASSUME NEW s, NEW base \in {8, 16}, Number(s, base) >= 0
  PROVE  \A i \in DOMAIN s : s[i] # NUL
<1>. SUFFICES ASSUME NEW i \in DOMAIN s, s[i] = NUL PROVE FALSE
  OBVIOUS
<1>1. DigitOf(s[i]) = 99
  BY DEF DigitOf, NUL
<1>2. \E j \in DOMAIN s : DigitOf(s[j]) >= base
  BY <1>1
<1>3. Number(s, base) = -1
  BY <1>2, Zenon DEF Number
<1>. QED
  BY <1>3

(* Where a character stands, there is room for a letter and its next.      *)
LEMMA CharacterInside ==
  ASSUME BufferInv, pc = "escape", mem[src] # NUL
  PROVE  src <= LastByte - 2
BY BufferBounds DEF BufferInv

(* A store in front of the zeros leaves them alone.                        *)
LEMMA StoreFact ==
  ASSUME BufferInv, InText, NEW c, Store(c)
  PROVE  /\ DOMAIN mem' = -1 .. LastByte
         /\ mem'[LastByte] = NUL /\ mem'[LastByte - 1] = NUL
         /\ dst' = dst + 1
         /\ \A a \in src + 1 .. LastByte : mem'[a] = mem[a]
<1>1. dst \in Nat /\ src \in Nat /\ dst <= src /\ src <= LastByte - 2
  BY CharacterInside DEF InText, BufferInv
<1>2. mem' = [mem EXCEPT ![dst] = c] /\ dst' = dst + 1
  BY DEF Store
<1>3. \A a \in DOMAIN mem : a # dst => mem'[a] = mem[a]
  BY <1>2
<1>. QED
  BY <1>1, <1>2, <1>3, BufferBounds DEF BufferInv

(* Each escape ends in the buffer, behind where it begins.                 *)
LEMMA EscapeFact ==
  ASSUME BufferInv, EscapeNothing \/ EscapeLetter \/ EscapeNumber
  PROVE  /\ src' \in Nat /\ src' > src /\ src' <= LastByte
         /\ InText /\ \E c : Store(c)
<1>1. CASE EscapeNothing
  BY <1>1, CharacterInside, BufferBounds DEF EscapeNothing, InText, BufferInv
<1>2. CASE EscapeLetter
  BY <1>2, CharacterInside, BufferBounds DEF EscapeLetter, InText, BufferInv
<1>3. CASE EscapeNumber
  <2>. DEFINE size  == IF mem[src + 1] = HEX THEN 2 ELSE 3
              base  == IF mem[src + 1] = HEX THEN 16 ELSE 8
              value == Number(Chars(src + 2, size), base)
  <2>1. src \in Nat /\ src <= LastByte - 2 /\ InText /\ size \in {2, 3} /\ base \in {8, 16}
    BY <1>3, CharacterInside DEF EscapeNumber, InText, BufferInv
  <2>2. \/ value >= 0 /\ Store(value % 256) /\ src' = src + 2 + size
        \/ value < 0  /\ StoreLoose(mem[src + 2]) /\ src' = src + 2
    BY <1>3 DEF EscapeNumber
  <2>3. CASE value < 0 /\ StoreLoose(mem[src + 2]) /\ src' = src + 2
    BY <2>1, <2>3, BufferBounds DEF StoreLoose
  <2>4. CASE value >= 0 /\ Store(value % 256) /\ src' = src + 2 + size
    <3>. DEFINE s == Chars(src + 2, size)
    <3>1. \A i \in DOMAIN s : s[i] # NUL
      BY <2>1, <2>4, NumberOfDigits
    <3>2. size \in DOMAIN s /\ s[size] = IF src + size + 1 > LastByte THEN NUL
                                         ELSE mem[src + size + 1]
      BY <2>1 DEF Chars
    <3>3. src + size + 1 <= LastByte
      BY <3>1, <3>2, <2>1, BufferBounds
    <3>4. src + size + 1 # LastByte
      BY <3>1, <3>2, <3>3, BufferBounds DEF BufferInv
    <3>. QED
      BY <2>1, <2>4, <3>3, <3>4, BufferBounds
  <2>. QED
    BY <2>2, <2>3, <2>4
<1>. QED
  BY <1>1, <1>2, <1>3

-----------------------------------------------------------------------------
(* The buffer                                                              *)

LEMMA InitBuffer == Init => BufferInv
BY BufferBounds DEF Init, BufferInv

LEMMA ReadFileBuffer ==
  ASSUME BufferInv, ReadFile
  PROVE  BufferInv'
<1>1. PICK f \in RightSize :
        mem' = [a \in -1 .. LastByte |->
                  CASE a = -1                       -> mem[-1]
                    [] a \in 0 .. Len(Bytes[f]) - 1 -> Bytes[f][a + 1]
                    [] OTHER                        -> NUL]
  BY DEF ReadFile
<1>. DEFINE n == Len(Bytes[f])
<1>2. n \in 1 .. LastByte - 1
  BY DEF RightSize
<1>. HIDE DEF n
<1>3. /\ LastByte \in -1 .. LastByte /\ LastByte # -1
      /\ LastByte \notin 0 .. n - 1
      /\ LastByte - 1 \in -1 .. LastByte /\ LastByte - 1 # -1
      /\ LastByte - 1 \notin 0 .. n - 1
  BY <1>2, BufferBounds
<1>4. mem'[LastByte] = NUL /\ mem'[LastByte - 1] = NUL /\ DOMAIN mem' = -1 .. LastByte
  BY <1>1, <1>3 DEF n
<1>. QED
  BY <1>4 DEF ReadFile, BufferInv, escVars

(* Cutting a line stores zeros only.                                       *)
LEMMA CutBuffer ==
  ASSUME BufferInv, NEW lf, Cut(lf)
  PROVE  /\ DOMAIN mem' = -1 .. LastByte
         /\ mem'[LastByte] = NUL /\ mem'[LastByte - 1] = NUL
BY BufferBounds DEF BufferInv, Cut

LEMMA SkipLineBuffer ==
  ASSUME BufferInv, SkipLine
  PROVE  BufferInv'
<1>1. PICK lf \in LineFeed : Cut(lf) /\ where' = lf + 1
  BY DEF SkipLine
<1>2. lf \in Nat
  BY BufferBounds DEF LineFeed, BufferInv
<1>. QED
  BY <1>1, <1>2, CutBuffer DEF SkipLine, BufferInv, escVars

LEMMA ReadLineBuffer ==
  ASSUME BufferInv, ReadLine
  PROVE  BufferInv'
<1>1. PICK lf \in LineFeed :
        /\ HasKeys(lf) /\ Cut(lf) /\ next' = lf + 1
        /\ src' = Colon(lf) + 1 /\ dst' = Colon(lf) + 1
  BY DEF ReadLine
<1>2. lf \in where .. LastByte /\ where \in Nat /\ lf \in Nat
  BY BufferBounds DEF LineFeed, BufferInv
<1>3. Colon(lf) \in where .. lf /\ Colon(lf) < lf
  BY <1>1, <1>2, ColonInLine DEF HasKeys, HasDot, HasColon
<1>. QED
  BY <1>1, <1>2, <1>3, CutBuffer, BufferBounds DEF ReadLine, BufferInv

LEMMA EscapeBuffer ==
  ASSUME BufferInv, EscapeNothing \/ EscapeLetter \/ EscapeNumber
  PROVE  BufferInv'
<1>1. src' \in Nat /\ src' > src /\ src' <= LastByte /\ InText
  BY EscapeFact
<1>2. PICK c : Store(c)
  BY EscapeFact
<1>3. /\ DOMAIN mem' = -1 .. LastByte
      /\ mem'[LastByte] = NUL /\ mem'[LastByte - 1] = NUL /\ dst' = dst + 1
  BY <1>1, <1>2, StoreFact
<1>4. src \in Nat /\ dst \in Nat /\ dst <= src
  BY <1>1 DEF InText, BufferInv
<1>5. UNCHANGED <<where, next>>
  BY DEF EscapeNothing, EscapeLetter, EscapeNumber
<1>. QED
  BY <1>1, <1>3, <1>4, <1>5 DEF BufferInv

LEMMA EscapeEndBuffer ==
  ASSUME BufferInv, EscapeEnd
  PROVE  BufferInv'
BY BufferBounds DEF BufferInv, EscapeEnd, escVars

LEMMA BufferStep == BufferInv /\ [Next]_vars => BufferInv'
<1>. SUFFICES ASSUME BufferInv, [Next]_vars PROVE BufferInv'
  OBVIOUS
<1>1. CASE NoLanguage \/ StartSearch \/ EndSearch \/ NoSuchFile \/ RejectFile \/ EndOfFile
  BY <1>1 DEF NoLanguage, StartSearch, EndSearch, NoSuchFile, RejectFile, EndOfFile,
              Candidate, Return, BufferInv, escVars
<1>2. CASE ReadFile
  BY <1>2, ReadFileBuffer
<1>3. CASE SkipLine
  BY <1>3, SkipLineBuffer
<1>4. CASE ReadLine
  BY <1>4, ReadLineBuffer
<1>5. CASE EscapeNothing \/ EscapeLetter \/ EscapeNumber
  BY <1>5, EscapeBuffer
<1>6. CASE EscapeEnd
  BY <1>6, EscapeEndBuffer
<1>7. CASE UNCHANGED vars
  BY <1>7 DEF vars, escVars, BufferInv
<1>. QED
  BY <1>1, <1>2, <1>3, <1>4, <1>5, <1>6, <1>7 DEF Next

LEMMA BufferStays == BufferInv => StaysInBuffer
BY BufferBounds DEF BufferInv, StaysInBuffer, NUL, SLASH

(* The decoder stays inside catcontents[] for every file that catread()    *)
(* accepts, whatever escapes are cut short in it and wherever it runs past *)
(* the end of a line: the two zeros behind the text stop it.               *)
THEOREM BufferCorrect == Spec => []StaysInBuffer
<1>. QED
  BY InitBuffer, BufferStep, BufferStays, PTL DEF Spec

(* Decoding in place never overwrites a character not read yet, for every  *)
(* text.                                                                   *)
THEOREM UnreadCorrect == Spec => UnreadTextKept
<1>. DEFINE Step == pc = "escape" /\ pc' = "escape" =>
                      \A a \in src' .. LastByte : mem'[a] = mem[a]
<1>1. BufferInv /\ [Next]_vars => [Step]_vars
  <2>. SUFFICES ASSUME BufferInv, Next, pc = "escape", pc' = "escape",
                       NEW a \in src' .. LastByte
                PROVE  mem'[a] = mem[a]
    BY DEF Step
  <2>1. EscapeNothing \/ EscapeLetter \/ EscapeNumber
    BY DEF Next, NoLanguage, StartSearch, EndSearch, NoSuchFile, RejectFile, ReadFile,
           EndOfFile, SkipLine, ReadLine, EscapeEnd, Candidate, Return
  <2>2. src' \in Nat /\ src' > src /\ InText /\ src \in Nat
    BY <2>1, EscapeFact DEF InText, BufferInv
  <2>3. PICK c : Store(c)
    BY <2>1, EscapeFact
  <2>4. a \in src + 1 .. LastByte
    BY <2>2, BufferBounds
  <2>. QED
    BY <2>2, <2>3, <2>4, StoreFact
<1>. QED
  BY <1>1, InitBuffer, BufferStep, PTL DEF Spec, UnreadTextKept

-----------------------------------------------------------------------------
(* The handles                                                             *)

LEMMA InitHandles == Init => HandleInv
BY DEF Init, HandleInv, HandlesAccounted

LEMMA HandlesStep == HandleInv /\ [Next]_vars => HandleInv'
<1>. SUFFICES ASSUME HandleInv, [Next]_vars PROVE HandleInv'
  OBVIOUS
<1>. USE DEF HandleInv, HandlesAccounted
<1>1. CASE NoLanguage \/ StartSearch \/ EndSearch
  BY <1>1 DEF NoLanguage, StartSearch, EndSearch, Return, openVars
<1>2. CASE NoSuchFile
  BY <1>2 DEF NoSuchFile, Candidate
<1>3. CASE RejectFile
  BY <1>3 DEF RejectFile, Candidate
<1>4. CASE ReadFile
  BY <1>4 DEF ReadFile, Candidate
<1>5. CASE EndOfFile
  BY <1>5 DEF EndOfFile, Return
<1>6. CASE SkipLine
  BY <1>6 DEF SkipLine, openVars
<1>7. CASE ReadLine
  BY <1>7 DEF ReadLine, openVars
<1>8. CASE EscapeNothing \/ EscapeLetter \/ EscapeNumber \/ EscapeEnd
  BY <1>8 DEF EscapeNothing, EscapeLetter, EscapeNumber, EscapeEnd, InText, openVars
<1>9. CASE UNCHANGED vars
  BY <1>9 DEF vars, openVars
<1>. QED
  BY <1>1, <1>2, <1>3, <1>4, <1>5, <1>6, <1>7, <1>8, <1>9 DEF Next

(* Only the handles of files of a wrong size stay open, however many of    *)
(* them lie along NLSPATH and wherever the search ends.                    *)
THEOREM HandlesCorrect == Spec => []HandlesAccounted
<1>1. HandleInv => HandlesAccounted
  BY DEF HandleInv
<1>. QED
  BY <1>1, InitHandles, HandlesStep, PTL DEF Spec

-----------------------------------------------------------------------------
(* Types                                                                   *)

LEMMA DigitType == \A c : DigitOf(c) \in Nat
<1>. SUFFICES ASSUME NEW c PROVE DigitOf(c) \in Nat
  OBVIOUS
<1>1. CASE c \in 48 .. 57
  BY <1>1 DEF DigitOf
<1>2. CASE c \in 65 .. 90
  BY <1>2 DEF DigitOf
<1>3. CASE c \in 97 .. 122
  BY <1>3 DEF DigitOf
<1>4. CASE c \notin 48 .. 57 /\ c \notin 65 .. 90 /\ c \notin 97 .. 122
  BY <1>4 DEF DigitOf
<1>. QED
  BY <1>1, <1>2, <1>3, <1>4

(* What a number is read by: digit after digit.                            *)
ValueSteps(v, s, base) ==
  v[0] = 0 /\ \A n \in 0 .. Len(s) - 1 : v[n + 1] = v[n] * base + DigitOf(s[n + 1])

LEMMA ValueExists ==
  ASSUME NEW s, Len(s) \in Nat, NEW base \in Nat
  PROVE  \E v \in [0 .. Len(s) -> Nat] :
           ValueSteps(v, s, base) /\ Value(s, base) = v[Len(s)]
<1>. DEFINE N == Len(s)
            D == 0 .. N
            C == Nat
            S == [D -> C]
            Body(g) == [n \in D |-> IF n = 0 THEN 0 ELSE g[n - 1] * base + DigitOf(s[n])]
            F == [g \in S |-> Body(g)]
            rank == [n \in D |-> n]
            v == CHOOSE v : v = Body(v)
<1>1. Value(s, base) = v[N]
  BY DEF Value
<1>2. ASSUME NEW g \in S PROVE Body(g) \in S
  <2>. SUFFICES ASSUME NEW n \in D, n # 0 PROVE g[n - 1] * base + DigitOf(s[n]) \in Nat
    OBVIOUS
  <2>1. n - 1 \in D
    OBVIOUS
  <2>2. g[n - 1] \in Nat /\ DigitOf(s[n]) \in Nat
    BY <2>1, DigitType
  <2>. QED
    BY <2>2
<1>3. F \in [S -> S]
  <2>. HIDE DEF Body, S
  <2>. QED
    BY <1>2
<1>4. rank \in [D -> Nat]
  OBVIOUS
<1>5. LooksBelow(F, rank, D, C)
  <2>. SUFFICES ASSUME NEW f \in S, NEW g \in S, NEW n \in D,
                       \A e \in D : rank[e] < rank[n] => f[e] = g[e]
                PROVE  F[f][n] = F[g][n]
    BY DEF LooksBelow
  <2>1. F[f] = Body(f) /\ F[g] = Body(g)
    <3>. HIDE DEF Body, S
    <3>. QED
      OBVIOUS
  <2>2. CASE n = 0
    <3>. HIDE DEF F
    <3>. QED
      BY <2>1, <2>2
  <2>3. CASE n # 0
    <3>1. n - 1 \in D /\ rank[n - 1] < rank[n]
      BY <2>3
    <3>2. f[n - 1] = g[n - 1]
      BY <3>1
    <3>. HIDE DEF F, rank
    <3>. QED
      BY <2>1, <2>3, <3>2
  <2>. QED
    BY <2>2, <2>3
<1>6. PICK h \in S : h = F[h]
  <2>. HIDE DEF F, rank, D, C
  <2>1. C # {}
    BY DEF C
  <2>2. HasFixedPoint(F, D, C)
    BY <1>3, <1>4, <1>5, <2>1, RecursionExists
  <2>. QED
    BY <2>2 DEF HasFixedPoint
<1>7. h = Body(h)
  <2>. HIDE DEF Body, S
  <2>. QED
    BY <1>6
<1>8. v = Body(v)
  <2>. HIDE DEF Body
  <2>. QED
    BY <1>7
<1>. HIDE DEF v
<1>9. v[0] = 0 /\ \A n \in 0 .. N - 1 : v[n + 1] = v[n] * base + DigitOf(s[n + 1])
  BY <1>8
<1>10. DOMAIN v = D /\ v = [n \in D |-> v[n]]
  BY <1>8
<1>11. \A n \in D : v[n] \in Nat
  <2>. DEFINE U == {n \in D : v[n] \in Nat}
  <2>1. 0 \in U
    BY <1>9
  <2>2. ASSUME NEW n \in 0 .. N - 1, n \in U PROVE n + 1 \in U
    <3>1. v[n] \in Nat /\ DigitOf(s[n + 1]) \in Nat /\ n + 1 \in D
      BY <2>2, DigitType
    <3>2. v[n] * base + DigitOf(s[n + 1]) \in Nat
      BY <3>1
    <3>3. v[n + 1] = v[n] * base + DigitOf(s[n + 1])
      BY <1>9, Zenon
    <3>. QED
      BY <3>1, <3>2, <3>3, Zenon
  <2>. HIDE DEF U
  <2>3. \A n \in 0 .. N : n \in U
    <3>. HIDE DEF N
    <3>1. N \in Nat
      BY DEF N
    <3>. QED
      BY <2>1, <2>2, <3>1, IntervalInduction
  <2>. QED
    BY <2>3 DEF U
<1>12. v \in [D -> Nat]
  BY <1>10, <1>11
<1>13. ValueSteps(v, s, base)
  BY <1>9 DEF ValueSteps
<1>. HIDE DEF N, D
<1>. QED
  BY <1>1, <1>12, <1>13 DEF N, D

LEMMA NumberType ==
  ASSUME NEW s, Len(s) \in Nat, NEW base \in {8, 10, 16}
  PROVE  Number(s, base) \in Int
<1>1. PICK v \in [0 .. Len(s) -> Nat] : Value(s, base) = v[Len(s)]
  BY ValueExists
<1>2. Value(s, base) \in Nat
  BY <1>1
<1>3. Int16(Value(s, base)) \in Int
  BY <1>2 DEF Int16
<1>. QED
  BY <1>3 DEF Number

LEMMA CharsLen ==
  ASSUME NEW a, NEW n \in Nat
  PROVE  Len(Chars(a, n)) = n
BY DEF Chars

(* The bytes of a file.                                                    *)
Pieces(f) == [i \in 1 .. Len(f) |-> f[i].head \o f[i].raw \o f[i].eol]

LEMMA PiecesType ==
  ASSUME NEW f \in Catalogues
  PROVE  /\ Len(f) \in Nat /\ Pieces(f) \in Seq(Seq(Byte)) /\ Len(Pieces(f)) = Len(f)
         /\ Bytes[f] = FlattenSeq(Pieces(f))
<1>1. Len(f) \in Nat /\ DOMAIN f = 1 .. Len(f) /\ \A i \in DOMAIN f : IsLine(f[i])
  BY CatalogueAssumption
<1>. DEFINE B == Byte
<1>2. ASSUME NEW i \in 1 .. Len(f)
      PROVE  f[i].head \o f[i].raw \o f[i].eol \in Seq(B)
  <2>1. IsLine(f[i])
    BY <1>1
  <2>2. f[i].head \in Seq(B) /\ f[i].raw \in Seq(B) /\ f[i].eol \in {<<>>, <<LF>>, <<CR, LF>>}
    BY <2>1 DEF IsLine
  <2>3. LF \in B /\ CR \in B
    BY DEF LF, CR, Byte
  <2>. HIDE DEF B
  <2>4. f[i].eol \in Seq(B)
    <3>1. <<>> \in Seq(B) /\ <<LF>> \in Seq(B) /\ <<CR, LF>> \in Seq(B)
      BY <2>3
    <3>. QED
      BY <2>2, <3>1
  <2>. QED
    BY <2>2, <2>4
<1>. HIDE DEF B
<1>3. Pieces(f) \in Seq(Seq(B)) /\ Len(Pieces(f)) = Len(f)
  BY <1>1, <1>2 DEF Pieces
<1>. QED
  BY <1>1, <1>3 DEF Bytes, Pieces, B

LEMMA BytesType ==
  ASSUME NEW f \in Catalogues
  PROVE  Bytes[f] \in Seq(Byte)
<1>. DEFINE B == Byte
            ss == Pieces(f)
<1>1. ss \in Seq(Seq(B)) /\ Bytes[f] = FlattenSeq(ss) /\ Len(ss) \in Nat
  BY PiecesType
<1>. HIDE DEF B, ss
<1>2. PICK h \in [0 .. Len(ss) -> Seq(B)] : FlattenSeq(ss) = h[Len(ss)]
  BY <1>1, FlattenExists
<1>3. Bytes[f] \in Seq(B)
  BY <1>1, <1>2
<1>. QED
  BY <1>3 DEF B

TypeInv ==
  /\ TypeOK /\ BufferInv /\ HandleInv
  /\ pc = "escape" => entries < TableSize /\ msg <= LastByte

LEMMA InitType == Init => TypeInv
<1>. SUFFICES ASSUME Init PROVE TypeInv
  OBVIOUS
<1>1. nlspath \in Seq({"fits", "long"}) /\ TableSize \in Nat \ {0}
  BY KittenAssumption DEF Init
<1>2. mem \in [-1 .. LastByte -> 0 .. 255]
  BY DEF Init, NUL, CR
<1>3. table \in [0 .. TableSize - 1 ->
                 [key1 : 0 .. 255, key2 : 0 .. 255, text : {NoText} \cup 0 .. LastByte]]
  BY DEF Init
<1>4. 0 \in 0 .. TableSize
  BY <1>1
<1>5. /\ pc = "open" /\ langOk \in BOOLEAN /\ rule = 1 /\ ret = 0 /\ handles = 0 /\ rejected = 0
      /\ where = 0 /\ next = 0 /\ msg = 0 /\ src = 0 /\ dst = 0 /\ entries = 0
  BY DEF Init
<1>6. {where, next, msg, src, dst} \subseteq Nat
  BY <1>5
<1>. QED
  BY <1>1, <1>2, <1>3, <1>4, <1>5, <1>6, InitBuffer, InitHandles DEF TypeInv, TypeOK

(* What a step leaves of the table and the memory.                         *)
EntryType == [key1 : 0 .. 255, key2 : 0 .. 255, text : {NoText} \cup 0 .. LastByte]

LEMMA ClearedType ==
  ASSUME TypeOK
  PROVE  Cleared(table) \in [0 .. TableSize - 1 -> EntryType]
<1>1. table \in [0 .. TableSize - 1 -> EntryType]
  BY DEF TypeOK, EntryType
<1>2. \A e \in EntryType : [e EXCEPT !.text = NoText] \in EntryType
  BY DEF EntryType
<1>. QED
  BY <1>1, <1>2 DEF Cleared

LEMMA ReadFileType ==
  ASSUME TypeInv, BufferInv', HandleInv', ReadFile
  PROVE  TypeInv'
<1>2. PICK f \in RightSize :
        mem' = [a \in -1 .. LastByte |->
                  CASE a = -1                       -> mem[-1]
                    [] a \in 0 .. Len(Bytes[f]) - 1 -> Bytes[f][a + 1]
                    [] OTHER                        -> NUL]
  BY DEF ReadFile
<1>3. mem' \in [-1 .. LastByte -> 0 .. 255]
  <2>. DEFINE b == Bytes[f]
              B == Byte
  <2>1. b \in Seq(B) /\ Len(b) \in Nat
    BY BytesType DEF RightSize
  <2>2. NUL \in B /\ mem[-1] \in B
    BY BufferBounds DEF NUL, TypeInv, TypeOK, Byte
  <2>. HIDE DEF b, B
  <2>3. ASSUME NEW a \in -1 .. LastByte, a \in 0 .. Len(b) - 1 PROVE b[a + 1] \in B
    <3>1. a + 1 \in 1 .. Len(b)
      BY <2>1, <2>3
    <3>. QED
      BY <2>1, <3>1
  <2>4. ASSUME NEW a \in -1 .. LastByte
        PROVE  (CASE a = -1 -> mem[-1] [] a \in 0 .. Len(b) - 1 -> b[a + 1] [] OTHER -> NUL) \in B
    <3>1. a = -1 => a \notin 0 .. Len(b) - 1
      OBVIOUS
    <3>. QED
      BY <2>2, <2>3, <3>1
  <2>5. mem' \in [-1 .. LastByte -> B]
    BY <1>2, <2>4 DEF b
  <2>. QED
    BY <2>5 DEF B, Byte
<1>4. table' \in [0 .. TableSize - 1 -> EntryType]
  BY ClearedType DEF ReadFile, TypeInv
<1>5. /\ pc' = "lines" /\ langOk' = langOk /\ nlspath' = <<>> /\ rule' = 1 /\ ret' = ret
      /\ handles' = handles + 1 /\ rejected' = rejected /\ where' = 0 /\ entries' = 0
      /\ next' = next /\ msg' = msg /\ src' = src /\ dst' = dst
  BY DEF ReadFile, escVars
<1>6. 0 \in 0 .. TableSize
  BY KittenAssumption
<1>. QED
  BY <1>3, <1>4, <1>5, <1>6 DEF TypeInv, TypeOK, EntryType

LEMMA RejectFileType ==
  ASSUME TypeInv, BufferInv', HandleInv', RejectFile
  PROVE  TypeInv'
<1>2. table' \in [0 .. TableSize - 1 -> EntryType]
  BY ClearedType DEF RejectFile, TypeInv
<1>3. rule' \in {1, 2}
  BY DEF RejectFile, NextCandidate, TypeInv, TypeOK
<1>4. nlspath' \in Seq({"fits", "long"})
  BY DEF RejectFile, NextCandidate, Candidate, TypeInv, TypeOK
<1>5. /\ pc' = pc /\ langOk' = langOk /\ ret' = ret /\ mem' = mem
      /\ handles' = handles + 1 /\ rejected' = rejected + 1 /\ where' = where
      /\ entries' = entries /\ next' = next /\ msg' = msg /\ src' = src /\ dst' = dst
      /\ pc = "search"
  BY DEF RejectFile, escVars, Candidate
<1>. QED
  BY <1>2, <1>3, <1>4, <1>5 DEF TypeInv, TypeOK, EntryType

LEMMA OpenType ==
  ASSUME TypeInv, BufferInv', HandleInv', NoLanguage \/ StartSearch \/ EndSearch \/ NoSuchFile \/ EndOfFile
  PROVE  TypeInv'
<1>2. /\ langOk' = langOk /\ mem' = mem /\ rejected' = rejected /\ where' = where
      /\ entries' = entries /\ table' = table
      /\ next' = next /\ msg' = msg /\ src' = src /\ dst' = dst
      /\ pc' \in {"search", "ready"}
  BY DEF NoLanguage, StartSearch, EndSearch, NoSuchFile, EndOfFile, Candidate, Return,
         openVars, escVars
<1>3. ret' \in {-1, 0, 1}
  BY DEF NoLanguage, StartSearch, EndSearch, NoSuchFile, EndOfFile, Candidate, Return,
         openVars, TypeInv, TypeOK
<1>4. rule' \in {1, 2} /\ nlspath' \in Seq({"fits", "long"})
  <2>1. rule \in {1, 2} /\ nlspath \in Seq({"fits", "long"})
    BY DEF TypeInv, TypeOK
  <2>2. CASE NoSuchFile
    BY <2>1, <2>2 DEF NoSuchFile, Candidate, NextCandidate
  <2>3. CASE NoLanguage \/ StartSearch \/ EndSearch \/ EndOfFile
    BY <2>1, <2>3 DEF NoLanguage, StartSearch, EndSearch, EndOfFile, openVars
  <2>. QED
    BY <2>2, <2>3
<1>5. handles' \in Nat
  BY DEF HandleInv
<1>. QED
  BY <1>2, <1>3, <1>4, <1>5 DEF TypeInv, TypeOK

LEMMA CutType ==
  ASSUME TypeOK, NEW lf, Cut(lf)
  PROVE  mem' \in [-1 .. LastByte -> 0 .. 255]
BY DEF TypeOK, Cut, NUL

LEMMA SkipLineType ==
  ASSUME TypeInv, BufferInv', HandleInv', SkipLine
  PROVE  TypeInv'
<1>1. PICK lf \in LineFeed : Cut(lf) /\ where' = lf + 1
  BY DEF SkipLine
<1>2. {where', next, msg, src, dst} \subseteq Nat
  BY DEF BufferInv, TypeInv, TypeOK
<1>3. mem' \in [-1 .. LastByte -> 0 .. 255]
  BY <1>1, CutType DEF TypeInv
<1>4. /\ pc' = "lines" /\ langOk' = langOk /\ nlspath' = nlspath /\ rule' = rule /\ ret' = ret
      /\ handles' = handles /\ rejected' = rejected /\ entries' = entries /\ table' = table
      /\ next' = next /\ msg' = msg /\ src' = src /\ dst' = dst
  BY DEF SkipLine, escVars, openVars
<1>. QED
  BY <1>2, <1>3, <1>4 DEF TypeInv, TypeOK

(* A number that a key is read from.                                       *)
LEMMA DotInLine ==
  ASSUME where \in Nat, NEW lf \in where .. LastByte
  PROVE  Dot(lf) \in where .. Colon(lf)
<1>1. Colon(lf) \in where .. lf
  BY ColonInLine
<1>. DEFINE c == Colon(lf)
            S == {a \in where .. c : mem[a] = DOT} \cup {c}
<1>2. c \in where .. c /\ where .. c \subseteq Nat
  BY <1>1, BufferBounds
<1>. HIDE DEF c
<1>3. S \subseteq where .. c /\ S # {}
  BY <1>2
<1>4. Min(S) \in S
  BY <1>2, <1>3, MinFact
<1>. QED
  BY <1>3, <1>4 DEF Dot, c

LEMMA KeyType ==
  ASSUME where \in Nat, NEW lf \in where .. LastByte, HasKeys(lf)
  PROVE  Key(Key1(lf)) \in 0 .. 255 /\ Key(Key2(lf)) \in 0 .. 255
<1>1. /\ Colon(lf) \in where .. lf /\ Dot(lf) \in where .. Colon(lf) /\ Dot(lf) < Colon(lf)
      /\ Colon(lf) < lf
  BY ColonInLine, DotInLine DEF HasKeys, HasDot, HasColon
<1>2. Dot(lf) - where \in Nat /\ Colon(lf) - Dot(lf) - 1 \in Nat
  BY <1>1
<1>3. Key1(lf) \in Int /\ Key2(lf) \in Int
  BY <1>2, NumberType, CharsLen DEF Key1, Key2
<1>. QED
  BY <1>3 DEF Key

LEMMA ReadLineType ==
  ASSUME TypeInv, BufferInv', HandleInv', ReadLine
  PROVE  TypeInv'
<1>1. PICK lf \in LineFeed :
        /\ HasKeys(lf) /\ Cut(lf) /\ next' = lf + 1
        /\ msg' = Colon(lf) + 1 /\ src' = Colon(lf) + 1 /\ dst' = Colon(lf) + 1
        /\ \/ /\ entries < TableSize
              /\ pc' = "escape"
              /\ table' = [table EXCEPT ![entries].key1 = Key(Key1(lf)),
                                        ![entries].key2 = Key(Key2(lf))]
           \/ /\ entries >= TableSize
              /\ pc' = "corrupt"
              /\ UNCHANGED table
  BY DEF ReadLine
<1>2. lf \in where .. LastByte /\ where \in Nat /\ lf \in Nat
  BY BufferBounds DEF LineFeed, BufferInv, TypeInv
<1>3. Colon(lf) \in where .. lf /\ Colon(lf) < lf
  BY <1>1, <1>2, ColonInLine DEF HasKeys, HasDot, HasColon
<1>4. mem' \in [-1 .. LastByte -> 0 .. 255]
  BY <1>1, CutType DEF TypeInv
<1>5. Key(Key1(lf)) \in 0 .. 255 /\ Key(Key2(lf)) \in 0 .. 255
  BY <1>1, <1>2, KeyType
<1>. DEFINE k1 == Key(Key1(lf))
            k2 == Key(Key2(lf))
<1>. HIDE DEF k1, k2
<1>6. table' \in [0 .. TableSize - 1 -> EntryType]
  <2>1. table \in [0 .. TableSize - 1 -> EntryType]
    BY DEF TypeInv, TypeOK, EntryType
  <2>2. \A e \in EntryType : [e EXCEPT !.key1 = k1, !.key2 = k2] \in EntryType
    BY <1>5 DEF EntryType, k1, k2
  <2>3. \/ table' = table
        \/ table' = [table EXCEPT ![entries].key1 = k1, ![entries].key2 = k2]
    BY <1>1 DEF k1, k2
  <2>4. entries \in Nat
    BY DEF TypeInv, TypeOK
  <2>5. CASE table' = [table EXCEPT ![entries].key1 = k1, ![entries].key2 = k2]
    <3>. DEFINE D == 0 .. TableSize - 1
    <3>. HIDE DEF D
    <3>1. table \in [D -> EntryType]
      BY <2>1 DEF D
    <3>2. table' = [table EXCEPT ![entries] = [@ EXCEPT !.key1 = k1, !.key2 = k2]]
      BY <2>5, <3>1
    <3>3. entries \in D => [table[entries] EXCEPT !.key1 = k1, !.key2 = k2] \in EntryType
      BY <2>2, <3>1
    <3>4. table' \in [D -> EntryType]
      BY <3>1, <3>2, <3>3
    <3>. QED
      BY <3>4 DEF D
  <2>. QED
    BY <2>1, <2>3, <2>5
<1>7. /\ langOk' = langOk /\ nlspath' = nlspath /\ rule' = rule /\ ret' = ret
      /\ handles' = handles /\ rejected' = rejected /\ entries' = entries /\ where' = where
  BY DEF ReadLine, openVars
<1>8. {where, Colon(lf) + 1, lf + 1} \subseteq Nat /\ Colon(lf) + 1 <= LastByte
  BY <1>2, <1>3, BufferBounds
<1>9. pc' \in {"escape", "corrupt"} /\ (pc' = "escape" => entries < TableSize)
  BY <1>1
<1>. QED
  BY <1>1, <1>4, <1>6, <1>7, <1>8, <1>9 DEF TypeInv, TypeOK, EntryType

LEMMA SimpleType == \A c \in Letters : Simple[c] \in 0 .. 255
BY DEF Simple, Letters, LF, CR, SLASH

LEMMA EscapeType ==
  ASSUME TypeInv, BufferInv', HandleInv', EscapeNothing \/ EscapeLetter \/ EscapeNumber
  PROVE  TypeInv'
<1>1. pc = "escape" /\ src \in Nat /\ dst \in Nat /\ dst <= src /\ src <= LastByte - 2
  BY CharacterInside DEF EscapeNothing, EscapeLetter, EscapeNumber, InText, TypeInv, BufferInv
<1>2. mem \in [-1 .. LastByte -> 0 .. 255]
  BY DEF TypeInv, TypeOK
<1>3. \E c \in 0 .. 255 : Store(c)
  <2>1. CASE EscapeNothing
    <3>1. src \in -1 .. LastByte
      BY <1>1, BufferBounds
    <3>. QED
      BY <2>1, <3>1, <1>2 DEF EscapeNothing
  <2>2. CASE EscapeLetter
    BY <2>2, SimpleType DEF EscapeLetter
  <2>3. CASE EscapeNumber
    <3>. DEFINE size  == IF mem[src + 1] = HEX THEN 2 ELSE 3
                base  == IF mem[src + 1] = HEX THEN 16 ELSE 8
                value == Number(Chars(src + 2, size), base)
    <3>1. \/ value >= 0 /\ Store(value % 256)
          \/ StoreLoose(mem[src + 2])
      BY <2>3 DEF EscapeNumber
    <3>2. value \in Int
      BY NumberType, CharsLen
    <3>3. CASE value >= 0 /\ Store(value % 256)
      <4>. HIDE DEF value
      <4>1. value % 256 \in 0 .. 255
        BY <3>2
      <4>. QED
        BY <3>3, <4>1
    <3>4. CASE StoreLoose(mem[src + 2])
      <4>1. src + 2 \in -1 .. LastByte
        BY <1>1, BufferBounds
      <4>. QED
        BY <3>4, <4>1, <1>2 DEF StoreLoose
    <3>. QED
      BY <3>1, <3>3, <3>4
  <2>. QED
    BY <2>1, <2>2, <2>3
<1>4. mem' \in [-1 .. LastByte -> 0 .. 255] /\ dst' = dst + 1
  <2>. DEFINE D == -1 .. LastByte
              B == Byte
  <2>1. PICK c \in B : Store(c)
    BY <1>3 DEF Byte
  <2>. HIDE DEF D, B
  <2>2. mem \in [D -> B]
    BY <1>2 DEF D, B, Byte
  <2>3. mem' \in [D -> B] /\ dst' = dst + 1
    BY <2>1, <2>2 DEF Store
  <2>. QED
    BY <2>3 DEF D, B, Byte
<1>5. {where, next, msg, src', dst'} \subseteq Nat
  BY <1>1, <1>4, EscapeFact DEF TypeInv, TypeOK
<1>6. /\ pc' = pc /\ langOk' = langOk /\ nlspath' = nlspath /\ rule' = rule /\ ret' = ret
      /\ handles' = handles /\ rejected' = rejected /\ entries' = entries /\ table' = table
      /\ where' = where /\ next' = next /\ msg' = msg
  BY DEF EscapeNothing, EscapeLetter, EscapeNumber, openVars
<1>. QED
  BY <1>4, <1>5, <1>6 DEF TypeInv, TypeOK

LEMMA EscapeEndType ==
  ASSUME TypeInv, BufferInv', HandleInv', EscapeEnd
  PROVE  TypeInv'
<1>1. mem' \in [-1 .. LastByte -> 0 .. 255]
  <2>. DEFINE D == -1 .. LastByte
              B == Byte
  <2>1. NUL \in B /\ mem \in [D -> B] /\ mem' = [mem EXCEPT ![dst] = NUL]
    BY DEF EscapeEnd, TypeInv, TypeOK, NUL, Byte
  <2>. HIDE DEF D, B
  <2>2. mem' \in [D -> B]
    BY <2>1
  <2>. QED
    BY <2>2 DEF D, B, Byte
<1>2. table' \in [0 .. TableSize - 1 -> EntryType]
  <2>1. table \in [0 .. TableSize - 1 -> EntryType]
    BY DEF TypeInv, TypeOK, EntryType
  <2>2. msg \in 0 .. LastByte
    BY BufferBounds DEF EscapeEnd, TypeInv, TypeOK
  <2>3. \A e \in EntryType : [e EXCEPT !.text = msg] \in EntryType
    BY <2>2 DEF EntryType
  <2>. QED
    BY <2>1, <2>3 DEF EscapeEnd
<1>3. entries' \in 0 .. TableSize
  BY KittenAssumption DEF EscapeEnd, TypeInv, TypeOK
<1>4. /\ pc' = "lines" /\ langOk' = langOk /\ nlspath' = nlspath /\ rule' = rule /\ ret' = ret
      /\ handles' = handles /\ rejected' = rejected /\ where' = next
      /\ next' = next /\ msg' = msg /\ src' = src /\ dst' = dst
  BY DEF EscapeEnd, openVars, escVars
<1>5. {where', next', msg', src', dst'} \subseteq Nat
  BY <1>4 DEF TypeInv, TypeOK
<1>6. handles' \in Nat /\ rejected' \in Nat
  BY DEF HandleInv
<1>7. TypeOK'
  BY <1>1, <1>2, <1>3, <1>4, <1>5, <1>6 DEF TypeInv, TypeOK, EntryType
<1>. QED
  BY <1>4, <1>7 DEF TypeInv

LEMMA TypeStep == TypeInv /\ [Next]_vars => TypeInv'
<1>. SUFFICES ASSUME TypeInv, [Next]_vars PROVE TypeInv'
  OBVIOUS
<1>1. BufferInv' /\ HandleInv'
  BY BufferStep, HandlesStep DEF TypeInv
<1>2. CASE NoLanguage \/ StartSearch \/ EndSearch \/ NoSuchFile \/ EndOfFile
  BY <1>1, <1>2, OpenType
<1>3. CASE RejectFile
  BY <1>1, <1>3, RejectFileType
<1>4. CASE ReadFile
  BY <1>1, <1>4, ReadFileType
<1>5. CASE SkipLine
  BY <1>1, <1>5, SkipLineType
<1>6. CASE ReadLine
  BY <1>1, <1>6, ReadLineType
<1>7. CASE EscapeNothing \/ EscapeLetter \/ EscapeNumber
  BY <1>1, <1>7, EscapeType
<1>8. CASE EscapeEnd
  BY <1>1, <1>8, EscapeEndType
<1>9. CASE UNCHANGED vars
  BY <1>1, <1>9 DEF vars, openVars, escVars, TypeInv, TypeOK
<1>. QED
  BY <1>2, <1>3, <1>4, <1>5, <1>6, <1>7, <1>8, <1>9 DEF Next

(* Every variable keeps its type for every file that catread() accepts:    *)
(* each text begins in catcontents[], and what is stored there is a byte.  *)
(* A file with more messages than catpoints[] has entries is no exception  *)
(* only because the model stops (pc = "corrupt") where the code writes     *)
(* behind the table; that it does not get there takes TableCorrect.        *)
THEOREM TypeCorrect == Spec => []TypeOK
<1>1. TypeInv => TypeOK
  BY DEF TypeInv
<1>. QED
  BY <1>1, InitType, TypeStep, PTL DEF Spec

-----------------------------------------------------------------------------
(* From the file through the buffer into the table                         *)

(* Where the line behind the first l lines begins.                         *)
Offset(f, l) == Len(FlattenSeq(SubSeq(Pieces(f), 1, l)))

TextAt(l) == Offset(file, l - 1) + Len(file[l].head)
TextEnd(l) == TextAt(l) + Len(file[l].raw)

(* From an address on, the buffer m holds what was read from f.            *)
Unread(m, f, from) ==
  \A a \in from .. LastByte : m[a] = IF a < Len(Bytes[f]) THEN Bytes[f][a + 1] ELSE NUL

(* At address a of m stands the C string s.                                *)
Holds(m, a, s) ==
  /\ \A i \in 1 .. Len(s) : m[a + i - 1] = s[i] /\ s[i] # NUL
  /\ m[a + Len(s)] = NUL

(* The entry is for a line: it has its keys, and a text below the address  *)
(* "to", which is what the line's is documented to be.                     *)
EntryIsFor(m, entry, line, to) ==
  /\ line.key = <<entry.key1, entry.key2>>
  /\ entry.text \in Nat
  /\ entry.text + Len(Documented(line.raw)) < to
  /\ Holds(m, entry.text, Documented(line.raw))

(* The first e entries of the table t are those of the first l lines of f  *)
(* that have keys, in order; at[j] is the line of entry j.                 *)
Filed(m, t, e, f, l, at) ==
  /\ at \in [0 .. e - 1 -> 1 .. l]
  /\ \A i, j \in 0 .. e - 1 : i < j => at[i] < at[j]
  /\ \A i \in 1 .. l : f[i].key # <<>> => \E j \in 0 .. e - 1 : at[j] = i
  /\ \A j \in 0 .. e - 1 : EntryIsFor(m, t[j], f[at[j]], Offset(f, l))
  /\ \A j \in e .. TableSize - 1 : t[j].text = NoText

AllFiled(m, t, e, f, l) ==
  \E at \in [0 .. e - 1 -> 1 .. l] : Filed(m, t, e, f, l, at)

AtLine(l) ==
  /\ where = Offset(file, l)
  /\ where > 0 => mem[where - 1] = NUL
  /\ Unread(mem, file, where)
  /\ AllFiled(mem, table, entries, file, l)

(* What stands between two addresses.                                      *)
Stored(m, a, d) == [i \in 1 .. d - a |-> m[a + i - 1]]

(* Of a text that began at a, processEscChars() has read the characters    *)
(* below s and stored those below d: what it has stored is decoded, what   *)
(* it has not read is still there, and it is not inside an escape.         *)
Decoding(m, a, s, d, raw) ==
  /\ s - a \in 0 .. Len(raw) /\ d - a \in 0 .. s - a
  /\ Stored(m, a, d) \o Text(raw)[s - a + 1] = Documented(raw)
  /\ \A i \in 1 .. d - a : m[a + i - 1] # NUL
  /\ \A i \in s - a + 1 .. Len(raw) : m[a + i - 1] = raw[i]
  /\ s - a = 0 \/ ~ Starts(raw)[s - a]

InLine(l) ==
  /\ file[l].key = <<table[entries].key1, table[entries].key2>>
  /\ table[entries].text = NoText
  /\ msg = TextAt(l) /\ next = Offset(file, l)
  /\ mem[TextEnd(l)] = NUL /\ mem[next - 1] = NUL
  /\ Unread(mem, file, next)
  /\ AllFiled(mem, table, entries, file, l - 1)
  /\ Decoding(mem, msg, src, dst, file[l].raw)

Succeeded == pc = "ready" /\ ret = 1

CatalogueInv ==
  /\ pc \in {"lines", "escape", "corrupt"} \/ Succeeded => file \in RightSize
  /\ pc # "ready" => ret = 0
  /\ CleanFile =>
       /\ pc = "lines"   => \E l \in 0 .. Len(file) : AtLine(l)
       /\ pc = "escape"  => \E l \in 1 .. Len(file) : InLine(l)
       /\ pc = "corrupt" => Cardinality(Messages) > TableSize
       /\ Succeeded      => AllFiled(mem, table, entries, file, Len(file))

LEMMA StartsIs ==
  ASSUME NEW raw \in Seq(Byte)
  PROVE  \A i \in 1 .. Len(raw) :
           Starts(raw)[i] <=> raw[i] = SLASH /\ (i = 1 \/ ~ Starts(raw)[i - 1])
<1>. DEFINE N == Len(raw)
            D == 1 .. N
            C == BOOLEAN
            S == [D -> C]
            Body(g) == [i \in D |-> raw[i] = SLASH /\ (i = 1 \/ ~ g[i - 1])]
            F == [g \in S |-> Body(g)]
            rank == [i \in D |-> i]
            v == CHOOSE v : v = Body(v)
<1>1. DOMAIN raw = D /\ N \in Nat
  OBVIOUS
<1>2. Starts(raw) = v
  BY <1>1, Zenon DEF Starts
<1>3. \A g \in S : Body(g) \in S
  OBVIOUS
<1>4. F \in [S -> S]
  <2>. HIDE DEF Body, S
  <2>. QED
    BY <1>3
<1>5. rank \in [D -> Nat]
  OBVIOUS
<1>6. LooksBelow(F, rank, D, C)
  <2>. SUFFICES ASSUME NEW f \in S, NEW g \in S, NEW n \in D,
                       \A e \in D : rank[e] < rank[n] => f[e] = g[e]
                PROVE  F[f][n] = F[g][n]
    BY DEF LooksBelow
  <2>1. F[f] = Body(f) /\ F[g] = Body(g)
    <3>. HIDE DEF Body, S
    <3>. QED
      OBVIOUS
  <2>2. n = 1 \/ f[n - 1] = g[n - 1]
    <3>1. CASE n # 1
      <4>1. n - 1 \in D /\ rank[n - 1] < rank[n]
        BY <1>1, <3>1
      <4>. QED
        BY <4>1
    <3>. QED
      BY <3>1
  <2>3. Body(f)[n] = Body(g)[n]
    BY <2>2
  <2>. HIDE DEF F, rank
  <2>. QED
    BY <2>1, <2>3
<1>7. PICK h \in S : h = F[h]
  <2>. HIDE DEF F, rank, D, C
  <2>1. C # {}
    BY DEF C
  <2>2. HasFixedPoint(F, D, C)
    BY <1>4, <1>5, <1>6, <2>1, RecursionExists
  <2>. QED
    BY <2>2 DEF HasFixedPoint
<1>8. h = Body(h)
  <2>. HIDE DEF Body, S
  <2>. QED
    BY <1>7
<1>9. v = Body(v)
  <2>. HIDE DEF Body
  <2>. QED
    BY <1>8
<1>. HIDE DEF v
<1>. SUFFICES ASSUME NEW i \in D
              PROVE  v[i] <=> raw[i] = SLASH /\ (i = 1 \/ ~ v[i - 1])
  BY <1>2
<1>. QED
  BY <1>9

(* What the text from the i-th character on is, and that it is a text.     *)
TextSteps(raw, t) ==
  /\ t[Len(raw) + 1] = <<>>
  /\ \A i \in 1 .. Len(raw) : raw[i] # SLASH => t[i] = <<raw[i]>> \o t[i + 1]
  /\ \A i \in 1 .. Len(raw) - 1 :
       raw[i] = SLASH /\ raw[i + 1] \in Letters => t[i] = <<Simple[raw[i + 1]]>> \o t[i + 2]
  /\ \A i \in 1 .. Len(raw) - 3 :
       raw[i] = SLASH /\ raw[i + 1] = HEX /\ Number(SubSeq(raw, i + 2, i + 3), 16) >= 0
         => t[i] = <<Number(SubSeq(raw, i + 2, i + 3), 16)>> \o t[i + 4]

Digits(raw, i, n, base) ==
  i + n - 1 <= Len(raw) /\ Number(SubSeq(raw, i, i + n - 1), base) >= 0
HexAt(raw, i)   == Number(SubSeq(raw, i + 2, i + 3), 16)
OctalAt(raw, i) == Number(SubSeq(raw, i + 1, i + 3), 8) % 256

TextFrom(raw, t, i) ==
  IF i > Len(raw) THEN <<>>
  ELSE IF raw[i] # SLASH THEN <<raw[i]>> \o t[i + 1]
  ELSE IF i = Len(raw) THEN <<>>
  ELSE IF raw[i + 1] \in Letters THEN <<Simple[raw[i + 1]]>> \o t[i + 2]
  ELSE IF raw[i + 1] = HEX /\ Digits(raw, i + 2, 2, 16) THEN <<HexAt(raw, i)>> \o t[i + 4]
  ELSE IF Digits(raw, i + 1, 3, 8) THEN <<OctalAt(raw, i)>> \o t[i + 4]
  ELSE <<raw[i + 1]>> \o t[i + 2]

LEMMA TextIsFixed ==
  ASSUME NEW raw
  PROVE  Text(raw) = CHOOSE t : t = [i \in 1 .. Len(raw) + 1 |-> TextFrom(raw, t, i)]
BY Zenon DEF Text, TextFrom, Digits, HexAt, OctalAt

LEMMA ByteAt ==
  ASSUME NEW raw \in Seq(Byte), NEW i \in 1 .. Len(raw)
  PROVE  raw[i] \in 0 .. 255 /\ raw[i] \in Int
<1>. DEFINE B == Byte
<1>1. raw \in Seq(B) /\ i \in 1 .. Len(raw)
  OBVIOUS
<1>2. B \subseteq Int
  BY DEF Byte
<1>. HIDE DEF B
<1>3. raw[i] \in B
  BY <1>1
<1>. QED
  BY <1>2, <1>3 DEF B, Byte

(* The pieces of a text are numbers, and none reads behind the text.       *)
LEMMA HexType ==
  ASSUME NEW raw \in Seq(Byte), NEW i \in 1 .. Len(raw) + 1, Digits(raw, i + 2, 2, 16)
  PROVE  HexAt(raw, i) \in Int /\ i + 4 \in 1 .. Len(raw) + 1
<1>1. Len(raw) \in Nat /\ i + 3 <= Len(raw) /\ (i + 2) + 2 - 1 = i + 3
  BY DEF Digits
<1>2. Len(SubSeq(raw, i + 2, i + 3)) = 2
  BY <1>1
<1>. QED
  BY <1>1, <1>2, NumberType DEF HexAt

LEMMA OctalType ==
  ASSUME NEW raw \in Seq(Byte), NEW i \in 1 .. Len(raw) + 1, Digits(raw, i + 1, 3, 8)
  PROVE  OctalAt(raw, i) \in Int /\ i + 4 \in 1 .. Len(raw) + 1
<1>1. Len(raw) \in Nat /\ i + 3 <= Len(raw)
  BY DEF Digits
<1>2. Len(SubSeq(raw, i + 1, i + 3)) = 3
  BY <1>1
<1>3. Number(SubSeq(raw, i + 1, i + 3), 8) \in Int
  BY <1>2, NumberType
<1>. QED
  BY <1>1, <1>3 DEF OctalAt

LEMMA TextFromType ==
  ASSUME NEW raw \in Seq(Byte), NEW i \in 1 .. Len(raw) + 1, NEW t,
         \A j \in 1 .. Len(raw) + 1 : j > i => t[j] \in Seq(Int)
  PROVE  TextFrom(raw, t, i) \in Seq(Int)
<1>. DEFINE C == Seq(Int)
            N == Len(raw)
<1>1. \A x \in Int : \A s \in C : <<x>> \o s \in C
  OBVIOUS
<1>2. <<>> \in C
  OBVIOUS
<1>3. N \in Nat /\ i \in 1 .. N + 1 /\ \A j \in 1 .. N + 1 : j > i => t[j] \in C
  OBVIOUS
<1>4. \A j \in 1 .. N : raw[j] \in Int
  BY ByteAt
<1>. SUFFICES TextFrom(raw, t, i) \in C
  OBVIOUS
<1>. HIDE DEF C, N
<1>5. CASE i > N
  BY <1>2, <1>5 DEF TextFrom, N
<1>6. CASE i <= N /\ raw[i] # SLASH
  <2>1. raw[i] \in Int /\ t[i + 1] \in C
    BY <1>3, <1>4, <1>6
  <2>2. TextFrom(raw, t, i) = <<raw[i]>> \o t[i + 1]
    BY <1>3, <1>6 DEF TextFrom, N
  <2>. QED
    BY <1>1, <2>1, <2>2
<1>7. CASE i = N /\ raw[i] = SLASH
  BY <1>2, <1>3, <1>7 DEF TextFrom, N
<1>8. CASE i < N /\ raw[i] = SLASH
  <2>1. raw[i + 1] \in Int /\ t[i + 2] \in C
    BY <1>3, <1>4, <1>8
  <2>2. CASE raw[i + 1] \in Letters
    <3>1. Simple[raw[i + 1]] \in Int
      <4>1. \A c \in 0 .. 255 : c \in Int
        OBVIOUS
      <4>. QED
        BY <2>2, <4>1, SimpleType
    <3>2. TextFrom(raw, t, i) = <<Simple[raw[i + 1]]>> \o t[i + 2]
      BY <1>3, <1>8, <2>2 DEF TextFrom, N
    <3>. QED
      BY <1>1, <2>1, <3>1, <3>2
  <2>3. CASE raw[i + 1] \notin Letters /\ raw[i + 1] = HEX /\ Digits(raw, i + 2, 2, 16)
    <3>1. HexAt(raw, i) \in Int /\ i + 4 \in 1 .. N + 1
      BY <2>3, HexType DEF N
    <3>2. t[i + 4] \in C
      BY <1>3, <3>1
    <3>3. TextFrom(raw, t, i) = <<HexAt(raw, i)>> \o t[i + 4]
      BY <1>3, <1>8, <2>3 DEF TextFrom, N
    <3>. QED
      BY <1>1, <3>1, <3>2, <3>3
  <2>4. CASE raw[i + 1] \notin Letters /\ ~ (raw[i + 1] = HEX /\ Digits(raw, i + 2, 2, 16))
              /\ Digits(raw, i + 1, 3, 8)
    <3>1. OctalAt(raw, i) \in Int /\ i + 4 \in 1 .. N + 1
      BY <2>4, OctalType DEF N
    <3>2. t[i + 4] \in C
      BY <1>3, <3>1
    <3>3. TextFrom(raw, t, i) = <<OctalAt(raw, i)>> \o t[i + 4]
      BY <1>3, <1>8, <2>4 DEF TextFrom, N
    <3>. QED
      BY <1>1, <3>1, <3>2, <3>3
  <2>5. CASE raw[i + 1] \notin Letters /\ ~ (raw[i + 1] = HEX /\ Digits(raw, i + 2, 2, 16))
              /\ ~ Digits(raw, i + 1, 3, 8)
    <3>1. TextFrom(raw, t, i) = <<raw[i + 1]>> \o t[i + 2]
      BY <1>3, <1>8, <2>5 DEF TextFrom, N
    <3>. QED
      BY <1>1, <2>1, <3>1
  <2>. QED
    BY <2>2, <2>3, <2>4, <2>5
<1>. QED
  BY <1>3, <1>5, <1>6, <1>7, <1>8

LEMMA TextFromLater ==
  ASSUME NEW raw \in Seq(Byte), NEW i \in 1 .. Len(raw) + 1, NEW f, NEW g,
         \A j \in 1 .. Len(raw) + 1 : j > i => f[j] = g[j]
  PROVE  TextFrom(raw, f, i) = TextFrom(raw, g, i)
<1>. DEFINE N == Len(raw)
<1>1. N \in Nat /\ i \in 1 .. N + 1 /\ \A j \in 1 .. N + 1 : j > i => f[j] = g[j]
  OBVIOUS
<1>2. Digits(raw, i + 2, 2, 16) => i + 4 \in 1 .. N + 1 /\ i + 4 > i
  BY HexType
<1>3. Digits(raw, i + 1, 3, 8) => i + 4 \in 1 .. N + 1 /\ i + 4 > i
  BY OctalType
<1>. HIDE DEF N
<1>4. /\ i <= N => i + 1 \in 1 .. N + 1 /\ i + 1 > i
      /\ i < N => i + 2 \in 1 .. N + 1 /\ i + 2 > i
      /\ ~ (i > N) => i <= N
      /\ ~ (i > N) /\ i # N => i < N
  BY <1>1
<1>5. /\ i <= N => f[i + 1] = g[i + 1]
      /\ i < N => f[i + 2] = g[i + 2]
      /\ Digits(raw, i + 2, 2, 16) => f[i + 4] = g[i + 4]
      /\ Digits(raw, i + 1, 3, 8) => f[i + 4] = g[i + 4]
  BY <1>1, <1>2, <1>3, <1>4
<1>. QED
  BY <1>4, <1>5 DEF TextFrom, N

LEMMA TextFixed ==
  ASSUME NEW raw \in Seq(Byte)
  PROVE  \A i \in 1 .. Len(raw) + 1 : Text(raw)[i] = TextFrom(raw, Text(raw), i)
<1>. DEFINE N == Len(raw)
            D == 1 .. N + 1
            C == Seq(Int)
            S == [D -> C]
            Body(g) == [i \in D |-> TextFrom(raw, g, i)]
            F == [g \in S |-> Body(g)]
            rank == [i \in D |-> N + 1 - i]
            v == CHOOSE v : v = Body(v)
<1>1. N \in Nat
  OBVIOUS
<1>2. Text(raw) = v
  BY TextIsFixed
<1>3. ASSUME NEW g \in S
      PROVE  Body(g) \in S
  <2>. SUFFICES ASSUME NEW i \in D PROVE TextFrom(raw, g, i) \in C
    OBVIOUS
  <2>1. \A j \in D : j > i => g[j] \in C
    OBVIOUS
  <2>. QED
    BY <2>1, TextFromType
<1>4. F \in [S -> S]
  <2>. HIDE DEF Body, S
  <2>. QED
    BY <1>3
<1>5. rank \in [D -> Nat]
  BY <1>1
<1>6. LooksBelow(F, rank, D, C)
  <2>. SUFFICES ASSUME NEW f \in S, NEW g \in S, NEW n \in D,
                       \A e \in D : rank[e] < rank[n] => f[e] = g[e]
                PROVE  F[f][n] = F[g][n]
    BY DEF LooksBelow
  <2>1. F[f] = Body(f) /\ F[g] = Body(g)
    <3>. HIDE DEF Body, S
    <3>. QED
      OBVIOUS
  <2>2. \A j \in D : j > n => f[j] = g[j]
    <3>. SUFFICES ASSUME NEW j \in D, j > n PROVE f[j] = g[j]
      OBVIOUS
    <3>1. rank[j] < rank[n]
      BY <1>1
    <3>. QED
      BY <3>1
  <2>3. TextFrom(raw, f, n) = TextFrom(raw, g, n)
    BY <2>2, TextFromLater
  <2>4. Body(f)[n] = Body(g)[n]
    BY <2>3
  <2>. HIDE DEF F, rank, Body
  <2>. QED
    BY <2>1, <2>4
<1>7. PICK h \in S : h = F[h]
  <2>. HIDE DEF F, rank, D
  <2>1. C # {}
    <3>1. <<>> \in C
      OBVIOUS
    <3>. QED
      BY <3>1
  <2>. HIDE DEF C
  <2>2. HasFixedPoint(F, D, C)
    BY <1>4, <1>5, <1>6, <2>1, RecursionExists
  <2>. QED
    BY <2>2 DEF HasFixedPoint
<1>8. h = Body(h)
  <2>. HIDE DEF Body, S
  <2>. QED
    BY <1>7
<1>9. v = Body(v)
  <2>. HIDE DEF Body
  <2>. QED
    BY <1>8
<1>. HIDE DEF v
<1>. QED
  BY <1>2, <1>9

LEMMA TextDomain ==
  ASSUME NEW raw \in Seq(Byte)
  PROVE  \A i \in 1 .. Len(raw) + 1 : Text(raw)[i] \in Seq(Int)
<1>. DEFINE N == Len(raw)
            t == Text(raw)
            U == {k \in Nat : k <= N => t[N + 1 - k] \in Seq(Int)}
<1>1. N \in Nat
  OBVIOUS
<1>2. ASSUME NEW k \in Nat, \A m \in Nat : m < k => m \in U
      PROVE  k \in U
  <2>. SUFFICES ASSUME k <= N PROVE t[N + 1 - k] \in Seq(Int)
    OBVIOUS
  <2>1. N + 1 - k \in 1 .. N + 1
    BY <1>1
  <2>2. ASSUME NEW j \in 1 .. N + 1, j > N + 1 - k PROVE t[j] \in Seq(Int)
    <3>1. N + 1 - j \in Nat /\ N + 1 - j < k /\ N + 1 - j <= N /\ N + 1 - (N + 1 - j) = j
      BY <1>1, <2>2
    <3>2. N + 1 - j \in U
      BY <1>2, <3>1
    <3>. QED
      BY <3>1, <3>2
  <2>3. TextFrom(raw, t, N + 1 - k) \in Seq(Int)
    BY <2>1, <2>2, TextFromType
  <2>. QED
    BY <2>1, <2>3, TextFixed
<1>3. \A k \in Nat : k \in U
  <2>. HIDE DEF U
  <2>. QED
    BY <1>2, StrongInduction
<1>. SUFFICES ASSUME NEW i \in 1 .. N + 1 PROVE t[i] \in Seq(Int)
  OBVIOUS
<1>4. N + 1 - i \in Nat /\ N + 1 - i <= N /\ N + 1 - (N + 1 - i) = i
  BY <1>1
<1>5. N + 1 - i \in U
  BY <1>3, <1>4
<1>. QED
  BY <1>4, <1>5

LEMMA TextIs ==
  ASSUME NEW raw \in Seq(Byte)
  PROVE  TextSteps(raw, Text(raw))
<1>. DEFINE N == Len(raw)
            t == Text(raw)
<1>1. N \in Nat /\ \A i \in 1 .. N + 1 : t[i] = TextFrom(raw, t, i)
  BY TextFixed
<1>. HIDE DEF N, t
<1>2. t[N + 1] = <<>>
  <2>1. N + 1 \in 1 .. N + 1 /\ N + 1 > N
    BY <1>1
  <2>2. TextFrom(raw, t, N + 1) = <<>>
    BY <2>1 DEF TextFrom, N
  <2>. QED
    BY <1>1, <2>1, <2>2
<1>3. ASSUME NEW i \in 1 .. N, raw[i] # SLASH
      PROVE  t[i] = <<raw[i]>> \o t[i + 1]
  <2>1. i \in 1 .. N + 1 /\ ~ (i > N)
    BY <1>1
  <2>. QED
    BY <1>1, <1>3, <2>1 DEF TextFrom, N
<1>4. ASSUME NEW i \in 1 .. N - 1, raw[i] = SLASH, raw[i + 1] \in Letters
      PROVE  t[i] = <<Simple[raw[i + 1]]>> \o t[i + 2]
  <2>1. i \in 1 .. N + 1 /\ ~ (i > N) /\ i # N
    BY <1>1
  <2>. QED
    BY <1>1, <1>4, <2>1 DEF TextFrom, N
<1>5. ASSUME NEW i \in 1 .. N - 3, raw[i] = SLASH, raw[i + 1] = HEX,
             Number(SubSeq(raw, i + 2, i + 3), 16) >= 0
      PROVE  t[i] = <<Number(SubSeq(raw, i + 2, i + 3), 16)>> \o t[i + 4]
  <2>1. i \in 1 .. N + 1 /\ ~ (i > N) /\ i # N /\ i + 3 <= N /\ (i + 2) + 2 - 1 = i + 3
    BY <1>1
  <2>2. HEX \notin Letters
    BY DEF HEX, Letters, SLASH
  <2>3. Digits(raw, i + 2, 2, 16)
    BY <1>5, <2>1 DEF Digits, N
  <2>4. raw[i + 1] \notin Letters
    BY <1>5, <2>2
  <2>. QED
    BY <1>1, <1>5, <2>1, <2>3, <2>4 DEF TextFrom, N, HexAt
<1>. QED
  BY <1>2, <1>3, <1>4, <1>5 DEF TextSteps, N, t

(* The lines stand one after the other in the file.                        *)
Layout(f) ==
  /\ Len(f) \in Nat
  /\ Offset(f, 0) = 0 /\ Offset(f, Len(f)) = Len(Bytes[f])
  /\ \A l \in 0 .. Len(f) : Offset(f, l) \in Nat /\ Offset(f, l) <= Len(Bytes[f])
  /\ \A l \in 1 .. Len(f) : Offset(f, l) = Offset(f, l - 1) + Len(Pieces(f)[l])
  /\ \A l \in 1 .. Len(f) : \A k \in 1 .. Len(Pieces(f)[l]) :
       Bytes[f][Offset(f, l - 1) + k] = Pieces(f)[l][k]

LEMMA JoinIs ==
  ASSUME NEW T, NEW s \in Seq(T), NEW t \in Seq(T)
  PROVE  /\ s \o t \in Seq(T) /\ Len(s \o t) = Len(s) + Len(t)
         /\ \A i \in 1 .. Len(s) : (s \o t)[i] = s[i]
         /\ \A i \in 1 .. Len(t) : (s \o t)[Len(s) + i] = t[i]
OBVIOUS

LEMMA LayoutFact ==
  ASSUME NEW f \in Catalogues
  PROVE  Layout(f)
<1>. DEFINE B == Byte
            ss == Pieces(f)
            N == Len(f)
<1>1. ss \in Seq(Seq(B)) /\ Bytes[f] = FlattenSeq(ss) /\ Len(ss) = N /\ N \in Nat
  BY PiecesType
<1>. HIDE DEF B, ss, N
<1>2. PICK h \in [0 .. N -> Seq(B)] : FlattenSteps(h, ss) /\ FlattenSeq(ss) = h[N]
  BY <1>1, FlattenExists
<1>3. h[0] = <<>> /\ \A i \in 0 .. N - 1 : h[i + 1] = h[i] \o ss[i + 1]
  BY <1>1, <1>2 DEF FlattenSteps
<1>4. \A l \in 0 .. N : h[l] \in Seq(B) /\ Len(h[l]) \in Nat
  BY <1>2
<1>5. ASSUME NEW l \in 0 .. N
      PROVE  Offset(f, l) = Len(h[l])
  <2>. DEFINE p == SubSeq(ss, 1, l)
  <2>1. p \in Seq(Seq(B)) /\ Len(p) = l /\ \A i \in 1 .. l : p[i] = ss[i]
    <3>1. l \in Nat /\ l <= Len(ss) /\ l \in 0 .. Len(ss)
      BY <1>1
    <3>. DEFINE C == Seq(B)
    <3>2. ss \in Seq(C)
      BY <1>1
    <3>. HIDE DEF C
    <3>3. p \in Seq(C) /\ Len(p) = l /\ \A i \in 1 .. l : p[i] = ss[i]
      BY <3>1, <3>2
    <3>. QED
      BY <3>3 DEF C
  <2>. HIDE DEF p
  <2>2. \A i \in 0 .. l - 1 : h[i + 1] = h[i] \o p[i + 1]
    <3>. SUFFICES ASSUME NEW i \in 0 .. l - 1 PROVE h[i + 1] = h[i] \o p[i + 1]
      OBVIOUS
    <3>1. i \in 0 .. N - 1 /\ i + 1 \in 1 .. l
      BY <1>1
    <3>. QED
      BY <1>3, <2>1, <3>1
  <2>3. FlattenSteps(h, p)
    BY <1>3, <2>1, <2>2 DEF FlattenSteps
  <2>4. FlattenSeq(p) = h[l]
    BY <2>1, <2>3, FlattenIs
  <2>. QED
    BY <2>4 DEF Offset, p, ss
<1>6. ASSUME NEW l \in 1 .. N
      PROVE  /\ h[l] = h[l - 1] \o ss[l] /\ ss[l] \in Seq(B) /\ Len(ss[l]) \in Nat
             /\ h[l - 1] \in Seq(B) /\ Len(h[l - 1]) \in Nat
             /\ Len(h[l]) = Len(h[l - 1]) + Len(ss[l])
             /\ \A k \in 1 .. Len(h[l - 1]) : h[l][k] = h[l - 1][k]
             /\ \A k \in 1 .. Len(ss[l]) : h[l][Len(h[l - 1]) + k] = ss[l][k]
  <2>1. l - 1 \in 0 .. N - 1 /\ l - 1 \in 0 .. N /\ (l - 1) + 1 = l /\ l \in 1 .. Len(ss)
    BY <1>1
  <2>2. h[l] = h[l - 1] \o ss[l]
    BY <1>3, <2>1
  <2>. DEFINE C == Seq(B)
  <2>3. ss \in Seq(C)
    BY <1>1
  <2>. HIDE DEF C
  <2>4. ss[l] \in C
    BY <2>1, <2>3
  <2>5. ss[l] \in Seq(B) /\ h[l - 1] \in Seq(B) /\ Len(h[l - 1]) \in Nat /\ Len(ss[l]) \in Nat
    BY <1>4, <2>1, <2>4 DEF C
  <2>. DEFINE x == h[l - 1]
              y == ss[l]
  <2>6. x \in Seq(B) /\ y \in Seq(B)
    BY <2>5
  <2>. HIDE DEF x, y
  <2>7. /\ Len(x \o y) = Len(x) + Len(y)
        /\ \A k \in 1 .. Len(x) : (x \o y)[k] = x[k]
        /\ \A k \in 1 .. Len(y) : (x \o y)[Len(x) + k] = y[k]
    BY <2>6, JoinIs
  <2>8. h[l] = x \o y
    BY <2>2 DEF x, y
  <2>. QED
    BY <2>5, <2>7, <2>8 DEF x, y
<1>7. ASSUME NEW l \in 0 .. N
      PROVE  Len(h[l]) <= Len(h[N]) /\ \A k \in 1 .. Len(h[l]) : h[N][k] = h[l][k]
  <2>. DEFINE U == {m \in 0 .. N : m >= l =>
                      Len(h[l]) <= Len(h[m]) /\ \A k \in 1 .. Len(h[l]) : h[m][k] = h[l][k]}
  <2>1. 0 \in U
    <3>1. 0 >= l => l = 0
      BY <1>1
    <3>. QED
      BY <1>1, <1>4, <3>1
  <2>2. ASSUME NEW m \in 0 .. N - 1, m \in U PROVE m + 1 \in U
    <3>1. m + 1 \in 1 .. N /\ (m + 1) - 1 = m /\ m + 1 \in 0 .. N /\ m \in 0 .. N
      BY <1>1
    <3>2. CASE m + 1 = l
      BY <1>4, <3>1, <3>2
    <3>3. CASE m >= l
      <4>1. Len(h[l]) <= Len(h[m]) /\ \A k \in 1 .. Len(h[l]) : h[m][k] = h[l][k]
        BY <2>2, <3>3
      <4>2. /\ Len(h[m + 1]) = Len(h[m]) + Len(ss[m + 1]) /\ Len(ss[m + 1]) \in Nat
            /\ \A k \in 1 .. Len(h[m]) : h[m + 1][k] = h[m][k]
        <5>. DEFINE n == m + 1
        <5>1. n \in 1 .. N /\ n - 1 = m
          BY <3>1
        <5>. HIDE DEF n
        <5>2. /\ Len(h[n]) = Len(h[n - 1]) + Len(ss[n]) /\ Len(ss[n]) \in Nat
              /\ \A k \in 1 .. Len(h[n - 1]) : h[n][k] = h[n - 1][k]
          BY <1>6, <5>1
        <5>. QED
          BY <5>1, <5>2 DEF n
      <4>3. Len(h[l]) \in Nat /\ Len(h[m]) \in Nat
        BY <1>4, <3>1
      <4>. QED
        BY <3>1, <4>1, <4>2, <4>3
    <3>4. CASE m + 1 < l
      BY <3>1, <3>4
    <3>. QED
      BY <3>1, <3>2, <3>3, <3>4
  <2>. HIDE DEF U
  <2>3. \A m \in 0 .. N : m \in U
    BY <1>1, <2>1, <2>2, IntervalInduction
  <2>4. N \in U /\ N >= l
    BY <1>1, <2>3
  <2>. QED
    BY <2>4 DEF U
<1>8. /\ Bytes[f] = h[N] /\ 0 \in 0 .. N /\ N \in 0 .. N
      /\ Offset(f, 0) = 0 /\ Offset(f, N) = Len(Bytes[f])
  <2>1. 0 \in 0 .. N /\ N \in 0 .. N /\ Bytes[f] = h[N]
    BY <1>1, <1>2
  <2>. QED
    BY <1>3, <1>5, <2>1
<1>9. \A l \in 0 .. N : Offset(f, l) \in Nat /\ Offset(f, l) <= Len(Bytes[f])
  BY <1>4, <1>5, <1>7, <1>8
<1>10. ASSUME NEW l \in 1 .. N
       PROVE  /\ Offset(f, l) = Offset(f, l - 1) + Len(ss[l])
              /\ \A k \in 1 .. Len(ss[l]) : Bytes[f][Offset(f, l - 1) + k] = ss[l][k]
  <2>1. l \in 0 .. N /\ l - 1 \in 0 .. N
    BY <1>1
  <2>2. Offset(f, l) = Len(h[l]) /\ Offset(f, l - 1) = Len(h[l - 1])
    BY <1>5, <2>1
  <2>3. Offset(f, l) = Offset(f, l - 1) + Len(ss[l])
    BY <1>6, <2>2
  <2>4. ASSUME NEW k \in 1 .. Len(ss[l])
        PROVE  h[N][Len(h[l - 1]) + k] = ss[l][k]
    <3>0. Len(h[l - 1]) \in Nat /\ Len(h[l]) = Len(h[l - 1]) + Len(ss[l]) /\ Len(ss[l]) \in Nat
      BY <1>6
    <3>1. Len(h[l - 1]) + k \in 1 .. Len(h[l])
      <4>. DEFINE n == Len(h[l - 1])
                  m == Len(ss[l])
                  o == Len(h[l])
      <4>1. n \in Nat /\ m \in Nat /\ o = n + m /\ k \in 1 .. m
        BY <3>0
      <4>. HIDE DEF n, m, o
      <4>2. n + k \in 1 .. o
        BY <4>1
      <4>. QED
        BY <4>2 DEF n, o
    <3>2. h[N][Len(h[l - 1]) + k] = h[l][Len(h[l - 1]) + k]
      BY <1>7, <2>1, <3>1
    <3>. QED
      BY <1>6, <3>2
  <2>. QED
    BY <1>8, <2>2, <2>3, <2>4
<1>. QED
  BY <1>1, <1>8, <1>9, <1>10 DEF Layout, ss, N

(* What line l of a file is made of.                                       *)
LEMMA LineParts ==
  ASSUME NEW f \in Catalogues, NEW l \in 1 .. Len(f)
  PROVE  /\ IsLine(f[l]) /\ l \in 0 .. Len(f) /\ l - 1 \in 0 .. Len(f) /\ l \in DOMAIN f
         /\ f[l].head \in Seq(Byte) /\ f[l].raw \in Seq(Byte)
         /\ f[l].eol \in Seq(Byte) /\ f[l].eol \in {<<>>, <<LF>>, <<CR, LF>>}
         /\ Len(f[l].head) \in Nat /\ Len(f[l].raw) \in Nat /\ Len(f[l].eol) \in {0, 1, 2}
<1>1. Len(f) \in Nat /\ DOMAIN f = 1 .. Len(f) /\ IsLine(f[l])
  BY CatalogueAssumption
<1>. DEFINE B == Byte
<1>2. f[l].head \in Seq(B) /\ f[l].raw \in Seq(B) /\ f[l].eol \in {<<>>, <<LF>>, <<CR, LF>>}
  BY <1>1 DEF IsLine
<1>3. LF \in B /\ CR \in B
  BY DEF LF, CR, Byte
<1>. HIDE DEF B
<1>4. f[l].eol \in Seq(B)
  <2>1. <<>> \in Seq(B) /\ <<LF>> \in Seq(B) /\ <<CR, LF>> \in Seq(B)
    BY <1>3
  <2>. QED
    BY <1>2, <2>1
<1>5. Len(f[l].head) \in Nat /\ Len(f[l].raw) \in Nat /\ Len(f[l].eol) \in {0, 1, 2}
  BY <1>2
<1>. QED
  BY <1>1, <1>2, <1>4, <1>5 DEF B

LEMMA LineBytes ==
  ASSUME NEW f \in Catalogues, NEW l \in 1 .. Len(f)
  PROVE  LET a == Offset(f, l - 1)
             h == Len(f[l].head)
             r == Len(f[l].raw)
         IN  /\ a \in Nat /\ Offset(f, l) = a + h + r + Len(f[l].eol)
             /\ Offset(f, l) <= Len(Bytes[f])
             /\ \A k \in 1 .. h : Bytes[f][a + k] = f[l].head[k]
             /\ \A k \in 1 .. r : Bytes[f][a + h + k] = f[l].raw[k]
             /\ \A k \in 1 .. Len(f[l].eol) : Bytes[f][a + h + r + k] = f[l].eol[k]
<1>. DEFINE B == Byte
            a == Offset(f, l - 1)
            x == f[l].head
            y == f[l].raw
            z == f[l].eol
            xy == x \o y
            p == xy \o z
<1>1. /\ x \in Seq(B) /\ y \in Seq(B) /\ z \in Seq(B)
      /\ Len(x) \in Nat /\ Len(y) \in Nat /\ Len(z) \in Nat
      /\ l \in 0 .. Len(f) /\ l - 1 \in 0 .. Len(f)
  BY LineParts
<1>2. Pieces(f)[l] = p
  BY DEF Pieces
<1>3. /\ a \in Nat /\ Offset(f, l) = a + Len(p) /\ Offset(f, l) <= Len(Bytes[f])
      /\ \A k \in 1 .. Len(p) : Bytes[f][a + k] = p[k]
  <2>. HIDE DEF x, y, z, xy, p
  <2>1. Layout(f)
    BY LayoutFact
  <2>2. /\ Offset(f, l) = a + Len(Pieces(f)[l])
        /\ \A k \in 1 .. Len(Pieces(f)[l]) : Bytes[f][a + k] = Pieces(f)[l][k]
    BY <2>1 DEF Layout
  <2>3. a \in Nat /\ Offset(f, l) <= Len(Bytes[f])
    BY <1>1, <2>1 DEF Layout
  <2>. HIDE DEF a
  <2>. QED
    BY <1>2, <2>2, <2>3
<1>. HIDE DEF B, a, x, y, z, xy, p
<1>4. /\ xy \in Seq(B) /\ Len(xy) = Len(x) + Len(y)
      /\ \A k \in 1 .. Len(x) : xy[k] = x[k]
      /\ \A k \in 1 .. Len(y) : xy[Len(x) + k] = y[k]
  BY <1>1, JoinIs DEF xy
<1>5. /\ Len(p) = Len(xy) + Len(z)
      /\ \A k \in 1 .. Len(xy) : p[k] = xy[k]
      /\ \A k \in 1 .. Len(z) : p[Len(xy) + k] = z[k]
  <2>1. xy \in Seq(B) /\ z \in Seq(B)
    BY <1>1, <1>4
  <2>2. /\ Len(xy \o z) = Len(xy) + Len(z)
        /\ \A k \in 1 .. Len(xy) : (xy \o z)[k] = xy[k]
        /\ \A k \in 1 .. Len(z) : (xy \o z)[Len(xy) + k] = z[k]
    BY <2>1, JoinIs
  <2>. QED
    BY <2>2 DEF p
<1>6. Offset(f, l) = a + Len(x) + Len(y) + Len(z)
  BY <1>1, <1>3, <1>4, <1>5
<1>7. ASSUME NEW k \in 1 .. Len(x) PROVE Bytes[f][a + k] = x[k]
  <2>1. k \in 1 .. Len(xy) /\ k \in 1 .. Len(p)
    BY <1>1, <1>4, <1>5
  <2>. QED
    BY <1>3, <1>4, <1>5, <2>1
<1>8. ASSUME NEW k \in 1 .. Len(y) PROVE Bytes[f][a + Len(x) + k] = y[k]
  <2>1. Len(x) + k \in 1 .. Len(xy) /\ Len(x) + k \in 1 .. Len(p) /\ a + (Len(x) + k) = a + Len(x) + k
    BY <1>1, <1>3, <1>4, <1>5
  <2>2. Bytes[f][a + (Len(x) + k)] = p[Len(x) + k]
    BY <1>3, <2>1
  <2>. QED
    BY <1>4, <1>5, <2>1, <2>2
<1>9. ASSUME NEW k \in 1 .. Len(z) PROVE Bytes[f][a + Len(x) + Len(y) + k] = z[k]
  <2>1. /\ Len(xy) + k \in 1 .. Len(p)
        /\ a + (Len(xy) + k) = a + Len(x) + Len(y) + k
    BY <1>1, <1>3, <1>4, <1>5
  <2>2. Bytes[f][a + (Len(xy) + k)] = p[Len(xy) + k]
    BY <1>3, <2>1
  <2>. QED
    BY <1>5, <2>1, <2>2
<1>. QED
  BY <1>3, <1>6, <1>7, <1>8, <1>9 DEF a, x, y, z

-----------------------------------------------------------------------------
(* A line and its keys                                                     *)

LEMMA MinIs ==
  ASSUME NEW S, S \subseteq Nat, NEW x \in S, \A y \in S : x <= y
  PROVE  Min(S) = x
<1>1. Min(S) \in S /\ \A y \in S : Min(S) <= y
  BY MinFact
<1>2. Min(S) <= x /\ x <= Min(S) /\ x \in Nat /\ Min(S) \in Nat
  BY <1>1
<1>. QED
  BY <1>2

LEMMA DigitRange == \A c : DigitOf(c) < 10 <=> c \in 48 .. 57
<1>. SUFFICES ASSUME NEW c PROVE DigitOf(c) < 10 <=> c \in 48 .. 57
  OBVIOUS
<1>1. CASE c \in 48 .. 57
  BY <1>1 DEF DigitOf
<1>2. CASE c \in 65 .. 90
  BY <1>2 DEF DigitOf
<1>3. CASE c \in 97 .. 122
  BY <1>3 DEF DigitOf
<1>4. CASE c \notin 48 .. 57 /\ c \notin 65 .. 90 /\ c \notin 97 .. 122
  BY <1>4 DEF DigitOf
<1>. QED
  BY <1>1, <1>2, <1>3, <1>4

LineText(l) == file[l].head \o file[l].raw

(* Line l is what stands at "where", up to the line feed lf.               *)
Shows(l, lf) ==
  /\ where \in Nat /\ where = Offset(file, l - 1) /\ lf + 1 = Offset(file, l)
  /\ lf \in Nat /\ where <= lf /\ lf + 2 <= LastByte
  /\ Len(LineText(l)) \in Nat
  /\ \/ file[l].eol = <<LF>> /\ lf = where + Len(LineText(l))
     \/ /\ file[l].eol = <<CR, LF>> /\ lf = where + Len(LineText(l)) + 1
        /\ mem[where + Len(LineText(l))] = CR
  /\ mem[lf] = LF
  /\ \A k \in 1 .. Len(LineText(l)) :
       mem[where + k - 1] = LineText(l)[k] /\ LineText(l)[k] \notin {LF, NUL}

LEMMA LineTextIs ==
  ASSUME file \in Catalogues, NEW l \in 1 .. Len(file)
  PROVE  /\ LineText(l) \in Seq(Byte) /\ Len(LineText(l)) \in Nat
         /\ Len(LineText(l)) = Len(file[l].head) + Len(file[l].raw)
         /\ \A k \in 1 .. Len(file[l].head) : LineText(l)[k] = file[l].head[k]
         /\ \A k \in 1 .. Len(file[l].raw) :
              LineText(l)[Len(file[l].head) + k] = file[l].raw[k]
<1>. DEFINE B == Byte
            x == file[l].head
            y == file[l].raw
<1>1. x \in Seq(B) /\ y \in Seq(B)
  BY LineParts
<1>2. LineText(l) = x \o y
  BY DEF LineText
<1>. HIDE DEF B, x, y
<1>3. /\ x \o y \in Seq(B) /\ Len(x \o y) = Len(x) + Len(y)
      /\ \A k \in 1 .. Len(x) : (x \o y)[k] = x[k]
      /\ \A k \in 1 .. Len(y) : (x \o y)[Len(x) + k] = y[k]
  BY <1>1, JoinIs
<1>4. Len(x \o y) \in Nat
  BY <1>3
<1>. QED
  BY <1>2, <1>3, <1>4 DEF B, x, y

LEMMA ShowsLine ==
  ASSUME file \in RightSize, CleanFile, NEW l \in 1 .. Len(file),
         where = Offset(file, l - 1), Unread(mem, file, where)
  PROVE  Shows(l, Offset(file, l) - 1)
<1>. DEFINE t  == LineText(l)
            h == Len(file[l].head)
            r == Len(file[l].raw)
            e == Len(file[l].eol)
            b == Bytes[file]
            m == Len(b)
            o == Offset(file, l)
            n == Len(t)
            w == where
            lf == o - 1
<1>1. file \in Catalogues /\ Len(b) <= LastByte - 1 /\ Len(b) \in Nat
  BY BufferBounds DEF RightSize
<1>2. IsLine(file[l]) /\ Clean(file[l]) /\ h \in Nat /\ r \in Nat /\ e \in {0, 1, 2}
  BY <1>1, LineParts DEF CleanFile
<1>3. /\ where \in Nat /\ Offset(file, l) = where + h + r + e /\ Offset(file, l) <= Len(b)
      /\ \A k \in 1 .. h : b[where + k] = file[l].head[k]
      /\ \A k \in 1 .. r : b[where + h + k] = file[l].raw[k]
      /\ \A k \in 1 .. e : b[where + h + r + k] = file[l].eol[k]
  BY <1>1, LineBytes
<1>4. /\ Len(t) = h + r
      /\ \A k \in 1 .. h : t[k] = file[l].head[k]
      /\ \A k \in 1 .. r : t[h + k] = file[l].raw[k]
  BY <1>1, LineTextIs
<1>5. /\ file[l].eol = <<LF>> \/ file[l].eol = <<CR, LF>>
      /\ \A i \in DOMAIN t : t[i] # LF /\ t[i] # NUL
      /\ t \in Seq(Byte)
  BY <1>1, <1>2, LineTextIs DEF IsLine, Clean, LineText
<1>6. \A a \in where .. LastByte : mem[a] = IF a < Len(b) THEN b[a + 1] ELSE NUL
  BY DEF Unread
<1>7. DOMAIN t = 1 .. Len(t)
  BY <1>5
<1>. HIDE DEF t, n, h, r, e, b, m, o, w
<1>13. /\ w \in Nat /\ h \in Nat /\ r \in Nat /\ e \in Nat /\ m \in Nat /\ LastByte \in Nat
       /\ o \in Nat /\ n \in Nat
       /\ o = w + h + r + e /\ o <= m /\ m + 1 <= LastByte /\ n = h + r
  <2>1. e \in Nat
    BY <1>2
  <2>. QED
    BY <1>1, <1>2, <1>3, <1>4, <2>1, BufferBounds DEF m, o, n, w
<1>14. /\ \A k \in 1 .. h : b[w + k] = file[l].head[k]
       /\ \A k \in 1 .. r : b[w + h + k] = file[l].raw[k]
       /\ \A k \in 1 .. e : b[w + h + r + k] = file[l].eol[k]
       /\ \A a \in w .. LastByte : mem[a] = IF a < Len(b) THEN b[a + 1] ELSE NUL
  BY <1>3, <1>6 DEF w
<1>8. ASSUME NEW a \in Nat, a < h + r + e
      PROVE  mem[w + a] = b[w + (a + 1)]
  <2>1. w + a < o /\ w + a \in Nat /\ w <= w + a /\ (w + a) + 1 = w + (a + 1)
    BY <1>8, <1>13
  <2>1a. w + a \in w .. LastByte /\ w + a < m
    BY <1>13, <2>1
  <2>. QED
    BY <1>14, <2>1, <2>1a DEF m
<1>9. ASSUME NEW k \in 1 .. Len(t)
      PROVE  mem[w + k - 1] = t[k]
  <2>1. k - 1 \in Nat /\ k - 1 < h + r + e /\ (k - 1) + 1 = k /\ w + (k - 1) = w + k - 1
    BY <1>9, <1>13 DEF n
  <2>2. mem[w + k - 1] = b[w + k]
    <3>. DEFINE a == k - 1
    <3>. HIDE DEF a
    <3>1. mem[w + a] = b[w + (a + 1)]
      BY <1>8, <2>1 DEF a
    <3>. QED
      BY <2>1, <3>1 DEF a
  <2>3. CASE k <= h
    BY <1>4, <1>14, <2>2, <2>3
  <2>4. CASE ~ (k <= h)
    <3>1. k - h \in 1 .. r /\ w + h + (k - h) = w + k /\ h + (k - h) = k
      BY <1>13, <2>4 DEF n
    <3>. DEFINE j == k - h
    <3>. HIDE DEF j
    <3>2. b[w + h + j] = file[l].raw[j] /\ t[h + j] = file[l].raw[j]
      BY <1>4, <1>14, <3>1 DEF j
    <3>. QED
      BY <2>2, <3>1, <3>2 DEF j
  <2>. QED
    BY <2>3, <2>4
<1>10. ASSUME NEW k \in 1 .. e
       PROVE  mem[w + (h + r + k - 1)] = file[l].eol[k]
  <2>. DEFINE a == h + r + k - 1
  <2>1. a \in Nat /\ a < h + r + e /\ w + (a + 1) = w + h + r + k
    BY <1>13
  <2>. HIDE DEF a
  <2>2. mem[w + a] = b[w + h + r + k]
    BY <1>8, <2>1
  <2>. QED
    BY <1>14, <2>2 DEF a
<1>11. CASE file[l].eol = <<LF>>
  <2>1. e = 1 /\ file[l].eol[1] = LF
    BY <1>11 DEF e
  <2>2. /\ lf = w + Len(t) /\ lf \in Nat /\ w <= lf /\ lf + 2 <= LastByte
        /\ lf + 1 = o /\ w + (h + r + 1 - 1) = lf
    <3>1. /\ lf = w + n /\ lf \in Nat /\ w <= lf /\ lf + 2 <= LastByte
          /\ lf + 1 = o /\ w + (h + r + 1 - 1) = lf
      BY <1>13, <2>1
    <3>. QED
      BY <3>1 DEF n
  <2>3. mem[lf] = LF
    BY <1>10, <2>1, <2>2
  <2>. HIDE DEF lf, e
  <2>4. Shows(l, lf)
    <3>1. /\ where \in Nat /\ where = Offset(file, l - 1) /\ lf + 1 = Offset(file, l)
          /\ lf \in Nat /\ where <= lf /\ lf + 2 <= LastByte /\ Len(LineText(l)) \in Nat
      BY <1>13, <2>2 DEF o, n, t, w
    <3>2. \A k \in 1 .. Len(t) : mem[w + k - 1] = t[k] /\ t[k] \notin {LF, NUL}
      BY <1>5, <1>7, <1>9
    <3>. QED
      BY <1>11, <2>2, <2>3, <3>1, <3>2 DEF Shows, t, w
  <2>. QED
    BY <2>4 DEF lf, o
<1>12. CASE file[l].eol = <<CR, LF>>
  <2>1. e = 2 /\ file[l].eol[1] = CR /\ file[l].eol[2] = LF
    BY <1>12 DEF e
  <2>2. /\ lf = w + Len(t) + 1 /\ lf \in Nat /\ w <= lf /\ lf + 2 <= LastByte
        /\ lf + 1 = o
        /\ w + (h + r + 1 - 1) = w + Len(t) /\ w + (h + r + 2 - 1) = lf
    <3>1. /\ lf = w + n + 1 /\ lf \in Nat /\ w <= lf /\ lf + 2 <= LastByte
          /\ lf + 1 = o
          /\ w + (h + r + 1 - 1) = w + n /\ w + (h + r + 2 - 1) = lf
      BY <1>13, <2>1
    <3>. QED
      BY <3>1 DEF n
  <2>3. mem[lf] = LF /\ mem[w + Len(t)] = CR
    BY <1>10, <2>1, <2>2
  <2>. HIDE DEF lf, e
  <2>4. Shows(l, lf)
    <3>1. /\ where \in Nat /\ where = Offset(file, l - 1) /\ lf + 1 = Offset(file, l)
          /\ lf \in Nat /\ where <= lf /\ lf + 2 <= LastByte /\ Len(LineText(l)) \in Nat
      BY <1>13, <2>2 DEF o, n, t, w
    <3>2. \A k \in 1 .. Len(t) : mem[w + k - 1] = t[k] /\ t[k] \notin {LF, NUL}
      BY <1>5, <1>7, <1>9
    <3>. QED
      BY <1>12, <2>2, <2>3, <3>1, <3>2 DEF Shows, t, w
  <2>. QED
    BY <2>4 DEF lf, o
<1>. QED
  BY <1>5, <1>11, <1>12

LEMMA TheLineFeed ==
  ASSUME NEW l, NEW lf, Shows(l, lf)
  PROVE  LineFeed = {lf}
<1>. DEFINE t == LineText(l)
            n == Len(t)
<1>1. /\ where \in Nat /\ lf \in Nat /\ where <= lf /\ lf + 2 <= LastByte /\ n \in Nat
      /\ mem[lf] = LF
      /\ \/ lf = where + n
         \/ lf = where + n + 1 /\ mem[where + n] = CR
      /\ \A k \in 1 .. n : mem[where + k - 1] \notin {LF, NUL}
  BY DEF Shows
<1>. HIDE DEF t, n
<1>2. ASSUME NEW a \in where .. lf - 1
      PROVE  mem[a] \notin {LF, NUL}
  <2>1. CASE a < where + n
    <3>. DEFINE k == a - where + 1
    <3>1. k \in 1 .. n /\ where + k - 1 = a
      BY <1>1, <2>1
    <3>. HIDE DEF k
    <3>. QED
      BY <1>1, <3>1
  <2>2. CASE ~ (a < where + n)
    <3>1. a = where + n /\ mem[where + n] = CR
      BY <1>1, <2>2
    <3>. QED
      BY <3>1 DEF CR, LF, NUL
  <2>. QED
    BY <2>1, <2>2
<1>3. lf \in LineFeed
  BY <1>1, <1>2, BufferBounds DEF LineFeed
<1>4. ASSUME NEW a \in LineFeed
      PROVE  a = lf
  <2>1. a \in where .. LastByte /\ mem[a] = LF /\ \A b \in where .. a - 1 : mem[b] \notin {LF, NUL}
    BY DEF LineFeed
  <2>2. CASE a < lf
    BY <1>1, <1>2, <2>1, <2>2, BufferBounds
  <2>3. CASE a > lf
    <3>1. lf \in where .. a - 1
      BY <1>1, <2>1, <2>3, BufferBounds
    <3>. QED
      BY <1>1, <2>1, <3>1
  <2>. QED
    BY <1>1, <2>1, <2>2, <2>3, BufferBounds
<1>. QED
  BY <1>3, <1>4

(* The strings in front of a dot and of a colon.                           *)
LEMMA CharsIs ==
  ASSUME NEW t \in Seq(Byte), NEW a \in Nat, NEW i \in Nat \ {0}, NEW n \in Nat,
         i + n - 1 <= Len(t), a + n <= LastByte + 1,
         \A k \in 1 .. n : mem[a + k - 1] = t[i + k - 1]
  PROVE  Chars(a, n) = SubSeq(t, i, i + n - 1)
<1>. DEFINE e == i + n - 1
<1>1. SubSeq(t, i, e) = [k \in 1 .. (1 + e) - i |-> t[i + k - 1]]
  OBVIOUS
<1>2. (1 + e) - i = n
  OBVIOUS
<1>3. \A k \in 1 .. n : ~ (a + k - 1 > LastByte)
  BY BufferBounds
<1>4. Chars(a, n) = [k \in 1 .. n |-> t[i + k - 1]]
  BY <1>3 DEF Chars
<1>. QED
  BY <1>1, <1>2, <1>4

LEMMA Int16Is == \A n \in 0 .. 255 : Int16(n) = n /\ Key(n) = n
<1>. SUFFICES ASSUME NEW n \in 0 .. 255 PROVE Int16(n) = n /\ Key(n) = n
  OBVIOUS
<1>1. (n + 32768) % 65536 = n + 32768 /\ n % 256 = n
  OBVIOUS
<1>. QED
  BY <1>1 DEF Int16, Key

(* Digits are a number, and a small one stays what it is.                  *)
LEMMA DigitsAreNumber ==
  ASSUME NEW s, Len(s) \in Nat, \A i \in DOMAIN s : s[i] \in 48 .. 57, Value(s, 10) < 256
  PROVE  /\ Number(s, 10) = Value(s, 10) /\ Value(s, 10) \in Nat
         /\ Key(Value(s, 10)) = Value(s, 10)
<1>. DEFINE v == Value(s, 10)
<1>1. v \in Nat /\ v < 256
  <2>1. PICK f \in [0 .. Len(s) -> Nat] : v = f[Len(s)]
    BY ValueExists
  <2>. QED
    BY <2>1
<1>2. ~ \E i \in DOMAIN s : DigitOf(s[i]) >= 10
  <2>1. \A c : DigitOf(c) \in Nat
    BY DigitType
  <2>2. \A i \in DOMAIN s : DigitOf(s[i]) < 10
    BY DigitRange
  <2>. QED
    BY <2>1, <2>2
<1>3. Number(s, 10) = Int16(v)
  BY <1>2, Zenon DEF Number
<1>. HIDE DEF v
<1>4. v \in 0 .. 255
  BY <1>1
<1>5. Int16(v) = v /\ Key(v) = v
  BY <1>4, Int16Is
<1>. QED
  BY <1>1, <1>3, <1>5, Zenon DEF v

LEMMA NumberIsDigits ==
  ASSUME NEW s, Number(s, 10) >= 0
  PROVE  \A i \in DOMAIN s : s[i] \in 48 .. 57
<1>. SUFFICES ASSUME NEW i \in DOMAIN s PROVE s[i] \in 48 .. 57
  OBVIOUS
<1>1. CASE DigitOf(s[i]) >= 10
  <2>1. \E j \in DOMAIN s : DigitOf(s[j]) >= 10
    BY <1>1
  <2>2. Number(s, 10) = -1
    BY <2>1, Zenon DEF Number
  <2>. QED
    BY <2>2
<1>2. CASE ~ (DigitOf(s[i]) >= 10)
  BY <1>2, DigitType, DigitRange
<1>. QED
  BY <1>1, <1>2

(* What HasItsKey() says of a line with keys.                              *)
KeyAt(l, d) ==
  /\ d \in 1 .. Len(file[l].head)
  /\ SpellsKeys(LineText(l), d, Len(file[l].head))
  /\ file[l].key = <<Value(SubSeq(LineText(l), 1, d - 1), 10),
                     Value(SubSeq(LineText(l), d + 1, Len(file[l].head) - 1), 10)>>

LEMMA KeyAtIs ==
  ASSUME file \in Catalogues, NEW l \in 1 .. Len(file)
  PROVE  /\ file[l].key # <<>> => \E d : KeyAt(l, d)
         /\ file[l].key = <<>> =>
              \A i, j \in 1 .. Len(LineText(l)) : ~ SpellsKeys(LineText(l), i, j)
<1>1. HasItsKey(file[l])
  BY LineParts DEF IsLine
<1>2. DOMAIN LineText(l) = 1 .. Len(LineText(l))
  <2>. DEFINE B == Byte
  <2>1. LineText(l) \in Seq(B)
    BY LineTextIs
  <2>. HIDE DEF B
  <2>. QED
    BY <2>1
<1>3. ASSUME file[l].key # <<>>
      PROVE  \E d : KeyAt(l, d)
  BY <1>1, <1>3 DEF HasItsKey, KeyAt, LineText
<1>4. ASSUME file[l].key = <<>>
      PROVE  \A i, j \in 1 .. Len(LineText(l)) : ~ SpellsKeys(LineText(l), i, j)
  <2>1. \A i, j \in DOMAIN LineText(l) : ~ SpellsKeys(LineText(l), i, j)
    BY <1>1, <1>4 DEF HasItsKey, LineText
  <2>. QED
    BY <1>2, <2>1
<1>. QED
  BY <1>3, <1>4

(* The reader finds the keys of a line with keys, and its text.            *)
LEMMA KeysFound ==
  ASSUME file \in Catalogues, CleanFile, NEW l \in 1 .. Len(file), NEW lf, Shows(l, lf),
         file[l].key # <<>>
  PROVE  /\ HasKeys(lf) /\ Colon(lf) + 1 = TextAt(l)
         /\ file[l].key = <<Key(Key1(lf)), Key(Key2(lf))>>
         /\ where <= Dot(lf) /\ Dot(lf) < Colon(lf)
<1>. DEFINE t == LineText(l)
            c == Len(file[l].head)
            n == Len(t)
            w == where
            cl == Colon(lf)
            dl == Dot(lf)
<1>1. PICK d : KeyAt(l, d)
  BY KeyAtIs
<1>. DEFINE s1 == SubSeq(t, 1, d - 1)
            s2 == SubSeq(t, d + 1, c - 1)
<1>2. /\ d \in 1 .. c /\ 1 < d /\ d < c /\ t[d] = DOT /\ t[c] = COLON
      /\ \A i \in 1 .. c - 1 : i # d => t[i] \in 48 .. 57
  BY <1>1 DEF KeyAt, SpellsKeys
<1>20. file[l].key = <<Value(s1, 10), Value(s2, 10)>>
  BY <1>1 DEF KeyAt
<1>3. c \in Nat /\ n \in Nat /\ c <= n /\ t \in Seq(Byte)
  <2>1. c \in Nat /\ Len(file[l].raw) \in Nat
    BY LineParts
  <2>2. n \in Nat /\ n = c + Len(file[l].raw) /\ t \in Seq(Byte)
    BY LineTextIs
  <2>. HIDE DEF t, n, c
  <2>. QED
    BY <2>1, <2>2
<1>4. /\ w \in Nat /\ lf \in Nat /\ LastByte \in Nat /\ w + n <= lf /\ lf + 2 <= LastByte
      /\ \A k \in 1 .. n : mem[w + k - 1] = t[k]
      /\ Offset(file, l - 1) = w
  BY BufferBounds DEF Shows
<1>5. Clean(file[l])
  <2>1. l \in DOMAIN file
    BY LineParts
  <2>. QED
    BY <2>1 DEF CleanFile
<1>. HIDE DEF t, c, n, w, s1, s2, cl, dl
<1>6. cl = w + c - 1
  <2>. DEFINE S == {a \in w .. lf : mem[a] = COLON} \cup {lf}
              x == w + c - 1
  <2>1. x \in w .. lf /\ mem[x] = COLON
    <3>1. c \in 1 .. n /\ x = w + c - 1
      BY <1>2, <1>3
    <3>2. mem[x] = t[c]
      BY <1>4, <3>1
    <3>3. x \in w .. lf
      <4>1. w \in Nat /\ c \in Nat /\ n \in Nat /\ lf \in Nat /\ 1 <= c /\ c <= n /\ w + n <= lf
        BY <1>3, <1>4, <3>1
      <4>. QED
        BY <4>1
    <3>. QED
      BY <1>2, <3>2, <3>3
  <2>2. ASSUME NEW a \in w .. lf, mem[a] = COLON
        PROVE  x <= a
    <3>. SUFFICES ASSUME a < x PROVE FALSE
      BY <2>1, <1>4
    <3>. DEFINE k == a - w + 1
    <3>1. k \in 1 .. c - 1 /\ k \in 1 .. n /\ w + k - 1 = a
      <4>1. w \in Nat /\ c \in Nat /\ n \in Nat /\ lf \in Nat /\ c <= n
        BY <1>3, <1>4
      <4>2. a \in Nat /\ w <= a /\ a < w + c - 1
        BY <4>1
      <4>. QED
        BY <4>1, <4>2
    <3>. HIDE DEF k
    <3>2. t[k] = 58
      BY <1>4, <2>2, <3>1 DEF COLON
    <3>3. k = d => t[k] = 46
      BY <1>2 DEF DOT
    <3>4. k # d => t[k] \in 48 .. 57
      BY <1>2, <3>1
    <3>. QED
      BY <3>2, <3>3, <3>4
  <2>3. S \subseteq Nat /\ x \in S /\ \A y \in S : x <= y
    BY <1>4, <2>1, <2>2
  <2>. HIDE DEF S, x
  <2>4. Min(S) = x
    BY <2>3, MinIs
  <2>. QED
    BY <2>4 DEF S, x, Colon, cl, w
<1>7. dl = w + d - 1
  <2>. DEFINE S == {a \in w .. cl : mem[a] = DOT} \cup {cl}
              x == w + d - 1
  <2>1. x \in w .. cl /\ mem[x] = DOT /\ cl \in Nat
    <3>1. d \in 1 .. n /\ x = w + d - 1
      BY <1>2, <1>3
    <3>2. mem[x] = t[d]
      BY <1>4, <3>1
    <3>3. x \in w .. cl /\ cl \in Nat
      <4>1. w \in Nat /\ c \in Nat /\ d \in Nat /\ 1 <= d /\ d < c /\ cl = w + c - 1
        BY <1>2, <1>3, <1>4, <1>6
      <4>. QED
        BY <4>1
    <3>. QED
      BY <1>2, <3>2, <3>3
  <2>2. ASSUME NEW a \in w .. cl, mem[a] = DOT
        PROVE  x <= a
    <3>. SUFFICES ASSUME a < x PROVE FALSE
      BY <2>1, <1>4
    <3>. DEFINE k == a - w + 1
    <3>1. k \in 1 .. c - 1 /\ k \in 1 .. n /\ w + k - 1 = a /\ k # d
      <4>1. w \in Nat /\ c \in Nat /\ d \in Nat /\ n \in Nat /\ d < c /\ c <= n
        BY <1>2, <1>3, <1>4
      <4>2. a \in Nat /\ w <= a /\ a < w + d - 1
        BY <2>1, <4>1
      <4>. QED
        BY <4>1, <4>2
    <3>. HIDE DEF k
    <3>2. t[k] = 46
      BY <1>4, <2>2, <3>1 DEF DOT
    <3>3. t[k] \in 48 .. 57
      BY <1>2, <3>1
    <3>. QED
      BY <3>2, <3>3
  <2>3. S \subseteq Nat /\ x \in S /\ \A y \in S : x <= y
    BY <1>4, <2>1, <2>2
  <2>. HIDE DEF S, x
  <2>4. Min(S) = x
    BY <2>3, MinIs
  <2>. QED
    BY <2>4 DEF S, x, Dot, dl, cl, w
<1>21. /\ c \in Nat /\ d \in Nat /\ n \in Nat /\ w \in Nat /\ lf \in Nat
       /\ cl \in Nat /\ dl \in Nat /\ LastByte \in Nat
       /\ 1 < d /\ d < c /\ c <= n /\ w + n <= lf /\ lf + 2 <= LastByte
       /\ cl = w + c - 1 /\ dl = w + d - 1
  BY <1>2, <1>3, <1>4, <1>6, <1>7
<1>8. mem[w] \in 48 .. 57 /\ cl < lf /\ w <= dl /\ dl < cl
  <2>1. 1 \in 1 .. c - 1 /\ 1 # d /\ 1 \in 1 .. n /\ w + 1 - 1 = w
    BY <1>2, <1>3, <1>4
  <2>2. mem[w] = t[1]
    BY <1>4, <2>1
  <2>3. cl < lf /\ w <= dl /\ dl < cl
    BY <1>2, <1>3, <1>4, <1>6, <1>7
  <2>. QED
    BY <1>2, <2>1, <2>2, <2>3
<1>9. HasDot(lf)
  BY <1>8 DEF HasDot, HasColon, w, cl, dl
<1>10. Chars(w, dl - w) = s1 /\ dl - w = d - 1
  <2>. DEFINE m == d - 1
  <2>1. m \in Nat /\ dl - w = m /\ 1 + m - 1 = m /\ m <= n /\ w + m <= LastByte + 1
    BY <1>21
  <2>2. \A k \in 1 .. m : mem[w + k - 1] = t[1 + k - 1]
    <3>. SUFFICES ASSUME NEW k \in 1 .. m PROVE mem[w + k - 1] = t[1 + k - 1]
      OBVIOUS
    <3>1. k \in 1 .. n /\ 1 + k - 1 = k
      BY <2>1, <1>3
    <3>. QED
      BY <1>4, <3>1
  <2>. HIDE DEF m
  <2>4. /\ t \in Seq(Byte) /\ w \in Nat /\ 1 \in Nat \ {0} /\ m \in Nat
        /\ 1 + m - 1 <= Len(t) /\ w + m <= LastByte + 1
    BY <1>3, <1>21, <2>1 DEF n
  <2>. HIDE DEF t
  <2>3. Chars(w, m) = SubSeq(t, 1, 1 + m - 1)
    BY <2>2, <2>4, CharsIs
  <2>. QED
    BY <2>1, <2>3 DEF m, s1
<1>11. Chars(dl + 1, cl - dl - 1) = s2 /\ cl - dl - 1 = c - d - 1
  <2>. DEFINE m == c - d - 1
              a == dl + 1
              i == d + 1
  <2>1. /\ m \in Nat /\ cl - dl - 1 = m /\ i + m - 1 = c - 1 /\ c - 1 <= n
        /\ a \in Nat /\ a + m <= LastByte + 1 /\ i \in Nat \ {0} /\ a + 1 = w + i
    BY <1>21
  <2>. HIDE DEF m, a, i
  <2>2. \A k \in 1 .. m : mem[a + k - 1] = t[i + k - 1]
    <3>. SUFFICES ASSUME NEW k \in 1 .. m PROVE mem[a + k - 1] = t[i + k - 1]
      OBVIOUS
    <3>. DEFINE j == i + k - 1
    <3>1. j \in 1 .. n /\ w + j - 1 = a + k - 1
      BY <2>1, <1>21
    <3>. HIDE DEF j
    <3>2. mem[w + j - 1] = t[j]
      BY <1>4, <3>1
    <3>. QED
      BY <3>1, <3>2 DEF j
  <2>4. /\ t \in Seq(Byte) /\ a \in Nat /\ i \in Nat \ {0} /\ m \in Nat
        /\ i + m - 1 <= Len(t) /\ a + m <= LastByte + 1
    BY <1>3, <1>21, <2>1 DEF n
  <2>3. Chars(a, m) = SubSeq(t, i, i + m - 1)
    BY <2>2, <2>4, CharsIs
  <2>. QED
    BY <2>1, <2>3 DEF m, a, i, s2
<1>12. Value(s1, 10) < 256 /\ Value(s2, 10) < 256
  <2>1. file[l].key[1] = Value(s1, 10) /\ file[l].key[2] = Value(s2, 10)
    BY <1>20
  <2>2. file[l].key[1] < 256 /\ file[l].key[2] < 256
    BY <1>5 DEF Clean
  <2>. QED
    BY <2>1, <2>2
<1>13. Len(s1) \in Nat /\ \A i \in DOMAIN s1 : s1[i] \in 48 .. 57
  <2>. DEFINE m == d - 1
  <2>1. m \in Nat /\ m <= LastByte
    BY <1>2, <1>3, <1>4
  <2>. HIDE DEF m
  <2>2. s1 = [k \in 1 .. m |-> IF w + k - 1 > LastByte THEN NUL ELSE mem[w + k - 1]]
    BY <1>10 DEF Chars, m
  <2>3. Len(s1) = m /\ DOMAIN s1 = 1 .. m
    BY <2>1, <2>2
  <2>4. ASSUME NEW k \in 1 .. m PROVE s1[k] \in 48 .. 57
    <3>1. k \in 1 .. n /\ k \in 1 .. c - 1 /\ k # d /\ ~ (w + k - 1 > LastByte)
      BY <1>2, <1>3, <1>4 DEF m
    <3>2. s1[k] = t[k]
      BY <1>4, <2>2, <3>1
    <3>. QED
      BY <1>2, <3>1, <3>2
  <2>. QED
    BY <2>1, <2>3, <2>4
<1>14. Len(s2) \in Nat /\ \A i \in DOMAIN s2 : s2[i] \in 48 .. 57
  <2>. DEFINE m == c - d - 1
              a == dl + 1
  <2>1. m \in Nat /\ a \in Nat /\ a = w + d
    BY <1>2, <1>3, <1>4, <1>7
  <2>. HIDE DEF m, a
  <2>2. s2 = [k \in 1 .. m |-> IF a + k - 1 > LastByte THEN NUL ELSE mem[a + k - 1]]
    BY <1>11 DEF Chars, m, a
  <2>3. Len(s2) = m /\ DOMAIN s2 = 1 .. m
    BY <2>1, <2>2
  <2>4. ASSUME NEW k \in 1 .. m PROVE s2[k] \in 48 .. 57
    <3>. DEFINE j == d + k
    <3>1. j \in 1 .. n /\ j \in 1 .. c - 1 /\ j # d /\ ~ (a + k - 1 > LastByte) /\ w + j - 1 = a + k - 1
      BY <1>2, <1>3, <1>4, <2>1 DEF m
    <3>. HIDE DEF j
    <3>2. s2[k] = t[j]
      BY <1>4, <2>2, <3>1
    <3>. QED
      BY <1>2, <3>1, <3>2
  <2>. QED
    BY <2>1, <2>3, <2>4
<1>15. /\ Number(s1, 10) = Value(s1, 10) /\ Value(s1, 10) \in Nat
       /\ Number(s2, 10) = Value(s2, 10) /\ Value(s2, 10) \in Nat
       /\ Key(Value(s1, 10)) = Value(s1, 10) /\ Key(Value(s2, 10)) = Value(s2, 10)
  BY <1>12, <1>13, <1>14, DigitsAreNumber
<1>16. Key1(lf) = Value(s1, 10) /\ Key2(lf) = Value(s2, 10)
  BY <1>10, <1>11, <1>15 DEF Key1, Key2, w, cl, dl
<1>17. HasKeys(lf)
  BY <1>9, <1>15, <1>16 DEF HasKeys
<1>18. file[l].key = <<Key(Key1(lf)), Key(Key2(lf))>>
  BY <1>15, <1>16, <1>20
<1>19. cl + 1 = TextAt(l)
  BY <1>2, <1>3, <1>4, <1>6 DEF TextAt, c
<1>. QED
  BY <1>8, <1>17, <1>18, <1>19 DEF cl, dl, w

(* ... and none in a line without.                                         *)
LEMMA NoKeysFound ==
  ASSUME file \in Catalogues, NEW l \in 1 .. Len(file), NEW lf, Shows(l, lf),
         file[l].key = <<>>
  PROVE  ~ HasKeys(lf)
<1>. SUFFICES ASSUME HasKeys(lf) PROVE FALSE
  OBVIOUS
<1>. DEFINE t == LineText(l)
            n == Len(t)
            w == where
            cl == Colon(lf)
            dl == Dot(lf)
            c == cl - w + 1
            d == dl - w + 1
<1>1. \A i, j \in 1 .. n : ~ SpellsKeys(t, i, j)
  BY KeyAtIs
<1>2. /\ w \in Nat /\ lf \in Nat /\ LastByte \in Nat /\ w <= lf /\ lf + 2 <= LastByte /\ n \in Nat
      /\ \/ lf = w + n
         \/ lf = w + n + 1 /\ mem[w + n] = CR
      /\ \A k \in 1 .. n : mem[w + k - 1] = t[k]
  BY BufferBounds DEF Shows
<1>3. /\ mem[w] \in 48 .. 57 /\ cl < lf /\ dl < cl
      /\ Number(Chars(w, dl - w), 10) >= 0 /\ Number(Chars(dl + 1, cl - dl - 1), 10) >= 0
  BY DEF HasKeys, HasDot, HasColon, Key1, Key2
<1>4. lf \in w .. LastByte
  BY <1>2
<1>5. cl \in w .. lf /\ dl \in w .. cl
  BY <1>2, <1>4, ColonInLine, DotInLine
<1>6. mem[cl] = COLON
  <2>. DEFINE S == {a \in w .. lf : mem[a] = COLON} \cup {lf}
  <2>1. S \subseteq Nat /\ S # {}
    BY <1>2
  <2>. HIDE DEF S
  <2>2. Min(S) \in S
    BY <2>1, MinFact
  <2>3. cl = Min(S)
    BY DEF Colon, S
  <2>. QED
    BY <1>2, <1>3, <1>5, <2>2, <2>3 DEF S
<1>7. mem[dl] = DOT
  <2>. DEFINE S == {a \in w .. cl : mem[a] = DOT} \cup {cl}
  <2>1. S \subseteq Nat /\ S # {}
    BY <1>2, <1>5
  <2>. HIDE DEF S
  <2>2. Min(S) \in S
    BY <2>1, MinFact
  <2>3. dl = Min(S)
    BY DEF Dot, S
  <2>. QED
    BY <1>2, <1>3, <1>5, <2>2, <2>3 DEF S
<1>. HIDE DEF t, n, w, cl, dl
<1>8. cl \in Nat /\ dl \in Nat /\ w < dl /\ w + c - 1 = cl /\ w + d - 1 = dl
  <2>1. w # dl
    BY <1>3, <1>7 DEF DOT
  <2>. QED
    BY <1>2, <1>5, <2>1
<1>9. cl < w + n
  <2>1. cl # w + n \/ lf = w + n
    BY <1>2, <1>6 DEF COLON, CR
  <2>. QED
    BY <1>2, <1>3, <1>8, <2>1
<1>10. c \in 1 .. n /\ d \in 1 .. n /\ 1 < d /\ d < c
  BY <1>2, <1>3, <1>8, <1>9
<1>11. t[c] = COLON /\ t[d] = DOT
  <2>. HIDE DEF c, d
  <2>. QED
    BY <1>2, <1>6, <1>7, <1>8, <1>10
<1>12. ASSUME NEW i \in 1 .. c - 1, i # d
       PROVE  t[i] \in 48 .. 57
  <2>1. CASE i < d
    <3>. DEFINE m == dl - w
                s == Chars(w, m)
    <3>1. m \in Nat /\ i \in 1 .. m /\ i \in 1 .. n /\ ~ (w + i - 1 > LastByte)
      BY <1>2, <1>8, <1>10, <2>1
    <3>. HIDE DEF m
    <3>2. i \in DOMAIN s /\ s[i] = mem[w + i - 1]
      BY <3>1 DEF Chars
    <3>3. s[i] \in 48 .. 57
      BY <1>3, <3>2, NumberIsDigits DEF m
    <3>. QED
      BY <1>2, <3>1, <3>2, <3>3
  <2>2. CASE i > d
    <3>. DEFINE m == cl - dl - 1
                a == dl + 1
                k == i - d
                s == Chars(a, m)
    <3>1. /\ m \in Nat /\ k \in 1 .. m /\ i \in 1 .. n /\ a + k - 1 = w + i - 1
          /\ ~ (w + i - 1 > LastByte)
      BY <1>2, <1>8, <1>10, <2>2
    <3>2. Number(s, 10) >= 0
      BY <1>3
    <3>. HIDE DEF m, a, k
    <3>3. k \in DOMAIN s /\ s[k] = mem[w + i - 1]
      BY <3>1 DEF Chars
    <3>4. s[k] \in 48 .. 57
      BY <3>2, <3>3, NumberIsDigits
    <3>. QED
      BY <1>2, <3>1, <3>3, <3>4
  <2>3. i \in Int /\ d \in Int
    BY <1>10
  <2>. QED
    BY <1>12, <2>1, <2>2, <2>3
<1>13. SpellsKeys(t, d, c)
  BY <1>10, <1>11, <1>12 DEF SpellsKeys
<1>. QED
  BY <1>1, <1>10, <1>13

-----------------------------------------------------------------------------
(* Decoding a text in place                                                *)

LEMMA AppendJoin ==
  ASSUME NEW x \in Seq(Int), NEW c \in Int, NEW y \in Seq(Int)
  PROVE  Append(x, c) \o y = x \o (<<c>> \o y)
<1>. DEFINE S == Int
            one == <<c>>
<1>1. c \in S /\ x \in Seq(S) /\ y \in Seq(S)
  OBVIOUS
<1>. HIDE DEF S
<1>2. one \in Seq(S)
  BY <1>1
<1>4. Append(x, c) = x \o one
  BY <1>1
<1>. HIDE DEF one
<1>3. (x \o one) \o y = x \o (one \o y)
  BY <1>1, <1>2, ConcatAssociative
<1>. QED
  BY <1>3, <1>4 DEF one

(* The next n characters of a text stand for the character c.              *)
LEMMA DecodeStep ==
  ASSUME NEW raw \in Seq(Byte), NEW m, DOMAIN m = -1 .. LastByte,
         NEW a \in Nat, NEW s \in Nat, NEW d \in Nat, a + Len(raw) <= LastByte,
         \A i \in 1 .. d - a : m[a + i - 1] \in Int,
         Decoding(m, a, s, d, raw),
         NEW n \in Nat \ {0}, NEW c \in Int, c # NUL,
         s - a + n <= Len(raw),
         Text(raw)[s - a + 1] = <<c>> \o Text(raw)[s - a + n + 1],
         ~ Starts(raw)[s - a + n]
  PROVE  Decoding([m EXCEPT ![d] = c], a, s + n, d + 1, raw)
<1>. DEFINE R == Len(raw)
            k == s - a
            j == d - a
            w == [m EXCEPT ![d] = c]
            st == Stored(m, a, d)
            T == Text(raw)
<1>1. k \in 0 .. R /\ j \in 0 .. k /\ R \in Nat /\ k + n <= R
  BY DEF Decoding
<1>2. /\ st \o T[k + 1] = Documented(raw)
      /\ \A i \in 1 .. j : m[a + i - 1] # NUL
      /\ \A i \in k + 1 .. R : m[a + i - 1] = raw[i]
  BY DEF Decoding
<1>3. T[k + 1] = <<c>> \o T[k + n + 1] /\ ~ Starts(raw)[k + n]
  OBVIOUS
<1>4. T[k + n + 1] \in Seq(Int)
  <2>1. k + n + 1 \in 1 .. R + 1
    BY <1>1
  <2>. QED
    BY <2>1, TextDomain
<1>. HIDE DEF R, T
<1>5. st \in Seq(Int)
  <2>1. st = [i \in 1 .. j |-> m[a + i - 1]]
    BY DEF Stored
  <2>. HIDE DEF st, j
  <2>2. \A i \in 1 .. j : m[a + i - 1] \in Int
    BY DEF j
  <2>. QED
    BY <1>1, <2>1, <2>2
<1>6. d \in DOMAIN m /\ d <= s /\ a <= d /\ a + R <= LastByte
  <2>1. d <= s /\ a <= d
    BY <1>1
  <2>. QED
    BY <1>1, <2>1, BufferBounds DEF R
<1>7. w[d] = c /\ \A b \in DOMAIN m : b # d => w[b] = m[b]
  BY <1>6
<1>. HIDE DEF w
<1>8. ASSUME NEW i \in 1 .. j
      PROVE  w[a + i - 1] = m[a + i - 1]
  <2>1. a + i - 1 \in -1 .. LastByte /\ a + i - 1 # d
    BY <1>1, <1>6, BufferBounds
  <2>. QED
    BY <1>7, <2>1
<1>9. a + (j + 1) - 1 = d /\ (d + 1) - a = j + 1 /\ (s + n) - a = k + n
  BY <1>1
<1>10. Stored(w, a, d + 1) = Append(st, c)
  <2>1. Stored(w, a, d + 1) = [i \in 1 .. j + 1 |-> w[a + i - 1]]
    BY <1>9 DEF Stored
  <2>2. st = [i \in 1 .. j |-> m[a + i - 1]]
    BY DEF Stored
  <2>. HIDE DEF st, j
  <2>3. j \in Nat
    BY <1>1
  <2>4. Append(st, c) = [i \in 1 .. j + 1 |-> IF i = j + 1 THEN c ELSE m[a + i - 1]]
    BY <2>2, <2>3
  <2>5. \A i \in 1 .. j + 1 : w[a + i - 1] = IF i = j + 1 THEN c ELSE m[a + i - 1]
    <3>. SUFFICES ASSUME NEW i \in 1 .. j + 1
                  PROVE  w[a + i - 1] = IF i = j + 1 THEN c ELSE m[a + i - 1]
      OBVIOUS
    <3>1. CASE i = j + 1
      BY <1>7, <1>9, <3>1
    <3>2. CASE i # j + 1
      <4>1. i \in 1 .. j
        BY <2>3, <3>2
      <4>. QED
        BY <1>8, <3>2, <4>1
    <3>. QED
      BY <3>1, <3>2
  <2>. QED
    BY <2>1, <2>4, <2>5
<1>11. Append(st, c) \o T[k + n + 1] = Documented(raw)
  <2>. DEFINE rest == T[k + n + 1]
  <2>1. st \in Seq(Int) /\ rest \in Seq(Int) /\ c \in Int
    BY <1>4, <1>5
  <2>2. T[k + 1] = <<c>> \o rest
    BY <1>3
  <2>. HIDE DEF st, rest
  <2>3. Append(st, c) \o rest = st \o (<<c>> \o rest)
    BY <2>1, AppendJoin
  <2>. QED
    BY <1>2, <2>2, <2>3 DEF rest
<1>12. \A i \in 1 .. j + 1 : w[a + i - 1] # NUL
  <2>. SUFFICES ASSUME NEW i \in 1 .. j + 1 PROVE w[a + i - 1] # NUL
    OBVIOUS
  <2>1. CASE i = j + 1
    BY <1>7, <1>9, <2>1
  <2>2. CASE i # j + 1
    <3>1. i \in 1 .. j
      BY <1>1, <2>2
    <3>. QED
      BY <1>2, <1>8, <3>1
  <2>. QED
    BY <2>1, <2>2
<1>13. \A i \in k + n + 1 .. R : w[a + i - 1] = raw[i]
  <2>. SUFFICES ASSUME NEW i \in k + n + 1 .. R PROVE w[a + i - 1] = raw[i]
    OBVIOUS
  <2>1. i \in k + 1 .. R /\ a + i - 1 # d /\ a + i - 1 \in -1 .. LastByte
    BY <1>1, <1>6, BufferBounds
  <2>. QED
    BY <1>2, <1>7, <2>1
<1>14. k + n \in 0 .. R /\ j + 1 \in 0 .. k + n /\ k + n # 0
  BY <1>1
<1>. HIDE DEF k, j, st
<1>15. /\ (s + n) - a \in 0 .. R /\ (d + 1) - a \in 0 .. (s + n) - a
       /\ Stored(w, a, d + 1) \o T[(s + n) - a + 1] = Documented(raw)
       /\ \A i \in 1 .. (d + 1) - a : w[a + i - 1] # NUL
       /\ \A i \in (s + n) - a + 1 .. R : w[a + i - 1] = raw[i]
       /\ ~ Starts(raw)[(s + n) - a]
  BY <1>3, <1>9, <1>10, <1>11, <1>12, <1>13, <1>14
<1>. QED
  BY <1>15 DEF Decoding, R, T, w

(* Two hexadecimal digits are a byte, and no backslash.                    *)
LEMMA HexPair ==
  ASSUME NEW raw \in Seq(Byte), NEW i \in Nat \ {0}, i + 1 <= Len(raw),
         Number(SubSeq(raw, i, i + 1), 16) >= 0
  PROVE  /\ Number(SubSeq(raw, i, i + 1), 16) \in 0 .. 255
         /\ raw[i] # SLASH /\ raw[i + 1] # SLASH
<1>. DEFINE s == SubSeq(raw, i, i + 1)
            v == Value(s, 16)
            x == DigitOf(raw[i])
            y == DigitOf(raw[i + 1])
<1>1. s = [k \in 1 .. 2 |-> raw[i + k - 1]]
  <2>1. s = [k \in 1 .. (1 + (i + 1)) - i |-> raw[i + k - 1]]
    OBVIOUS
  <2>2. (1 + (i + 1)) - i = 2
    OBVIOUS
  <2>. QED
    BY <2>1, <2>2
<1>2. Len(s) = 2 /\ DOMAIN s = 1 .. 2 /\ s[1] = raw[i] /\ s[2] = raw[i + 1]
  <2>. HIDE DEF s
  <2>. QED
    BY <1>1
<1>3. ~ \E k \in DOMAIN s : DigitOf(s[k]) >= 16
  <2>. SUFFICES ASSUME \E k \in DOMAIN s : DigitOf(s[k]) >= 16 PROVE FALSE
    OBVIOUS
  <2>1. Number(s, 16) = -1
    BY Zenon DEF Number
  <2>. HIDE DEF s
  <2>. QED
    BY <2>1 DEF s
<1>4. Number(s, 16) = Int16(v)
  BY <1>3, Zenon DEF Number
<1>5. x \in 0 .. 15 /\ y \in 0 .. 15
  <2>1. x \in Nat /\ y \in Nat
    BY DigitType
  <2>2. ~ (x >= 16) /\ ~ (y >= 16)
    <3>. HIDE DEF s
    <3>. QED
      BY <1>2, <1>3
  <2>. HIDE DEF x, y
  <2>. QED
    BY <2>1, <2>2
<1>6. raw[i] # SLASH /\ raw[i + 1] # SLASH
  <2>1. DigitOf(SLASH) = 99
    BY DEF DigitOf, SLASH
  <2>2. x # 99 /\ y # 99
    <3>. HIDE DEF x, y
    <3>. QED
      BY <1>5
  <2>3. raw[i] = SLASH => x = 99
    BY <2>1, Zenon
  <2>4. raw[i + 1] = SLASH => y = 99
    BY <2>1, Zenon
  <2>. QED
    BY <2>2, <2>3, <2>4, Zenon
<1>7. v = x * 16 + y
  <2>. HIDE DEF s
  <2>3. Len(s) \in Nat /\ 16 \in Nat
    BY <1>2
  <2>1. PICK f \in [0 .. Len(s) -> Nat] : ValueSteps(f, s, 16) /\ Value(s, 16) = f[Len(s)]
    BY <2>3, ValueExists
  <2>2. f[0] = 0 /\ f[1] = f[0] * 16 + DigitOf(s[1]) /\ f[2] = f[1] * 16 + DigitOf(s[2])
    BY <1>2, <2>1 DEF ValueSteps
  <2>6. DigitOf(s[1]) = x /\ DigitOf(s[2]) = y
    BY <1>2, Zenon
  <2>4. v = f[2]
    BY <1>2, <2>1, Zenon
  <2>. HIDE DEF x, y, v
  <2>5. f[1] = x
    <3>1. x \in Nat
      BY <1>5
    <3>. QED
      BY <2>2, <2>6, <3>1
  <2>. QED
    BY <2>2, <2>6, <2>4, <2>5, Zenon
<1>. HIDE DEF v, x, y
<1>8. v \in 0 .. 255
  BY <1>5, <1>7
<1>9. Int16(v) = v
  BY <1>8, Int16Is
<1>. QED
  BY <1>4, <1>6, <1>8, <1>9 DEF s

-----------------------------------------------------------------------------
(* The line falls into strings                                             *)

(* Only the line itself is cut, at its end and around its keys.            *)
LEMMA CutLine ==
  ASSUME TypeInv, file \in Catalogues, CleanFile, NEW l \in 1 .. Len(file), NEW lf,
         Shows(l, lf), where > 0 => mem[where - 1] = NUL, Cut(lf)
  PROVE  /\ mem' \in [-1 .. LastByte -> 0 .. 255] /\ mem'[lf] = NUL
         /\ \A a \in lf + 1 .. LastByte : mem'[a] = mem[a]
         /\ \A a \in 0 .. where - 1 : mem'[a] = mem[a]
         /\ file[l].key # <<>> =>
              /\ \A k \in 1 .. Len(file[l].raw) : mem'[TextAt(l) + k - 1] = file[l].raw[k]
              /\ mem'[TextEnd(l)] = NUL
<1>. DEFINE t == LineText(l)
            n == Len(t)
            w == where
            h == Len(file[l].head)
            r == Len(file[l].raw)
            cl == Colon(lf)
            dl == Dot(lf)
            ends == LineEnd(lf) \cup {a \in {cl} : HasColon(lf)} \cup {a \in {dl} : HasDot(lf)}
<1>1. /\ w \in Nat /\ lf \in Nat /\ LastByte \in Nat /\ n \in Nat
      /\ w <= lf /\ lf + 2 <= LastByte /\ Offset(file, l - 1) = w
      /\ \/ file[l].eol = <<LF>> /\ lf = w + n
         \/ file[l].eol = <<CR, LF>> /\ lf = w + n + 1 /\ mem[w + n] = CR
      /\ \A k \in 1 .. n : mem[w + k - 1] = t[k]
  BY BufferBounds DEF Shows
<1>2. /\ h \in Nat /\ r \in Nat /\ n = h + r
      /\ \A k \in 1 .. r : t[h + k] = file[l].raw[k]
  BY LineParts, LineTextIs
<1>3. TextAt(l) = w + h /\ TextEnd(l) = w + n
  <2>. HIDE DEF n
  <2>1. TextAt(l) = w + h
    BY <1>1 DEF TextAt
  <2>2. TextEnd(l) = TextAt(l) + r
    BY DEF TextEnd
  <2>. HIDE DEF w, h, r
  <2>. QED
    BY <1>1, <1>2, <2>1, <2>2
<1>4. mem \in [-1 .. LastByte -> 0 .. 255] /\ mem' = [a \in DOMAIN mem |-> IF a \in ends THEN NUL ELSE mem[a]]
  BY DEF TypeInv, TypeOK, Cut
<1>5. t # <<>> /\ t[n] = CR => file[l].eol # <<LF>>
  BY LineParts DEF IsLine, LineText
<1>6. cl \in w .. lf /\ dl \in w .. cl
  <2>1. lf \in w .. LastByte
    BY <1>1
  <2>. QED
    BY <1>1, <2>1, ColonInLine, DotInLine
<1>7. /\ lf \in ends
      /\ mem[lf - 1] = CR => lf - 1 \in ends
      /\ \A a \in ends : a = lf \/ (a = lf - 1 /\ mem[a] = CR) \/ a = cl \/ a = dl
  BY DEF LineEnd
<1>8. /\ mem' \in [-1 .. LastByte -> 0 .. 255]
      /\ \A a \in -1 .. LastByte : mem'[a] = IF a \in ends THEN NUL ELSE mem[a]
  BY <1>4 DEF NUL
<1>. HIDE DEF t, n, w, h, r, cl, dl, ends
<1>9. mem'[lf] = NUL
  <2>1. lf \in -1 .. LastByte
    BY <1>1
  <2>. QED
    BY <1>7, <1>8, <2>1
<1>10. \A a \in lf + 1 .. LastByte : mem'[a] = mem[a]
  <2>. SUFFICES ASSUME NEW a \in lf + 1 .. LastByte PROVE mem'[a] = mem[a]
    OBVIOUS
  <2>1. a \in -1 .. LastByte /\ a # lf /\ a # lf - 1 /\ a # cl /\ a # dl
    BY <1>1, <1>6
  <2>. QED
    BY <1>7, <1>8, <2>1
<1>11. \A a \in 0 .. w - 1 : mem'[a] = mem[a]
  <2>. SUFFICES ASSUME NEW a \in 0 .. w - 1 PROVE mem'[a] = mem[a]
    OBVIOUS
  <2>1. a \in -1 .. LastByte /\ a # lf /\ a # cl /\ a # dl
    BY <1>1, <1>6
  <2>2. a = lf - 1 => mem[a] # CR
    <3>1. a = lf - 1 => a = w - 1 /\ w > 0
      BY <1>1
    <3>2. w > 0 => mem[w - 1] = NUL
      BY DEF w
    <3>. QED
      BY <3>1, <3>2 DEF NUL, CR
  <2>. QED
    BY <1>7, <1>8, <2>1, <2>2
<1>12. ASSUME file[l].key # <<>>
       PROVE  /\ \A k \in 1 .. r : mem'[w + h + k - 1] = file[l].raw[k]
              /\ mem'[w + n] = NUL
  <2>1. cl + 1 = w + h /\ dl < cl
    BY <1>3, <1>12, KeysFound DEF cl, dl
  <2>2. ASSUME NEW k \in 1 .. r
        PROVE  mem'[w + h + k - 1] = file[l].raw[k]
    <3>. DEFINE a == w + h + k - 1
    <3>1. a \in -1 .. LastByte /\ a # lf /\ a # cl /\ a # dl /\ h + k \in 1 .. n /\ w + (h + k) - 1 = a
      BY <1>1, <1>2, <1>6, <2>1
    <3>2. mem[a] = t[h + k] /\ t[h + k] = file[l].raw[k]
      <4>. HIDE DEF a
      <4>. QED
        BY <1>1, <1>2, <3>1
    <3>3. a = lf - 1 => mem[a] # CR
      <4>. SUFFICES ASSUME a = lf - 1, mem[a] = CR PROVE FALSE
        OBVIOUS
      <4>1. CASE file[l].eol = <<LF>> /\ lf = w + n
        <5>1. h + k = n /\ n # 0
          BY <1>1, <1>2, <4>1
        <5>2. t # <<>>
          BY <5>1 DEF n
        <5>. HIDE DEF a
        <5>. QED
          BY <1>5, <3>2, <4>1, <5>1, <5>2
      <4>2. CASE lf = w + n + 1
        BY <1>1, <1>2, <4>2
      <4>. QED
        BY <1>1, <4>1, <4>2
    <3>. HIDE DEF a
    <3>4. a \notin ends
      BY <1>7, <3>1, <3>3
    <3>5. mem'[a] = mem[a]
      BY <1>8, <3>1, <3>4
    <3>. QED
      BY <3>2, <3>5 DEF a
  <2>3. mem'[w + n] = NUL
    <3>. DEFINE a == w + n
    <3>1. a \in -1 .. LastByte /\ (lf = a \/ (lf - 1 = a /\ mem[a] = CR))
      BY <1>1
    <3>. HIDE DEF a
    <3>. QED
      BY <1>7, <1>8, <3>1 DEF a
  <2>. QED
    BY <2>2, <2>3
<1>. QED
  BY <1>3, <1>8, <1>9, <1>10, <1>11, <1>12 DEF w, r

-----------------------------------------------------------------------------
(* The entries and what they hold                                          *)

LEMMA OffsetGrows ==
  ASSUME NEW f \in Catalogues, NEW l \in 1 .. Len(f)
  PROVE  Offset(f, l - 1) \in Nat /\ Offset(f, l) \in Nat /\ Offset(f, l - 1) <= Offset(f, l)
<1>. DEFINE h == Len(f[l].head)
            r == Len(f[l].raw)
            e == Len(f[l].eol)
            a == Offset(f, l - 1)
            b == Offset(f, l)
<1>1. a \in Nat /\ b = a + h + r + e
  BY LineBytes
<1>2. h \in Nat /\ r \in Nat /\ e \in {0, 1, 2}
  BY LineParts
<1>. HIDE DEF h, r, e, a, b
<1>3. b \in Nat /\ a <= b
  BY <1>1, <1>2
<1>. QED
  BY <1>1, <1>3 DEF a, b

(* An entry stays what it is while the memory below the text's end does.   *)
LEMMA EntryKept ==
  ASSUME NEW m, NEW m2, NEW entry, NEW line, line.raw \in Seq(Byte),
         NEW to \in Nat, NEW up \in Nat, to <= up,
         EntryIsFor(m, entry, line, to), \A a \in 0 .. to - 1 : m2[a] = m[a]
  PROVE  EntryIsFor(m2, entry, line, up)
<1>. DEFINE s == Documented(line.raw)
            n == Len(s)
            x == entry.text
<1>1. n \in Nat
  <2>1. 1 \in 1 .. Len(line.raw) + 1
    OBVIOUS
  <2>2. s \in Seq(Int)
    BY <2>1, TextDomain DEF Documented
  <2>. HIDE DEF s
  <2>. QED
    BY <2>2
<1>2. x \in Nat /\ x + n < to /\ Holds(m, x, s)
  BY DEF EntryIsFor
<1>. HIDE DEF s, n, x
<1>3. \A i \in 1 .. n : m[x + i - 1] = s[i] /\ s[i] # NUL
  BY <1>2 DEF Holds, n
<1>4. ASSUME NEW i \in 1 .. n PROVE m2[x + i - 1] = s[i] /\ s[i] # NUL
  <2>1. x + i - 1 \in 0 .. to - 1
    BY <1>1, <1>2
  <2>. QED
    BY <1>3, <2>1
<1>5. m2[x + n] = NUL
  <2>1. x + n \in 0 .. to - 1
    BY <1>1, <1>2
  <2>. QED
    BY <1>2, <2>1 DEF Holds, n
<1>6. Holds(m2, x, s)
  BY <1>4, <1>5 DEF Holds, n
<1>7. x + n < up
  BY <1>1, <1>2
<1>. QED
  BY <1>2, <1>6, <1>7 DEF EntryIsFor, s, n, x

(* The entries stay those of the first l lines while nothing is written    *)
(* there, and are those of one line more if that one has no keys.          *)
LEMMA FiledKept ==
  ASSUME NEW f \in Catalogues, NEW l \in 0 .. Len(f), NEW k \in {l, l + 1}, k <= Len(f),
         k = l + 1 => f[k].key = <<>>,
         NEW m, NEW m2, NEW t, NEW t2, NEW e \in Nat, AllFiled(m, t, e, f, l),
         \A a \in 0 .. Offset(f, l) - 1 : m2[a] = m[a],
         \A j \in 0 .. e - 1 : t2[j] = t[j],
         \A j \in e .. TableSize - 1 : t2[j].text = NoText
  PROVE  AllFiled(m2, t2, e, f, k)
<1>1. PICK at \in [0 .. e - 1 -> 1 .. l] : Filed(m, t, e, f, l, at)
  BY DEF AllFiled
<1>2. Len(f) \in Nat /\ k \in 0 .. Len(f) /\ l \in Nat /\ k \in Nat
  BY CatalogueAssumption
<1>3. Offset(f, l) \in Nat /\ Offset(f, k) \in Nat /\ Offset(f, l) <= Offset(f, k)
  <2>1. Layout(f)
    BY LayoutFact
  <2>2. Offset(f, l) \in Nat /\ Offset(f, k) \in Nat
    BY <1>2, <2>1 DEF Layout
  <2>3. CASE k = l + 1
    <3>1. k \in 1 .. Len(f) /\ k - 1 = l
      BY <1>2, <2>3
    <3>2. Offset(f, k - 1) <= Offset(f, k)
      BY <3>1, OffsetGrows
    <3>. QED
      BY <2>2, <3>1, <3>2
  <2>. QED
    BY <2>2, <2>3
<1>4. at \in [0 .. e - 1 -> 1 .. k]
  BY <1>1, <1>2
<1>5. \A i \in 1 .. k : f[i].key # <<>> => \E j \in 0 .. e - 1 : at[j] = i
  <2>. SUFFICES ASSUME NEW i \in 1 .. k, f[i].key # <<>> PROVE \E j \in 0 .. e - 1 : at[j] = i
    OBVIOUS
  <2>1. i \in 1 .. l
    BY <1>2
  <2>. QED
    BY <1>1, <2>1 DEF Filed
<1>6. ASSUME NEW j \in 0 .. e - 1
      PROVE  EntryIsFor(m2, t2[j], f[at[j]], Offset(f, k))
  <2>1. at[j] \in 1 .. Len(f)
    BY <1>1, <1>2
  <2>2. f[at[j]].raw \in Seq(Byte)
    BY <2>1, LineParts
  <2>3. EntryIsFor(m, t[j], f[at[j]], Offset(f, l))
    BY <1>1 DEF Filed
  <2>4. EntryIsFor(m2, t[j], f[at[j]], Offset(f, k))
    BY <1>3, <2>2, <2>3, EntryKept
  <2>. QED
    BY <2>4
<1>7. \A i, j \in 0 .. e - 1 : i < j => at[i] < at[j]
  BY <1>1 DEF Filed
<1>8. Filed(m2, t2, e, f, k, at)
  BY <1>4, <1>5, <1>6, <1>7 DEF Filed
<1>. QED
  BY <1>4, <1>8 DEF AllFiled

(* A line with keys takes the next entry.                                  *)
LEMMA FiledMore ==
  ASSUME NEW f \in Catalogues, NEW l \in 1 .. Len(f), NEW m, NEW m2, NEW t, NEW t2,
         NEW e \in Nat, AllFiled(m, t, e, f, l - 1),
         \A a \in 0 .. Offset(f, l - 1) - 1 : m2[a] = m[a],
         \A j \in 0 .. e - 1 : t2[j] = t[j],
         EntryIsFor(m2, t2[e], f[l], Offset(f, l)),
         \A j \in e + 1 .. TableSize - 1 : t2[j].text = NoText
  PROVE  AllFiled(m2, t2, e + 1, f, l)
<1>1. PICK at \in [0 .. e - 1 -> 1 .. l - 1] : Filed(m, t, e, f, l - 1, at)
  BY DEF AllFiled
<1>. DEFINE at2 == [j \in 0 .. (e + 1) - 1 |-> IF j = e THEN l ELSE at[j]]
<1>2. Len(f) \in Nat /\ l \in Nat /\ l - 1 \in Nat /\ (e + 1) - 1 = e
  BY CatalogueAssumption
<1>3. /\ Offset(f, l - 1) \in Nat /\ Offset(f, l) \in Nat /\ Offset(f, l - 1) <= Offset(f, l)
  BY OffsetGrows
<1>4. at2[e] = l /\ \A j \in 0 .. e - 1 : at2[j] = at[j] /\ at[j] \in 1 .. l - 1
  BY <1>1, <1>2
<1>5. at2 \in [0 .. (e + 1) - 1 -> 1 .. l]
  BY <1>1, <1>2
<1>6. \A j \in 0 .. (e + 1) - 1 : j = e \/ j \in 0 .. e - 1
  BY <1>2
<1>. HIDE DEF at2
<1>7. \A i, j \in 0 .. (e + 1) - 1 : i < j => at2[i] < at2[j]
  <2>. SUFFICES ASSUME NEW i \in 0 .. (e + 1) - 1, NEW j \in 0 .. (e + 1) - 1, i < j
                PROVE  at2[i] < at2[j]
    OBVIOUS
  <2>1. i \in 0 .. e - 1
    BY <1>2
  <2>2. CASE j = e
    <3>1. at2[i] \in 1 .. l - 1 /\ at2[j] = l
      BY <1>4, <2>1, <2>2
    <3>. QED
      BY <1>2, <3>1
  <2>3. CASE j \in 0 .. e - 1
    <3>1. at[i] < at[j]
      BY <1>1, <2>1, <2>3 DEF Filed
    <3>. QED
      BY <1>4, <2>1, <2>3, <3>1
  <2>. QED
    BY <1>6, <2>2, <2>3
<1>8. \A i \in 1 .. l : f[i].key # <<>> => \E j \in 0 .. (e + 1) - 1 : at2[j] = i
  <2>. SUFFICES ASSUME NEW i \in 1 .. l, f[i].key # <<>>
                PROVE  \E j \in 0 .. (e + 1) - 1 : at2[j] = i
    OBVIOUS
  <2>1. CASE i = l
    <3>1. e \in 0 .. (e + 1) - 1
      BY <1>2
    <3>. QED
      BY <1>4, <2>1, <3>1
  <2>2. CASE i # l
    <3>1. i \in 1 .. l - 1
      BY <1>2, <2>2
    <3>2. PICK j \in 0 .. e - 1 : at[j] = i
      BY <1>1, <3>1 DEF Filed
    <3>3. j \in 0 .. (e + 1) - 1
      BY <1>2
    <3>. QED
      BY <1>4, <3>2, <3>3
  <2>. QED
    BY <2>1, <2>2
<1>9. ASSUME NEW j \in 0 .. (e + 1) - 1
      PROVE  EntryIsFor(m2, t2[j], f[at2[j]], Offset(f, l))
  <2>1. CASE j = e
    BY <1>4, <2>1
  <2>2. CASE j \in 0 .. e - 1
    <3>1. at2[j] = at[j] /\ at[j] \in 1 .. Len(f)
      BY <1>2, <1>4, <2>2
    <3>2. f[at[j]].raw \in Seq(Byte)
      BY <3>1, LineParts
    <3>3. EntryIsFor(m, t[j], f[at[j]], Offset(f, l - 1))
      BY <1>1, <2>2 DEF Filed
    <3>4. EntryIsFor(m2, t[j], f[at[j]], Offset(f, l))
      BY <1>3, <3>2, <3>3, EntryKept
    <3>. QED
      BY <2>2, <3>1, <3>4
  <2>. QED
    BY <1>6, <2>1, <2>2
<1>10. Filed(m2, t2, e + 1, f, l, at2)
  BY <1>5, <1>7, <1>8, <1>9 DEF Filed
<1>. QED
  BY <1>5, <1>10 DEF AllFiled

-----------------------------------------------------------------------------
(* The file in the table                                                   *)

LEMMA ReadFileFiles ==
  ASSUME TypeInv, ReadFile
  PROVE  file' \in RightSize /\ AtLine(0)'
<1>1. PICK f \in RightSize :
        /\ file' = f
        /\ mem' = [a \in -1 .. LastByte |->
                    CASE a = -1                       -> mem[-1]
                      [] a \in 0 .. Len(Bytes[f]) - 1 -> Bytes[f][a + 1]
                      [] OTHER                        -> NUL]
  BY DEF ReadFile
<1>2. where' = 0 /\ entries' = 0 /\ table' = Cleared(table)
  BY DEF ReadFile
<1>3. Offset(f, 0) = 0
  BY <1>1, LayoutFact DEF Layout, RightSize
<1>4. Unread(mem', f, 0)
  <2>. DEFINE b == Bytes[f]
  <2>1. Len(b) \in Nat
    BY BytesType DEF RightSize
  <2>. HIDE DEF b
  <2>2. \A a \in 0 .. LastByte : mem'[a] = IF a < Len(b) THEN b[a + 1] ELSE NUL
    <3>. SUFFICES ASSUME NEW a \in 0 .. LastByte
                  PROVE  mem'[a] = IF a < Len(b) THEN b[a + 1] ELSE NUL
      OBVIOUS
    <3>1. a \in -1 .. LastByte /\ a # -1 /\ (a \in 0 .. Len(b) - 1 <=> a < Len(b))
      BY <2>1, BufferBounds
    <3>. QED
      BY <1>1, <3>1 DEF b
  <2>. QED
    BY <2>2 DEF Unread, b
<1>5. AllFiled(mem', table', 0, f, 0)
  <2>. DEFINE at == [j \in 0 .. 0 - 1 |-> 0]
  <2>1. at \in [0 .. 0 - 1 -> 1 .. 0]
    OBVIOUS
  <2>2. \A j \in 0 .. TableSize - 1 : table'[j].text = NoText
    BY <1>2 DEF Cleared, TypeInv, TypeOK
  <2>. HIDE DEF at
  <2>3. Filed(mem', table', 0, f, 0, at)
    BY <2>1, <2>2 DEF Filed
  <2>. QED
    BY <2>1, <2>3 DEF AllFiled
<1>. QED
  BY <1>1, <1>2, <1>3, <1>4, <1>5 DEF AtLine

(* What is at a line, while there is one.                                  *)
LEMMA LineShown ==
  ASSUME file \in RightSize, CleanFile, NEW l \in 0 .. Len(file), AtLine(l), l # Len(file)
  PROVE  \E k \in 1 .. Len(file), lf \in Nat :
           k = l + 1 /\ Shows(k, lf) /\ LineFeed = {lf}
<1>1. Len(file) \in Nat
  BY CatalogueAssumption DEF RightSize
<1>. DEFINE k == l + 1
            lf == Offset(file, k) - 1
<1>2. k \in 1 .. Len(file) /\ k - 1 = l
  BY <1>1
<1>. HIDE DEF k
<1>3. where = Offset(file, k - 1) /\ Unread(mem, file, where)
  BY <1>2 DEF AtLine
<1>. HIDE DEF lf
<1>4. Shows(k, lf)
  BY <1>2, <1>3, ShowsLine DEF lf
<1>5. LineFeed = {lf}
  BY <1>2, <1>4, TheLineFeed
<1>6. lf \in Nat
  BY <1>4 DEF Shows
<1>. QED
  BY <1>2, <1>4, <1>5, <1>6 DEF k

(* The search for lines ends at the end of the file.                       *)
LEMMA EndOfFileFiles ==
  ASSUME file \in RightSize, CleanFile, NEW l \in 0 .. Len(file), AtLine(l), EndOfFile
  PROVE  AllFiled(mem, table, entries, file, Len(file))'
<1>1. l = Len(file)
  BY LineShown DEF EndOfFile
<1>2. AllFiled(mem, table, entries, file, Len(file))
  BY <1>1 DEF AtLine
<1>. QED
  BY <1>2 DEF EndOfFile, escVars

LEMMA NoLineShown ==
  ASSUME file \in RightSize, AtLine(Len(file))
  PROVE  LineFeed = {}
<1>1. /\ where = Len(Bytes[file]) /\ where \in Nat /\ where <= LastByte /\ LastByte \in Nat
  <2>1. Layout(file)
    BY LayoutFact DEF RightSize
  <2>2. Len(file) \in 0 .. Len(file) /\ where = Offset(file, Len(file))
    BY <2>1 DEF AtLine, Layout
  <2>3. where = Len(Bytes[file]) /\ where \in Nat
    BY <2>1, <2>2 DEF Layout
  <2>. QED
    BY <2>3, BufferBounds DEF RightSize
<1>2. mem[where] = NUL
  <2>1. where \in where .. LastByte /\ ~ (where < where)
    BY <1>1
  <2>. QED
    BY <1>1, <2>1 DEF AtLine, Unread
<1>. SUFFICES ASSUME NEW a \in LineFeed PROVE FALSE
  OBVIOUS
<1>3. a \in where .. LastByte /\ mem[a] = LF /\ \A b \in where .. a - 1 : mem[b] \notin {LF, NUL}
  BY DEF LineFeed
<1>4. CASE a = where
  BY <1>2, <1>3, <1>4 DEF LF, NUL
<1>5. CASE a # where
  <2>1. where \in where .. a - 1
    BY <1>1, <1>3, <1>5
  <2>. QED
    BY <1>2, <1>3, <2>1
<1>. QED
  BY <1>4, <1>5

(* The line behind the cut one is untouched, and the entries are.          *)
LEMMA CutKeeps ==
  ASSUME TypeInv, file \in RightSize, CleanFile, NEW k \in 1 .. Len(file), NEW lf,
         AtLine(k - 1), Shows(k, lf), Cut(lf)
  PROVE  /\ lf + 1 = Offset(file, k) /\ lf + 1 \in Nat
         /\ mem'[lf] = NUL /\ Unread(mem', file, lf + 1)
         /\ \A a \in 0 .. Offset(file, k - 1) - 1 : mem'[a] = mem[a]
         /\ AllFiled(mem, table, entries, file, k - 1)
<1>1. file \in Catalogues
  BY DEF RightSize
<1>2. /\ where = Offset(file, k - 1) /\ (where > 0 => mem[where - 1] = NUL)
      /\ Unread(mem, file, where) /\ AllFiled(mem, table, entries, file, k - 1)
  BY DEF AtLine
<1>3. /\ mem'[lf] = NUL
      /\ \A a \in lf + 1 .. LastByte : mem'[a] = mem[a]
      /\ \A a \in 0 .. where - 1 : mem'[a] = mem[a]
  BY <1>1, <1>2, CutLine
<1>4. /\ where \in Nat /\ lf \in Nat /\ where <= lf /\ lf + 1 = Offset(file, k)
  BY DEF Shows
<1>5. Unread(mem', file, lf + 1)
  <2>. DEFINE b == Bytes[file]
  <2>. SUFFICES ASSUME NEW a \in lf + 1 .. LastByte
                PROVE  mem'[a] = IF a < Len(b) THEN b[a + 1] ELSE NUL
    BY DEF Unread
  <2>1. a \in where .. LastByte
    BY <1>4, BufferBounds
  <2>2. mem[a] = IF a < Len(b) THEN b[a + 1] ELSE NUL
    BY <1>2, <2>1 DEF Unread
  <2>. QED
    BY <1>3, <2>2
<1>. QED
  BY <1>2, <1>3, <1>4, <1>5

LEMMA SkipLineFiles ==
  ASSUME TypeInv, file \in RightSize, CleanFile, NEW l \in 0 .. Len(file), AtLine(l), SkipLine
  PROVE  \E k \in 0 .. Len(file) : AtLine(k)'
<1>1. PICK a \in LineFeed : ~ HasKeys(a) /\ Cut(a) /\ where' = a + 1
  BY DEF SkipLine
<1>2. l # Len(file)
  BY <1>1, NoLineShown
<1>3. PICK k \in 1 .. Len(file), lf \in Nat : k = l + 1 /\ Shows(k, lf) /\ LineFeed = {lf}
  BY <1>2, LineShown
<1>4. a = lf /\ k - 1 = l /\ k \in 0 .. Len(file) /\ file \in Catalogues /\ AtLine(k - 1)
  BY <1>1, <1>3, CatalogueAssumption DEF RightSize
<1>5. file[k].key = <<>>
  BY <1>1, <1>3, <1>4, KeysFound
<1>6. /\ lf + 1 = Offset(file, k) /\ lf + 1 \in Nat
      /\ mem'[lf] = NUL /\ Unread(mem', file, lf + 1)
      /\ \A b \in 0 .. Offset(file, l) - 1 : mem'[b] = mem[b]
      /\ AllFiled(mem, table, entries, file, l)
  BY <1>1, <1>3, <1>4, CutKeeps
<1>7. UNCHANGED <<table, entries, file>>
  BY DEF SkipLine
<1>8. entries \in Nat /\ \A j \in entries .. TableSize - 1 : table[j].text = NoText
  BY <1>6 DEF AllFiled, Filed, TypeInv, TypeOK
<1>9. AllFiled(mem', table, entries, file, k)
  <2>1. k \in {l, l + 1} /\ k <= Len(file) /\ l \in 0 .. Len(file) /\ file \in Catalogues
    BY <1>3, <1>4
  <2>2. k = l + 1 => file[k].key = <<>>
    BY <1>5
  <2>3. /\ \A b \in 0 .. Offset(file, l) - 1 : mem'[b] = mem[b]
        /\ AllFiled(mem, table, entries, file, l)
    BY <1>6
  <2>. QED
    BY <1>8, <2>1, <2>2, <2>3, FiledKept
<1>10. (lf + 1) - 1 = lf
  BY <1>3 DEF Shows
<1>11. AtLine(k)'
  BY <1>1, <1>4, <1>6, <1>7, <1>9, <1>10 DEF AtLine
<1>. QED
  BY <1>4, <1>11

LEMMA DecodeStart ==
  ASSUME NEW raw \in Seq(Byte), NEW m, NEW a \in Nat,
         \A i \in 1 .. Len(raw) : m[a + i - 1] = raw[i]
  PROVE  Decoding(m, a, a, a, raw)
<1>. DEFINE R == Len(raw)
            t == Documented(raw)
<1>1. R \in Nat /\ a - a = 0 /\ 0 + 1 = 1 /\ 1 \in 1 .. R + 1
  OBVIOUS
<1>2. t \in Seq(Int) /\ Text(raw)[1] = t
  BY <1>1, TextDomain DEF Documented
<1>3. Stored(m, a, a) = <<>>
  BY <1>1 DEF Stored
<1>. HIDE DEF R, t
<1>4. <<>> \o t = t
  BY <1>2
<1>5. \A i \in 0 + 1 .. R : m[a + i - 1] = raw[i]
  BY DEF R
<1>6. 0 \in 0 .. R
  BY <1>1
<1>. QED
  BY <1>1, <1>2, <1>3, <1>4, <1>5, <1>6 DEF Decoding, R, t

LEMMA ReadLineFiles ==
  ASSUME TypeInv, file \in RightSize, CleanFile, NEW l \in 0 .. Len(file), AtLine(l), ReadLine,
         pc' = "escape"
  PROVE  \E k \in 1 .. Len(file) : InLine(k)'
<1>1. PICK a \in LineFeed :
        /\ HasKeys(a) /\ Cut(a) /\ next' = a + 1
        /\ msg' = Colon(a) + 1 /\ src' = Colon(a) + 1 /\ dst' = Colon(a) + 1
        /\ entries < TableSize
        /\ table' = [table EXCEPT ![entries].key1 = Key(Key1(a)),
                                  ![entries].key2 = Key(Key2(a))]
  BY DEF ReadLine
<1>2. l # Len(file)
  BY <1>1, NoLineShown
<1>3. PICK k \in 1 .. Len(file), lf \in Nat : k = l + 1 /\ Shows(k, lf) /\ LineFeed = {lf}
  BY <1>2, LineShown
<1>4. a = lf /\ k - 1 = l /\ k - 1 \in 0 .. Len(file) /\ file \in Catalogues /\ AtLine(k - 1)
  BY <1>1, <1>3, CatalogueAssumption DEF RightSize
<1>5. file[k].key # <<>>
  BY <1>1, <1>3, <1>4, NoKeysFound
<1>6. /\ lf + 1 = Offset(file, k) /\ lf + 1 \in Nat
      /\ mem'[lf] = NUL /\ Unread(mem', file, lf + 1)
      /\ \A b \in 0 .. Offset(file, k - 1) - 1 : mem'[b] = mem[b]
      /\ AllFiled(mem, table, entries, file, k - 1)
  BY <1>1, <1>3, <1>4, CutKeeps
<1>7. UNCHANGED <<entries, file>>
  BY DEF ReadLine
<1>8. /\ entries \in 0 .. TableSize - 1 /\ TableSize \in Nat
      /\ \A j \in entries .. TableSize - 1 : table[j].text = NoText
      /\ table \in [0 .. TableSize - 1 -> EntryType]
  <2>1. entries \in 0 .. TableSize /\ TableSize \in Nat
    BY KittenAssumption DEF TypeInv, TypeOK
  <2>2. table \in [0 .. TableSize - 1 -> EntryType]
    BY DEF TypeInv, TypeOK, EntryType
  <2>3. \A j \in entries .. TableSize - 1 : table[j].text = NoText
    BY <1>6 DEF AllFiled, Filed
  <2>. QED
    BY <1>1, <2>1, <2>2, <2>3
<1>9. /\ Colon(lf) + 1 = TextAt(k)
      /\ file[k].key = <<Key(Key1(lf)), Key(Key2(lf))>>
  BY <1>3, <1>4, <1>5, KeysFound
<1>10. /\ \A i \in 1 .. Len(file[k].raw) : mem'[TextAt(k) + i - 1] = file[k].raw[i]
       /\ mem'[TextEnd(k)] = NUL
  <2>1. where > 0 => mem[where - 1] = NUL
    BY <1>4 DEF AtLine
  <2>. QED
    BY <1>1, <1>3, <1>4, <1>5, <2>1, CutLine
<1>11. /\ table'[entries].key1 = Key(Key1(lf)) /\ table'[entries].key2 = Key(Key2(lf))
       /\ table'[entries].text = table[entries].text
       /\ \A j \in 0 .. TableSize - 1 : j # entries => table'[j] = table[j]
  <2>1. table[entries] \in EntryType
    BY <1>8
  <2>. QED
    BY <1>1, <1>4, <1>8, <2>1 DEF EntryType
<1>12. table'[entries].text = NoText
  <2>1. entries \in entries .. TableSize - 1
    BY <1>8
  <2>. QED
    BY <1>8, <1>11, <2>1
<1>13. /\ \A j \in 0 .. entries - 1 : table'[j] = table[j]
       /\ \A j \in entries .. TableSize - 1 : table'[j].text = NoText
  <2>1. ASSUME NEW j \in 0 .. entries - 1 PROVE table'[j] = table[j]
    <3>1. j \in 0 .. TableSize - 1 /\ j # entries
      BY <1>8
    <3>. QED
      BY <1>11, <3>1
  <2>2. ASSUME NEW j \in entries .. TableSize - 1 PROVE table'[j].text = NoText
    <3>1. j \in 0 .. TableSize - 1
      BY <1>8
    <3>. QED
      BY <1>8, <1>11, <1>12, <3>1
  <2>. QED
    BY <2>1, <2>2
<1>14. AllFiled(mem', table', entries, file, k - 1)
  <2>1. /\ k - 1 \in {k - 1, (k - 1) + 1} /\ k - 1 <= Len(file) /\ ~ (k - 1 = (k - 1) + 1)
        /\ entries \in Nat
    BY <1>4, <1>8
  <2>. DEFINE p == k - 1
  <2>2. /\ p \in 0 .. Len(file) /\ p \in {p, p + 1} /\ p <= Len(file) /\ ~ (p = p + 1)
    BY <1>4, <2>1
  <2>3. AllFiled(mem, table, entries, file, p) /\ \A b \in 0 .. Offset(file, p) - 1 : mem'[b] = mem[b]
    BY <1>6
  <2>. HIDE DEF p
  <2>4. AllFiled(mem', table', entries, file, p)
    BY <1>4, <1>13, <2>1, <2>2, <2>3, FiledKept
  <2>. QED
    BY <2>4 DEF p
<1>15. Decoding(mem', TextAt(k), TextAt(k), TextAt(k), file[k].raw)
  <2>1. file[k].raw \in Seq(Byte) /\ Len(file[k].head) \in Nat
    BY <1>4, LineParts
  <2>2. TextAt(k) \in Nat
    <3>1. Offset(file, k - 1) \in Nat
      BY <1>4, OffsetGrows
    <3>. QED
      BY <2>1, <3>1 DEF TextAt
  <2>. QED
    BY <1>10, <2>1, <2>2, DecodeStart
<1>16. (lf + 1) - 1 = lf
  BY <1>3 DEF Shows
<1>17. /\ TextAt(k)' = TextAt(k) /\ TextEnd(k)' = TextEnd(k)
  BY <1>7 DEF TextAt, TextEnd
<1>18. InLine(k)'
  BY <1>1, <1>4, <1>6, <1>7, <1>9, <1>10, <1>11, <1>12, <1>14, <1>15, <1>16, <1>17 DEF InLine
<1>. QED
  BY <1>7, <1>18

(* A clean file for which the table is too small has too many messages.    *)
LEMMA CorruptMessages ==
  ASSUME TypeInv, file \in RightSize, CleanFile, NEW l \in 0 .. Len(file), AtLine(l), ReadLine,
         pc' = "corrupt"
  PROVE  (Cardinality(Messages) > TableSize)'
<1>1. PICK a \in LineFeed : HasKeys(a) /\ entries >= TableSize
  BY DEF ReadLine
<1>2. l # Len(file)
  BY <1>1, NoLineShown
<1>3. PICK k \in 1 .. Len(file), lf \in Nat : k = l + 1 /\ Shows(k, lf) /\ LineFeed = {lf}
  BY <1>2, LineShown
<1>4. /\ a = lf /\ file \in Catalogues
      /\ Len(file) \in Nat /\ DOMAIN file = 1 .. Len(file)
  BY <1>1, <1>3, CatalogueAssumption DEF RightSize
<1>5. file[k].key # <<>>
  BY <1>1, <1>3, <1>4, NoKeysFound
<1>6. entries = TableSize /\ TableSize \in Nat
  BY <1>1, KittenAssumption DEF TypeInv, TypeOK
<1>7. PICK at \in [0 .. TableSize - 1 -> 1 .. l] : Filed(mem, table, TableSize, file, l, at)
  BY <1>6 DEF AtLine, AllFiled
<1>. DEFINE N == 0 .. TableSize
            g == [j \in N |-> IF j = TableSize THEN k ELSE at[j]]
<1>8. \A j \in 0 .. TableSize - 1 : at[j] \in 1 .. l /\ at[j] \in Messages
  <2>. SUFFICES ASSUME NEW j \in 0 .. TableSize - 1 PROVE at[j] \in 1 .. l /\ at[j] \in Messages
    OBVIOUS
  <2>1. at[j] \in 1 .. l /\ at[j] \in DOMAIN file
    BY <1>4, <1>7
  <2>2. EntryIsFor(mem, table[j], file[at[j]], Offset(file, l))
    BY <1>7 DEF Filed
  <2>3. file[at[j]].key = <<table[j].key1, table[j].key2>>
    BY <2>2 DEF EntryIsFor
  <2>. QED
    <3>1. file[at[j]].key # <<>>
      BY <2>3
    <3>. QED
      BY <2>1, <3>1 DEF Messages
<1>9. k \in Messages
  BY <1>4, <1>5 DEF Messages
<1>10. g \in [N -> Messages]
  <2>1. \A j \in N : j = TableSize \/ j \in 0 .. TableSize - 1
    BY <1>6
  <2>. HIDE DEF N
  <2>. QED
    BY <1>8, <1>9, <2>1
<1>11. \A i, j \in N : i < j => g[i] # g[j]
  <2>. SUFFICES ASSUME NEW i \in N, NEW j \in N, i < j PROVE g[i] # g[j]
    OBVIOUS
  <2>1. i \in 0 .. TableSize - 1 /\ g[i] = at[i] /\ at[i] \in 1 .. l
    BY <1>6, <1>8
  <2>2. CASE j = TableSize
    BY <1>3, <2>1, <2>2
  <2>3. CASE j # TableSize
    <3>1. j \in 0 .. TableSize - 1 /\ g[j] = at[j]
      BY <1>6, <2>3
    <3>2. at[i] < at[j] /\ at[j] \in 1 .. l
      BY <1>7, <1>8, <2>1, <3>1 DEF Filed
    <3>. QED
      BY <2>1, <3>1, <3>2
  <2>. QED
    BY <2>2, <2>3
<1>13. IsFiniteSet(Messages)
  <2>1. IsFiniteSet(1 .. Len(file))
    BY <1>4, FS_Interval
  <2>2. Messages \subseteq 1 .. Len(file)
    BY <1>4 DEF Messages
  <2>. QED
    BY <2>1, <2>2, FS_Subset
<1>14. IsFiniteSet(N) /\ Cardinality(N) = TableSize + 1
  <2>1. 0 \in Int /\ TableSize \in Int /\ ~ (0 > TableSize) /\ TableSize - 0 + 1 = TableSize + 1
    BY <1>6
  <2>. QED
    BY <2>1, FS_Interval
<1>15. ~ (Cardinality(Messages) < Cardinality(N))
  <2>. SUFFICES ASSUME Cardinality(Messages) < Cardinality(N) PROVE FALSE
    OBVIOUS
  <2>1. \A i, j \in N : i < j \/ j < i \/ i = j
    BY <1>6
  <2>. HIDE DEF N, g
  <2>2. PICK i, j \in N : i # j /\ g[i] = g[j]
    BY <1>10, <1>13, <1>14, FS_PigeonHole
  <2>. QED
    BY <1>11, <2>1, <2>2
<1>16. Cardinality(Messages) \in Nat
  BY <1>13, FS_CardinalityType
<1>17. Cardinality(Messages) > TableSize
  BY <1>6, <1>14, <1>15, <1>16
<1>18. file' = file
  BY DEF ReadLine
<1>. QED
  BY <1>17, <1>18 DEF Messages

-----------------------------------------------------------------------------
(* A text is decoded, and gets its entry                                   *)

(* The escapes of a text that the decoder handles.                         *)
CleanEscapes(raw) ==
  \A i \in 1 .. Len(raw) :
    Starts(raw)[i] =>
      /\ i < Len(raw)
      /\ \/ raw[i + 1] \in Letters
         \/ /\ raw[i + 1] = HEX /\ i + 3 <= Len(raw)
            /\ Number(SubSeq(raw, i + 2, i + 3), 16) > 0

(* Where the decoder is, in the text and in the buffer.                    *)
Places(l) ==
  LET raw == file[l].raw
  IN  /\ file \in Catalogues /\ raw \in Seq(Byte) /\ Len(raw) \in Nat
      /\ msg \in Nat /\ src \in Nat /\ dst \in Nat /\ next \in Nat
      /\ msg <= dst /\ dst <= src /\ src <= TextEnd(l)
      /\ TextEnd(l) = msg + Len(raw) /\ TextEnd(l) < next
      /\ next = Offset(file, l) /\ next <= LastByte
      /\ Offset(file, l - 1) \in Nat /\ Offset(file, l - 1) <= msg
      /\ \A i \in 1 .. Len(raw) : raw[i] # NUL
      /\ CleanEscapes(raw)

LEMMA PlacesAre ==
  ASSUME TypeInv, file \in RightSize, CleanFile, NEW l \in 1 .. Len(file), InLine(l)
  PROVE  Places(l)
<1>. DEFINE raw == file[l].raw
            h == Len(file[l].head)
            r == Len(raw)
            e == Len(file[l].eol)
            a == Offset(file, l - 1)
            b == Offset(file, l)
            B == Len(Bytes[file])
            z == TextEnd(l)
<1>1. file \in Catalogues /\ B \in Nat /\ B <= LastByte - 1 /\ l \in DOMAIN file
  BY BytesType, LineParts DEF RightSize
<1>2. /\ h \in Nat /\ r \in Nat /\ e \in {0, 1, 2} /\ raw \in Seq(Byte)
      /\ e = 0 <=> file[l].eol = <<>>
  BY <1>1, LineParts
<1>3. a \in Nat /\ b = a + h + r + e /\ b <= B
  BY <1>1, LineBytes
<1>4. file[l].eol # <<>> /\ CleanEscapes(raw) /\ \A i \in DOMAIN LineText(l) : LineText(l)[i] # NUL
  <2>1. Clean(file[l])
    BY <1>1 DEF CleanFile
  <2>2. DOMAIN raw = 1 .. r
    BY <1>2
  <2>3. CleanEscapes(raw)
    BY <2>1, <2>2 DEF Clean, CleanEscapes
  <2>. QED
    BY <2>1, <2>3 DEF Clean, LineText
<1>5. \A i \in 1 .. r : raw[i] # NUL
  <2>1. /\ DOMAIN LineText(l) = 1 .. Len(LineText(l)) /\ Len(LineText(l)) = h + r
        /\ \A i \in 1 .. r : LineText(l)[h + i] = raw[i]
    <3>1. LineText(l) \in Seq(Byte)
      BY <1>1, LineTextIs
    <3>2. DOMAIN LineText(l) = 1 .. Len(LineText(l))
      <4>. DEFINE S == Byte
      <4>1. LineText(l) \in Seq(S)
        BY <3>1
      <4>. HIDE DEF S
      <4>. QED
        BY <4>1
    <3>. QED
      BY <1>1, <3>2, LineTextIs
  <2>. HIDE DEF raw, h, r
  <2>2. ASSUME NEW i \in 1 .. r PROVE h + i \in 1 .. h + r
    BY <1>2
  <2>. QED
    BY <1>4, <2>1, <2>2
<1>6. msg = TextAt(l) /\ next = b /\ src - msg \in 0 .. r /\ dst - msg \in 0 .. src - msg
  BY DEF InLine, Decoding
<1>7. TextAt(l) = a + h /\ z = TextAt(l) + r
  BY DEF TextAt, TextEnd
<1>8. src \in Nat /\ dst \in Nat /\ msg \in Nat /\ next \in Nat /\ LastByte \in Nat
  BY BufferBounds DEF TypeInv, TypeOK
<1>9. raw \in Seq(Byte) /\ r = Len(raw)
  BY <1>2
<1>. HIDE DEF raw, h, r, e, a, b, B, z
<1>10. e \in {1, 2}
  BY <1>2, <1>4
<1>11. z = msg + r /\ z < next /\ next <= LastByte /\ a <= msg
  <2>1. a \in Nat /\ h \in Nat /\ r \in Nat /\ B \in Nat /\ LastByte \in Nat
    BY <1>1, <1>2, <1>3, <1>8
  <2>2. msg = a + h /\ z = msg + r
    BY <1>6, <1>7
  <2>3. next = a + h + r + e /\ next <= B /\ B <= LastByte - 1
    BY <1>1, <1>3, <1>6
  <2>. QED
    BY <2>1, <2>2, <2>3, <1>10
<1>12. msg <= dst /\ dst <= src /\ src <= z
  <2>1. r \in Nat /\ msg \in Nat /\ src \in Nat /\ dst \in Nat
    BY <1>2, <1>8
  <2>2. src - msg <= r /\ 0 <= dst - msg /\ dst - msg <= src - msg
    BY <1>6, <2>1
  <2>. QED
    BY <1>11, <2>1, <2>2
<1>. QED
  BY <1>1, <1>2, <1>3, <1>4, <1>5, <1>6, <1>8, <1>9, <1>11, <1>12 DEF Places, raw, r, a, b, z

(* A store in the text leaves all but the text as it was.                  *)
LEMMA StoreInLine ==
  ASSUME TypeInv, NEW l \in 1 .. Len(file), Places(l), InLine(l), NEW c,
         mem' = [mem EXCEPT ![dst] = c], dst < TextEnd(l),
         UNCHANGED <<file, table, entries, msg, next>>,
         Decoding(mem', msg, src', dst', file[l].raw)
  PROVE  InLine(l)'
<1>1. /\ msg \in Nat /\ dst \in Nat /\ next \in Nat /\ msg <= dst /\ TextEnd(l) < next
      /\ next <= LastByte /\ LastByte \in Nat /\ TextEnd(l) = msg + Len(file[l].raw)
      /\ Len(file[l].raw) \in Nat /\ file \in Catalogues
      /\ Offset(file, l - 1) \in Nat /\ Offset(file, l - 1) <= msg
  BY BufferBounds DEF Places
<1>. DEFINE z == TextEnd(l)
            o == Offset(file, l - 1)
<1>2. /\ dst < z /\ z \in Nat /\ z < next /\ o \in Nat /\ o <= msg
  BY <1>1
<1>. HIDE DEF z, o
<1>3. \A a \in -1 .. LastByte : a # dst => mem'[a] = mem[a]
  BY DEF TypeInv, TypeOK
<1>4. mem'[z] = mem[z] /\ mem'[next - 1] = mem[next - 1]
  <2>1. z \in -1 .. LastByte /\ z # dst /\ next - 1 \in -1 .. LastByte /\ next - 1 # dst
    BY <1>1, <1>2
  <2>. QED
    BY <1>3, <2>1
<1>5. Unread(mem', file, next)
  <2>. DEFINE b == Bytes[file]
  <2>. SUFFICES ASSUME NEW a \in next .. LastByte
                PROVE  mem'[a] = IF a < Len(b) THEN b[a + 1] ELSE NUL
    BY DEF Unread
  <2>1. a \in -1 .. LastByte /\ a # dst
    BY <1>1, <1>2
  <2>2. mem[a] = IF a < Len(b) THEN b[a + 1] ELSE NUL
    BY DEF InLine, Unread
  <2>. QED
    BY <1>3, <2>1, <2>2
<1>6. \A a \in 0 .. o - 1 : mem'[a] = mem[a]
  <2>. SUFFICES ASSUME NEW a \in 0 .. o - 1 PROVE mem'[a] = mem[a]
    OBVIOUS
  <2>1. a \in -1 .. LastByte /\ a # dst
    BY <1>1, <1>2
  <2>. QED
    BY <1>3, <2>1
<1>7. AllFiled(mem', table, entries, file, l - 1)
  <2>. DEFINE p == l - 1
  <2>1. AllFiled(mem, table, entries, file, p)
    BY DEF InLine
  <2>2. /\ p \in 0 .. Len(file) /\ p \in {p, p + 1} /\ p <= Len(file) /\ ~ (p = p + 1)
    BY <1>1, CatalogueAssumption
  <2>3. entries \in Nat /\ \A j \in entries .. TableSize - 1 : table[j].text = NoText
    BY <2>1 DEF AllFiled, Filed, TypeInv, TypeOK
  <2>4. \A a \in 0 .. Offset(file, p) - 1 : mem'[a] = mem[a]
    BY <1>6 DEF o
  <2>. HIDE DEF p
  <2>5. AllFiled(mem', table, entries, file, p)
    BY <1>1, <2>1, <2>2, <2>3, <2>4, FiledKept
  <2>. QED
    BY <2>5 DEF p
<1>8. TextAt(l)' = TextAt(l) /\ TextEnd(l)' = TextEnd(l)
  BY DEF TextAt, TextEnd
<1>. QED
  BY <1>4, <1>5, <1>7, <1>8 DEF InLine, z

(* Character i of the text is the next one, and begins an escape if it is  *)
(* a backslash.                                                            *)
NextIs(l, i) ==
  LET raw == file[l].raw
  IN  /\ i \in 1 .. Len(raw) /\ i = src - msg + 1
      /\ \A k \in i .. Len(raw) : mem[msg + k - 1] = raw[k]
      /\ mem[src] = raw[i]
      /\ Starts(raw)[i] <=> raw[i] = SLASH

LEMMA NextCharacter ==
  ASSUME NEW l \in 1 .. Len(file), Places(l), InLine(l), mem[src] # NUL
  PROVE  \E i \in Nat : NextIs(l, i)
<1>. DEFINE raw == file[l].raw
            R == Len(raw)
            i == src - msg + 1
            z == TextEnd(l)
<1>1. /\ raw \in Seq(Byte) /\ R \in Nat /\ msg \in Nat /\ src \in Nat /\ msg <= src
      /\ src <= z /\ z = msg + R
  BY DEF Places
<1>2. /\ mem[z] = NUL
      /\ \A k \in src - msg + 1 .. R : mem[msg + k - 1] = raw[k]
      /\ src - msg = 0 \/ ~ Starts(raw)[src - msg]
  BY DEF InLine, Decoding
<1>. HIDE DEF raw, R, z
<1>3. src # z
  BY <1>2
<1>4. i \in 1 .. R /\ i \in Nat /\ msg + i - 1 = src /\ i - 1 = src - msg
  BY <1>1, <1>3
<1>5. \A k \in i .. R : mem[msg + k - 1] = raw[k]
  BY <1>2
<1>6. mem[src] = raw[i]
  <2>. HIDE DEF i
  <2>1. i \in i .. R
    BY <1>4
  <2>. QED
    BY <1>4, <1>5, <2>1
<1>7. Starts(raw)[i] <=> raw[i] = SLASH /\ (i = 1 \/ ~ Starts(raw)[i - 1])
  <2>. HIDE DEF i
  <2>. QED
    BY <1>1, <1>4, StartsIs DEF R
<1>8. i = 1 \/ ~ Starts(raw)[i - 1]
  BY <1>1, <1>2, <1>4
<1>9. NextIs(l, i)
  <2>. HIDE DEF i
  <2>. QED
    BY <1>4, <1>5, <1>6, <1>7, <1>8 DEF NextIs, raw, R, i
<1>. QED
  BY <1>4, <1>9

(* The next n characters become c.                                         *)
LEMMA StoreNext ==
  ASSUME TypeInv, NEW l \in 1 .. Len(file), Places(l), InLine(l), NEW i \in Nat, NextIs(l, i),
         NEW n \in Nat \ {0}, NEW c \in Int, c # NUL, i + n - 1 <= Len(file[l].raw),
         Text(file[l].raw)[i] = <<c>> \o Text(file[l].raw)[i + n],
         ~ Starts(file[l].raw)[i + n - 1],
         Store(c), src' = src + n, UNCHANGED <<file, table, entries, msg, next>>
  PROVE  InLine(l)'
<1>. DEFINE raw == file[l].raw
            R == Len(raw)
            z == TextEnd(l)
<1>1. /\ raw \in Seq(Byte) /\ R \in Nat /\ msg \in Nat /\ src \in Nat /\ dst \in Nat
      /\ msg <= dst /\ dst <= src /\ z = msg + R /\ z < next /\ next \in Nat
      /\ next <= LastByte /\ LastByte \in Nat
  BY BufferBounds DEF Places
<1>2. i \in 1 .. R /\ i = src - msg + 1 /\ i + n - 1 <= R
  BY DEF NextIs
<1>3. Text(raw)[i] = <<c>> \o Text(raw)[i + n] /\ ~ Starts(raw)[i + n - 1]
  OBVIOUS
<1>4. DOMAIN mem = -1 .. LastByte /\ \A a \in -1 .. LastByte : mem[a] \in Int
  <2>. DEFINE B == Byte
  <2>1. mem \in [-1 .. LastByte -> B] /\ B \subseteq Int
    BY DEF TypeInv, TypeOK, Byte
  <2>. HIDE DEF B
  <2>. QED
    BY <2>1
<1>5. Decoding(mem, msg, src, dst, raw)
  BY DEF InLine
<1>. HIDE DEF raw, R, z
<1>6. /\ src - msg + 1 = i /\ src - msg + n + 1 = i + n /\ src - msg + n = i + n - 1
      /\ msg + R <= LastByte /\ dst < z
  BY <1>1, <1>2
<1>7. \A k \in 1 .. dst - msg : mem[msg + k - 1] \in Int
  <2>. SUFFICES ASSUME NEW k \in 1 .. dst - msg PROVE mem[msg + k - 1] \in Int
    OBVIOUS
  <2>1. msg + k - 1 \in -1 .. LastByte
    BY <1>1, <1>6
  <2>. QED
    BY <1>4, <2>1
<1>8. /\ Text(raw)[src - msg + 1] = <<c>> \o Text(raw)[src - msg + n + 1]
      /\ ~ Starts(raw)[src - msg + n] /\ src - msg + n <= R
  BY <1>2, <1>3, <1>6
<1>9. mem' = [mem EXCEPT ![dst] = c] /\ dst' = dst + 1
  BY DEF Store
<1>10. Decoding([mem EXCEPT ![dst] = c], msg, src + n, dst + 1, raw)
  <2>1. msg + Len(raw) <= LastByte /\ src - msg + n <= Len(raw)
    BY <1>6, <1>8 DEF R
  <2>. QED
    BY <1>1, <1>4, <1>5, <1>7, <1>8, <2>1, DecodeStep
<1>11. Decoding(mem', msg, src', dst', raw)
  BY <1>9, <1>10
<1>. QED
  BY <1>6, <1>9, <1>11, StoreInLine DEF raw, z

LEMMA EscapeNothingFiles ==
  ASSUME TypeInv, NEW l \in 1 .. Len(file), Places(l), InLine(l), EscapeNothing
  PROVE  InLine(l)'
<1>. DEFINE raw == file[l].raw
            R == Len(raw)
            c == mem[src]
<1>1. /\ c # NUL /\ c # SLASH /\ Store(c) /\ src' = src + 1
      /\ UNCHANGED <<file, table, entries, msg, next>>
  BY DEF EscapeNothing, InText
<1>2. PICK i \in Nat : NextIs(l, i)
  BY <1>1, NextCharacter
<1>3. i \in 1 .. R /\ c = raw[i] /\ ~ Starts(raw)[i]
  BY <1>1, <1>2 DEF NextIs
<1>4. raw \in Seq(Byte) /\ R \in Nat /\ raw[i] # NUL
  BY <1>3 DEF Places
<1>5. c \in Int
  BY <1>3, <1>4, ByteAt
<1>6. Text(raw)[i] = <<c>> \o Text(raw)[i + 1]
  BY <1>1, <1>3, <1>4, TextIs DEF TextSteps
<1>7. i + 1 - 1 <= R /\ i + 1 - 1 = i /\ 1 \in Nat \ {0}
  BY <1>3, <1>4
<1>. HIDE DEF c, raw, R
<1>8. /\ i + 1 - 1 <= Len(file[l].raw) /\ ~ Starts(file[l].raw)[i + 1 - 1]
      /\ Text(file[l].raw)[i] = <<c>> \o Text(file[l].raw)[i + 1]
  BY <1>3, <1>6, <1>7 DEF raw, R
<1>. QED
  BY <1>1, <1>2, <1>5, <1>7, <1>8, StoreNext

LEMMA EscapeLetterFiles ==
  ASSUME TypeInv, NEW l \in 1 .. Len(file), Places(l), InLine(l), EscapeLetter
  PROVE  InLine(l)'
<1>. DEFINE raw == file[l].raw
            R == Len(raw)
            c == Simple[mem[src + 1]]
<1>1. /\ mem[src] # NUL /\ mem[src] = SLASH /\ mem[src + 1] \in Letters
      /\ Store(c) /\ src' = src + 2
      /\ UNCHANGED <<file, table, entries, msg, next>>
  BY DEF EscapeLetter, InText
<1>2. PICK i \in Nat : NextIs(l, i)
  BY <1>1, NextCharacter
<1>3. i \in 1 .. R /\ raw[i] = SLASH /\ Starts(raw)[i]
  BY <1>1, <1>2 DEF NextIs
<1>4. raw \in Seq(Byte) /\ R \in Nat /\ i < R
  BY <1>3 DEF Places, CleanEscapes
<1>5. mem[src + 1] = raw[i + 1]
  <2>1. i + 1 \in i .. R /\ msg + (i + 1) - 1 = src + 1
    BY <1>2, <1>3, <1>4 DEF NextIs, Places
  <2>. QED
    BY <1>2, <2>1 DEF NextIs
<1>6. c \in Int /\ c # NUL
  BY <1>1 DEF Letters, Simple, SLASH, LF, CR, NUL
<1>7. Text(raw)[i] = <<c>> \o Text(raw)[i + 2]
  <2>1. i \in 1 .. R - 1
    BY <1>3, <1>4
  <2>. QED
    BY <1>1, <1>3, <1>4, <1>5, <2>1, TextIs DEF TextSteps
<1>8. ~ Starts(raw)[i + 1]
  <2>. DEFINE j == i + 1
  <2>1. j \in 1 .. R /\ j # 1 /\ j - 1 = i
    BY <1>3, <1>4
  <2>. HIDE DEF j
  <2>2. Starts(raw)[j] <=> raw[j] = SLASH /\ (j = 1 \/ ~ Starts(raw)[j - 1])
    BY <1>4, <2>1, StartsIs
  <2>3. ~ Starts(raw)[j]
    BY <1>3, <2>1, <2>2
  <2>. QED
    BY <2>3 DEF j
<1>9. i + 2 - 1 <= R /\ i + 2 - 1 = i + 1 /\ 2 \in Nat \ {0}
  BY <1>3, <1>4
<1>. HIDE DEF c, raw, R
<1>10. /\ i + 2 - 1 <= Len(file[l].raw) /\ ~ Starts(file[l].raw)[i + 2 - 1]
       /\ Text(file[l].raw)[i] = <<c>> \o Text(file[l].raw)[i + 2]
  BY <1>7, <1>8, <1>9 DEF raw, R
<1>. QED
  BY <1>1, <1>2, <1>6, <1>9, <1>10, StoreNext

LEMMA EscapeNumberFiles ==
  ASSUME TypeInv, NEW l \in 1 .. Len(file), Places(l), InLine(l), EscapeNumber
  PROVE  InLine(l)'
<1>. DEFINE raw == file[l].raw
            R == Len(raw)
<1>1. /\ mem[src] # NUL /\ mem[src] = SLASH /\ mem[src + 1] \notin Letters
      /\ UNCHANGED <<file, table, entries, msg, next>>
  BY DEF EscapeNumber, InText
<1>2. PICK i \in Nat : NextIs(l, i)
  BY <1>1, NextCharacter
<1>3. i \in 1 .. R /\ raw[i] = SLASH /\ Starts(raw)[i] /\ i = src - msg + 1
  BY <1>1, <1>2 DEF NextIs
<1>4. /\ raw \in Seq(Byte) /\ R \in Nat /\ i < R
      /\ \/ raw[i + 1] \in Letters
         \/ /\ raw[i + 1] = HEX /\ i + 3 <= R
            /\ Number(SubSeq(raw, i + 2, i + 3), 16) > 0
  BY <1>3 DEF Places, CleanEscapes
<1>5. /\ msg \in Nat /\ src \in Nat /\ msg <= src /\ msg + R < next /\ next \in Nat
      /\ next <= LastByte /\ LastByte \in Nat
  BY BufferBounds DEF Places
<1>6. \A k \in i .. R : mem[msg + k - 1] = raw[k]
  BY <1>2 DEF NextIs
<1>. HIDE DEF raw, R
<1>7. mem[src + 1] = raw[i + 1]
  <2>1. i + 1 \in i .. R /\ msg + (i + 1) - 1 = src + 1
    BY <1>3, <1>4, <1>5
  <2>. QED
    BY <1>6, <2>1
<1>8. raw[i + 1] = HEX /\ i + 3 <= R /\ Number(SubSeq(raw, i + 2, i + 3), 16) > 0
  BY <1>1, <1>4, <1>7
<1>. DEFINE c == Number(SubSeq(raw, i + 2, i + 3), 16)
            o == i + 2
<1>9. Chars(src + 2, 2) = SubSeq(raw, i + 2, i + 3)
  <2>. DEFINE a == src + 2
  <2>1. /\ o \in Nat \ {0} /\ a \in Nat /\ a + 2 <= LastByte + 1 /\ o + 2 - 1 <= R
        /\ o + 2 - 1 = i + 3 /\ a = msg + o - 1 /\ o >= i
    BY <1>3, <1>4, <1>5, <1>8
  <2>. HIDE DEF a, o
  <2>2. ASSUME NEW k \in 1 .. 2 PROVE mem[a + k - 1] = raw[o + k - 1]
    <3>1. o + k - 1 \in i .. R /\ a + k - 1 = msg + (o + k - 1) - 1
      BY <1>3, <1>4, <1>5, <2>1
    <3>. QED
      BY <1>6, <3>1
  <2>3. o + 2 - 1 <= Len(raw) /\ 2 \in Nat
    BY <2>1 DEF R
  <2>4. Chars(a, 2) = SubSeq(raw, o, o + 2 - 1)
    BY <1>4, <2>1, <2>2, <2>3, CharsIs
  <2>. QED
    BY <2>1, <2>4 DEF a, o
<1>10. c \in Int
  <2>1. Len(SubSeq(raw, i + 2, i + 3)) = 2
    BY <1>9, CharsLen
  <2>. QED
    BY <2>1, NumberType
<1>11. c \in 0 .. 255 /\ c # NUL /\ raw[o] # SLASH /\ raw[o + 1] # SLASH
  <2>1. /\ o \in Nat \ {0} /\ o + 1 <= Len(raw) /\ o + 1 = i + 3
    BY <1>3, <1>8 DEF R
  <2>. HIDE DEF o
  <2>2. Number(SubSeq(raw, o, o + 1), 16) = c
    BY <2>1 DEF o
  <2>. HIDE DEF c
  <2>3. c > 0
    BY <1>8 DEF c
  <2>4. c >= 0 /\ c # 0
    BY <1>10, <2>3
  <2>5. Number(SubSeq(raw, o, o + 1), 16) >= 0
    BY <2>2, <2>4
  <2>6. c \in 0 .. 255 /\ raw[o] # SLASH /\ raw[o + 1] # SLASH
    BY <1>4, <2>1, <2>2, <2>5, HexPair
  <2>. QED
    BY <2>4, <2>6 DEF NUL
<1>12. Store(c) /\ src' = src + 4
  <2>1. mem[src + 1] = HEX
    BY <1>7, <1>8
  <2>2. /\ Number(Chars(src + 2, 2), 16) = c
        /\ c % 256 = c /\ ~ (c < 0) /\ src + 2 + 2 = src + 4
    <3>1. Number(Chars(src + 2, 2), 16) = c
      BY <1>9
    <3>. HIDE DEF c
    <3>2. c % 256 = c /\ ~ (c < 0)
      BY <1>11
    <3>3. src + 2 + 2 = src + 4
      BY <1>5
    <3>. QED
      BY <3>1, <3>2, <3>3
  <2>. HIDE DEF c
  <2>3. LET value == Number(Chars(src + 2, 2), 16)
        IN  \/ value >= 0 /\ Store(value % 256) /\ src' = src + 2 + 2
            \/ value < 0 /\ StoreLoose(mem[src + 2]) /\ src' = src + 2
    BY <2>1 DEF EscapeNumber
  <2>. QED
    BY <2>2, <2>3
<1>13. Text(raw)[i] = <<c>> \o Text(raw)[i + 4]
  <2>1. i \in 1 .. Len(raw) - 3
    BY <1>3, <1>4, <1>8 DEF R
  <2>2. c >= 0
    <3>. HIDE DEF c
    <3>. QED
      BY <1>11
  <2>3. TextSteps(raw, Text(raw))
    BY <1>4, TextIs
  <2>. QED
    BY <1>3, <1>8, <2>1, <2>2, <2>3 DEF TextSteps
<1>14. ~ Starts(raw)[i + 3]
  <2>. DEFINE j == i + 3
  <2>1. j \in 1 .. Len(raw) /\ j = o + 1
    BY <1>3, <1>8 DEF R
  <2>. HIDE DEF j, o
  <2>2. raw[j] # SLASH
    BY <1>11, <2>1
  <2>3. ~ Starts(raw)[j]
    BY <1>4, <2>1, <2>2, StartsIs
  <2>. QED
    BY <2>3 DEF j
<1>. HIDE DEF c, o
<1>15. i + 4 - 1 <= R /\ i + 4 - 1 = i + 3 /\ 4 \in Nat \ {0} /\ c \in Int /\ c # NUL
  BY <1>3, <1>8, <1>10, <1>11
<1>16. /\ i + 4 - 1 <= Len(file[l].raw) /\ ~ Starts(file[l].raw)[i + 4 - 1]
       /\ Text(file[l].raw)[i] = <<c>> \o Text(file[l].raw)[i + 4]
  BY <1>13, <1>14, <1>15 DEF raw, R
<1>. QED
  BY <1>1, <1>2, <1>12, <1>15, <1>16, StoreNext

(* At the end of the text all of it is decoded.                            *)
LEMMA TextIsStored ==
  ASSUME TypeInv, NEW l \in 1 .. Len(file), Places(l), InLine(l), mem[src] = NUL
  PROVE  /\ src = TextEnd(l)
         /\ Documented(file[l].raw) = Stored(mem, msg, dst)
         /\ Len(Stored(mem, msg, dst)) = dst - msg
         /\ \A i \in 1 .. dst - msg :
              Stored(mem, msg, dst)[i] = mem[msg + i - 1] /\ mem[msg + i - 1] # NUL
<1>. DEFINE raw == file[l].raw
            R == Len(raw)
            z == TextEnd(l)
            st == Stored(mem, msg, dst)
            n == dst - msg
<1>1. /\ raw \in Seq(Byte) /\ R \in Nat /\ msg \in Nat /\ src \in Nat /\ dst \in Nat
      /\ msg <= dst /\ dst <= src /\ src <= z /\ z = msg + R /\ z < next /\ next \in Nat
      /\ next <= LastByte /\ LastByte \in Nat /\ \A i \in 1 .. R : raw[i] # NUL
  BY BufferBounds DEF Places
<1>2. /\ st \o Text(raw)[src - msg + 1] = Documented(raw)
      /\ \A i \in 1 .. n : mem[msg + i - 1] # NUL
      /\ \A i \in src - msg + 1 .. R : mem[msg + i - 1] = raw[i]
  BY DEF InLine, Decoding
<1>. HIDE DEF raw, R, z
<1>3. src = z
  <2>. SUFFICES ASSUME src # z PROVE FALSE
    OBVIOUS
  <2>. DEFINE i == src - msg + 1
  <2>1. i \in 1 .. R /\ i \in src - msg + 1 .. R /\ msg + i - 1 = src
    BY <1>1
  <2>. HIDE DEF i
  <2>2. mem[src] = raw[i]
    BY <1>2, <2>1
  <2>. QED
    BY <1>1, <2>1, <2>2
<1>4. Text(raw)[src - msg + 1] = <<>>
  <2>1. src - msg + 1 = Len(raw) + 1
    BY <1>1, <1>3 DEF R
  <2>2. TextSteps(raw, Text(raw))
    BY <1>1, TextIs
  <2>. QED
    BY <2>1, <2>2 DEF TextSteps
<1>5. st = [i \in 1 .. n |-> mem[msg + i - 1]] /\ n \in Nat
  BY <1>1 DEF Stored
<1>6. \A i \in 1 .. n : mem[msg + i - 1] \in Int
  <2>. DEFINE B == Byte
  <2>1. mem \in [-1 .. LastByte -> B] /\ B \subseteq Int
    BY DEF TypeInv, TypeOK, Byte
  <2>. HIDE DEF B
  <2>. SUFFICES ASSUME NEW i \in 1 .. n PROVE mem[msg + i - 1] \in Int
    OBVIOUS
  <2>2. msg + i - 1 \in -1 .. LastByte
    BY <1>1
  <2>. QED
    BY <2>1, <2>2
<1>. HIDE DEF st, n
<1>7. st \in Seq(Int) /\ Len(st) = n /\ \A i \in 1 .. n : st[i] = mem[msg + i - 1]
  BY <1>5, <1>6
<1>8. st \o <<>> = st
  BY <1>7
<1>. QED
  BY <1>2, <1>3, <1>4, <1>7, <1>8 DEF st, n, raw, z

LEMMA EscapeEndFiles ==
  ASSUME TypeInv, NEW l \in 1 .. Len(file), Places(l), InLine(l), EscapeEnd
  PROVE  AtLine(l)'
<1>. DEFINE doc == Documented(file[l].raw)
            z == TextEnd(l)
            n == dst - msg
            o == Offset(file, l - 1)
<1>1. /\ mem[src] = NUL /\ mem' = [mem EXCEPT ![dst] = NUL]
      /\ table' = [table EXCEPT ![entries].text = msg] /\ entries' = entries + 1
      /\ where' = next /\ file' = file /\ entries \in 0 .. TableSize - 1
  <2>1. entries \in 0 .. TableSize - 1
    <3>1. entries \in 0 .. TableSize /\ entries < TableSize /\ TableSize \in Nat
      BY KittenAssumption DEF EscapeEnd, TypeInv, TypeOK
    <3>. QED
      BY <3>1
  <2>. QED
    BY <2>1 DEF EscapeEnd, escVars
<1>2. /\ file \in Catalogues /\ Len(file[l].raw) \in Nat
      /\ msg \in Nat /\ src \in Nat /\ dst \in Nat /\ next \in Nat
      /\ msg <= dst /\ dst <= src /\ src <= z /\ z < next
      /\ next = Offset(file, l) /\ next <= LastByte /\ LastByte \in Nat
      /\ o \in Nat /\ o <= msg /\ z = msg + Len(file[l].raw)
  BY BufferBounds DEF Places
<1>3. /\ Len(doc) = n
      /\ \A i \in 1 .. n : doc[i] = mem[msg + i - 1] /\ mem[msg + i - 1] # NUL
  BY <1>1, TextIsStored
<1>. HIDE DEF doc, z, o
<1>4. /\ mem'[dst] = NUL
      /\ \A a \in -1 .. LastByte : a # dst => mem'[a] = mem[a]
  <2>1. DOMAIN mem = -1 .. LastByte
    BY DEF TypeInv, TypeOK
  <2>2. dst \in -1 .. LastByte
    BY <1>2
  <2>. QED
    BY <1>1, <2>1, <2>2
<1>5. Holds(mem', msg, doc)
  <2>1. ASSUME NEW i \in 1 .. n PROVE mem'[msg + i - 1] = doc[i] /\ doc[i] # NUL
    <3>1. msg + i - 1 \in -1 .. LastByte /\ msg + i - 1 # dst
      BY <1>2
    <3>. QED
      BY <1>3, <1>4, <3>1
  <2>2. msg + n = dst
    BY <1>2
  <2>. HIDE DEF n
  <2>. QED
    BY <1>3, <1>4, <2>1, <2>2 DEF Holds
<1>6. /\ table'[entries].key1 = table[entries].key1 /\ table'[entries].key2 = table[entries].key2
      /\ table'[entries].text = msg
      /\ \A j \in 0 .. TableSize - 1 : j # entries => table'[j] = table[j]
  <2>1. table \in [0 .. TableSize - 1 -> EntryType]
    BY DEF TypeInv, TypeOK, EntryType
  <2>2. table[entries] \in EntryType
    BY <1>1, <2>1
  <2>. QED
    BY <1>1, <2>1, <2>2 DEF EntryType
<1>7. EntryIsFor(mem', table'[entries], file[l], Offset(file, l))
  <2>1. file[l].key = <<table[entries].key1, table[entries].key2>>
    BY DEF InLine
  <2>2. msg + Len(doc) < Offset(file, l)
    <3>1. msg + n < next
      BY <1>2
    <3>. QED
      BY <1>2, <1>3, <3>1
  <2>. QED
    BY <1>2, <1>5, <1>6, <2>1, <2>2 DEF EntryIsFor, doc
<1>8. AllFiled(mem, table, entries, file, l - 1)
  BY DEF InLine
<1>9. /\ entries \in Nat /\ \A j \in 0 .. entries - 1 : table'[j] = table[j]
      /\ \A j \in entries + 1 .. TableSize - 1 : table'[j].text = NoText
  <2>1. \A j \in entries .. TableSize - 1 : table[j].text = NoText
    BY <1>8 DEF AllFiled, Filed
  <2>2. entries \in Nat /\ TableSize \in Nat
    BY <1>1, KittenAssumption
  <2>3. ASSUME NEW j \in 0 .. entries - 1 PROVE j \in 0 .. TableSize - 1 /\ j # entries
    BY <1>1, <2>2
  <2>4. ASSUME NEW j \in entries + 1 .. TableSize - 1
        PROVE  j \in 0 .. TableSize - 1 /\ j # entries /\ j \in entries .. TableSize - 1
    BY <1>1, <2>2
  <2>. QED
    BY <1>6, <2>1, <2>2, <2>3, <2>4
<1>10. \A a \in 0 .. o - 1 : mem'[a] = mem[a]
  <2>. SUFFICES ASSUME NEW a \in 0 .. o - 1 PROVE mem'[a] = mem[a]
    OBVIOUS
  <2>1. a \in -1 .. LastByte /\ a # dst
    BY <1>2
  <2>. QED
    BY <1>4, <2>1
<1>11. AllFiled(mem', table', entries + 1, file, l)
  <2>1. \A a \in 0 .. Offset(file, l - 1) - 1 : mem'[a] = mem[a]
    BY <1>10 DEF o
  <2>. QED
    BY <1>2, <1>7, <1>8, <1>9, <2>1, FiledMore
<1>12. mem'[next - 1] = NUL
  <2>1. next - 1 \in -1 .. LastByte /\ mem[next - 1] = NUL
    BY <1>2 DEF InLine
  <2>. QED
    BY <1>4, <2>1
<1>13. Unread(mem', file, next)
  <2>. DEFINE b == Bytes[file]
  <2>. SUFFICES ASSUME NEW a \in next .. LastByte
                PROVE  mem'[a] = IF a < Len(b) THEN b[a + 1] ELSE NUL
    BY DEF Unread
  <2>1. a \in -1 .. LastByte /\ a # dst
    BY <1>2
  <2>2. mem[a] = IF a < Len(b) THEN b[a + 1] ELSE NUL
    BY DEF InLine, Unread
  <2>. QED
    BY <1>4, <2>1, <2>2
<1>. QED
  BY <1>1, <1>2, <1>11, <1>12, <1>13 DEF AtLine

LEMMA InitCatalogue == Init => CatalogueInv
BY DEF Init, CatalogueInv, Succeeded

LEMMA OpenCatalogue ==
  ASSUME CatalogueInv, NoLanguage \/ StartSearch \/ EndSearch \/ NoSuchFile \/ RejectFile
  PROVE  CatalogueInv'
<1>1. /\ pc' \in {"search", "ready"}
      /\ pc' = "ready" => ret' \in {-1, 0}
      /\ pc' # "ready" => ret' = 0
  BY DEF CatalogueInv, NoLanguage, StartSearch, EndSearch, NoSuchFile, RejectFile, Return,
         Candidate, openVars
<1>. QED
  BY <1>1 DEF CatalogueInv, Succeeded

LEMMA ReadFileCatalogue ==
  ASSUME TypeInv, CatalogueInv, ReadFile
  PROVE  CatalogueInv'
<1>1. pc' = "lines" /\ ret' = 0
  BY DEF CatalogueInv, ReadFile, Candidate
<1>2. file' \in RightSize /\ AtLine(0)'
  BY ReadFileFiles
<1>3. 0 \in 0 .. Len(file')
  <2>1. Len(file') \in Nat
    BY <1>2, CatalogueAssumption DEF RightSize
  <2>. QED
    BY <2>1
<1>4. (\E l \in 0 .. Len(file) : AtLine(l))'
  BY <1>2, <1>3
<1>. QED
  BY <1>1, <1>2, <1>4 DEF CatalogueInv, Succeeded

LEMMA LinesCatalogue ==
  ASSUME TypeInv, CatalogueInv, EndOfFile \/ SkipLine \/ ReadLine
  PROVE  CatalogueInv'
<1>1. pc = "lines" /\ ret = 0 /\ file \in RightSize /\ file' = file
  BY DEF CatalogueInv, EndOfFile, SkipLine, ReadLine, escVars
<1>2. CleanFile' = CleanFile
  BY <1>1 DEF CleanFile
<1>3. CASE EndOfFile
  <2>1. pc' = "ready" /\ ret' = 1
    BY <1>3 DEF EndOfFile, Return
  <2>2. ASSUME CleanFile PROVE AllFiled(mem, table, entries, file, Len(file))'
    <3>1. PICK l \in 0 .. Len(file) : AtLine(l)
      BY <1>1, <2>2 DEF CatalogueInv
    <3>. QED
      BY <1>1, <1>3, <2>2, <3>1, EndOfFileFiles
  <2>. QED
    BY <1>1, <1>2, <2>1, <2>2 DEF CatalogueInv, Succeeded
<1>4. CASE SkipLine
  <2>1. pc' = "lines" /\ ret' = 0
    BY <1>1, <1>4 DEF SkipLine, openVars
  <2>2. ASSUME CleanFile PROVE \E k \in 0 .. Len(file) : AtLine(k)'
    <3>1. PICK l \in 0 .. Len(file) : AtLine(l)
      BY <1>1, <2>2 DEF CatalogueInv
    <3>. QED
      BY <1>1, <1>4, <2>2, <3>1, SkipLineFiles
  <2>3. ASSUME CleanFile PROVE (\E k \in 0 .. Len(file) : AtLine(k))'
    BY <1>1, <2>2, <2>3
  <2>. QED
    BY <1>1, <1>2, <2>1, <2>3 DEF CatalogueInv, Succeeded
<1>5. CASE ReadLine
  <2>1. ret' = 0 /\ pc' \in {"escape", "corrupt"}
    BY <1>1, <1>5 DEF ReadLine, openVars
  <2>2. ASSUME CleanFile, pc' = "escape" PROVE (\E k \in 1 .. Len(file) : InLine(k))'
    <3>1. PICK l \in 0 .. Len(file) : AtLine(l)
      BY <1>1, <2>2 DEF CatalogueInv
    <3>2. \E k \in 1 .. Len(file) : InLine(k)'
      BY <1>1, <1>5, <2>2, <3>1, ReadLineFiles
    <3>. QED
      BY <1>1, <3>2
  <2>3. ASSUME CleanFile, pc' = "corrupt" PROVE (Cardinality(Messages) > TableSize)'
    <3>1. PICK l \in 0 .. Len(file) : AtLine(l)
      BY <1>1, <2>3 DEF CatalogueInv
    <3>. QED
      BY <1>1, <1>5, <2>3, <3>1, CorruptMessages
  <2>. QED
    BY <1>1, <1>2, <2>1, <2>2, <2>3 DEF CatalogueInv, Succeeded
<1>. QED
  BY <1>3, <1>4, <1>5

LEMMA EscapeCatalogue ==
  ASSUME TypeInv, CatalogueInv,
         EscapeNothing \/ EscapeLetter \/ EscapeNumber \/ EscapeEnd
  PROVE  CatalogueInv'
<1>1. pc = "escape" /\ ret = 0 /\ file \in RightSize /\ file' = file /\ ret' = 0
  BY DEF CatalogueInv, EscapeNothing, EscapeLetter, EscapeNumber, EscapeEnd, InText,
         openVars
<1>2. CleanFile' = CleanFile
  BY <1>1 DEF CleanFile
<1>3. ASSUME CleanFile PROVE \E l \in 1 .. Len(file) : InLine(l) /\ Places(l)
  BY <1>1, <1>3, PlacesAre DEF CatalogueInv
<1>4. CASE EscapeNothing \/ EscapeLetter \/ EscapeNumber
  <2>1. pc' = "escape"
    BY <1>1, <1>4 DEF EscapeNothing, EscapeLetter, EscapeNumber
  <2>2. ASSUME CleanFile PROVE (\E l \in 1 .. Len(file) : InLine(l))'
    <3>1. PICK l \in 1 .. Len(file) : InLine(l) /\ Places(l)
      BY <1>3, <2>2
    <3>2. InLine(l)'
      BY <1>4, <3>1, EscapeNothingFiles, EscapeLetterFiles, EscapeNumberFiles
    <3>. QED
      BY <1>1, <3>2
  <2>. QED
    BY <1>1, <1>2, <2>1, <2>2 DEF CatalogueInv, Succeeded
<1>5. CASE EscapeEnd
  <2>1. pc' = "lines"
    BY <1>5 DEF EscapeEnd
  <2>2. ASSUME CleanFile PROVE (\E l \in 0 .. Len(file) : AtLine(l))'
    <3>1. PICK l \in 1 .. Len(file) : InLine(l) /\ Places(l)
      BY <1>3, <2>2
    <3>2. AtLine(l)'
      BY <1>5, <3>1, EscapeEndFiles
    <3>3. l \in 0 .. Len(file')
      BY <1>1
    <3>. QED
      BY <3>2, <3>3
  <2>. QED
    BY <1>1, <1>2, <2>1, <2>2 DEF CatalogueInv, Succeeded
<1>. QED
  BY <1>4, <1>5

LEMMA CatalogueStep == TypeInv /\ CatalogueInv /\ [Next]_vars => CatalogueInv'
<1>. SUFFICES ASSUME TypeInv, CatalogueInv, [Next]_vars PROVE CatalogueInv'
  OBVIOUS
<1>1. CASE NoLanguage \/ StartSearch \/ EndSearch \/ NoSuchFile \/ RejectFile
  BY <1>1, OpenCatalogue
<1>2. CASE ReadFile
  BY <1>2, ReadFileCatalogue
<1>3. CASE EndOfFile \/ SkipLine \/ ReadLine
  BY <1>3, LinesCatalogue
<1>4. CASE EscapeNothing \/ EscapeLetter \/ EscapeNumber \/ EscapeEnd
  BY <1>4, EscapeCatalogue
<1>5. CASE UNCHANGED vars
  <2>1. /\ pc' = pc /\ ret' = ret /\ mem' = mem /\ where' = where /\ next' = next
        /\ entries' = entries /\ table' = table /\ msg' = msg /\ src' = src /\ dst' = dst
        /\ file' = file
    BY <1>5 DEF vars, openVars, escVars
  <2>. QED
    BY <2>1 DEF CatalogueInv, Succeeded, CleanFile, Messages, AtLine, InLine, TextAt, TextEnd
<1>. QED
  BY <1>1, <1>2, <1>3, <1>4, <1>5 DEF Next

(* catread() never writes past catpoints[] while a clean file has no more  *)
(* messages than the table has entries: a line takes an entry exactly if   *)
(* it has keys, comments and empty lines take none.                        *)
THEOREM TableCorrect == Spec => []TableSuffices
<1>1. TypeInv /\ CatalogueInv => TableSuffices
  <2>. SUFFICES ASSUME CatalogueInv, CleanFile, Cardinality(Messages) <= TableSize,
                       pc = "corrupt", TypeInv
                PROVE  FALSE
    BY DEF TableSuffices
  <2>1. Cardinality(Messages) > TableSize
    BY DEF CatalogueInv
  <2>2. Cardinality(Messages) \in Nat /\ TableSize \in Nat
    <3>1. Len(file) \in Nat /\ DOMAIN file = 1 .. Len(file)
      BY CatalogueAssumption DEF CatalogueInv, RightSize
    <3>2. IsFiniteSet(1 .. Len(file)) /\ Messages \subseteq 1 .. Len(file)
      BY <3>1, FS_Interval DEF Messages
    <3>. QED
      BY <3>2, FS_Subset, FS_CardinalityType, KittenAssumption
  <2>. QED
    BY <2>1, <2>2
<1>. QED
  BY <1>1, InitType, TypeStep, InitCatalogue, CatalogueStep, PTL DEF Spec

-----------------------------------------------------------------------------
(* What kittengets() finds                                                 *)

LEMMA StringIs ==
  ASSUME NEW m, NEW a \in Nat, NEW s \in Seq(Int), Holds(m, a, s), a + Len(s) <= LastByte
  PROVE  StringAt(m, a) = s
<1>. DEFINE n == Len(s)
            x == a + n
            E == {b \in a .. LastByte : m[b] = NUL}
<1>1. /\ n \in Nat /\ s = [i \in 1 .. n |-> s[i]] /\ LastByte \in Nat
      /\ \A i \in 1 .. n : m[a + i - 1] = s[i] /\ s[i] # NUL
      /\ m[x] = NUL
  BY BufferBounds DEF Holds
<1>. HIDE DEF n
<1>2. x \in E
  BY <1>1 DEF n
<1>3. ASSUME NEW b \in E PROVE x <= b
  <2>. SUFFICES ASSUME b < x PROVE FALSE
    BY <1>1
  <2>1. b \in a .. LastByte /\ m[b] = NUL
    OBVIOUS
  <2>. DEFINE i == b - a + 1
  <2>2. i \in 1 .. n /\ a + i - 1 = b
    BY <1>1, <2>1
  <2>. HIDE DEF i, E, x
  <2>. QED
    BY <1>1, <2>1, <2>2
<1>4. E \subseteq Nat
  BY <1>1
<1>. HIDE DEF E, x
<1>5. Min(E) = x
  BY <1>2, <1>3, <1>4, MinIs
<1>6. StringAt(m, a) = [i \in 1 .. x - a |-> m[a + i - 1]]
  BY <1>5 DEF StringAt, E
<1>7. x - a = n
  BY <1>1 DEF x
<1>. QED
  BY <1>1, <1>6, <1>7

(* Different entries are of different messages.                            *)
LEMMA NoMoreEntries ==
  ASSUME TypeInv, file \in RightSize,
         NEW at \in [0 .. entries - 1 -> 1 .. Len(file)],
         \A i, j \in 0 .. entries - 1 : i < j => at[i] < at[j],
         \A j \in 0 .. entries - 1 : at[j] \in Messages
  PROVE  entries <= Cardinality(Messages)
<1>. DEFINE N == 0 .. entries - 1
<1>1. Len(file) \in Nat /\ DOMAIN file = 1 .. Len(file) /\ entries \in Nat
  BY CatalogueAssumption, KittenAssumption DEF RightSize, TypeInv, TypeOK
<1>2. IsFiniteSet(Messages)
  <2>1. IsFiniteSet(1 .. Len(file))
    BY <1>1, FS_Interval
  <2>2. Messages \subseteq 1 .. Len(file)
    BY <1>1 DEF Messages
  <2>. QED
    BY <2>1, <2>2, FS_Subset
<1>3. Cardinality(Messages) \in Nat
  BY <1>2, FS_CardinalityType
<1>4. CASE entries = 0
  BY <1>3, <1>4
<1>5. CASE entries # 0
  <2>1. IsFiniteSet(N) /\ Cardinality(N) = entries
    <3>1. 0 \in Int /\ entries - 1 \in Int /\ ~ (0 > entries - 1)
          /\ entries - 1 - 0 + 1 = entries
      BY <1>1, <1>5
    <3>. QED
      BY <3>1, FS_Interval
  <2>2. at \in [N -> Messages]
    OBVIOUS
  <2>3. \A i, j \in N : i < j \/ j < i \/ i = j
    BY <1>1
  <2>4. \A j \in N : at[j] \in Nat
    BY <1>1
  <2>5. \A i, j \in N : i < j => at[i] < at[j]
    OBVIOUS
  <2>6. \A i, j \in N : at[i] = at[j] => i = j
    <3>. HIDE DEF N
    <3>. QED
      BY <2>3, <2>4, <2>5
  <2>7. ~ (Cardinality(Messages) < Cardinality(N))
    <3>. HIDE DEF N
    <3>. SUFFICES ASSUME Cardinality(Messages) < Cardinality(N) PROVE FALSE
      OBVIOUS
    <3>1. PICK i, j \in N : i # j /\ at[i] = at[j]
      BY <1>2, <2>1, <2>2, FS_PigeonHole
    <3>. QED
      BY <2>6, <3>1
  <2>. HIDE DEF N
  <2>. QED
    BY <1>1, <1>3, <2>1, <2>7
<1>. QED
  BY <1>4, <1>5

(* The entries of a table that holds all lines of a clean file.            *)
LEMMA AnswerFound ==
  ASSUME TypeInv, file \in RightSize, AllFiled(mem, table, entries, file, Len(file)),
         NEW k \in Keys,
         LinesOf(k) # {} \/ Cardinality(Messages) < TableSize
  PROVE  Kittengets(k[1], k[2]) = {Expected(k)}
<1>. DEFINE lines == LinesOf(k)
            Matches(i) == table[i].key1 = k[1] /\ table[i].key2 = k[2]
            Ends == {i \in DOMAIN table : Matches(i) \/ table[i].text = NoText}
            N == Len(file)
<1>1. PICK at \in [0 .. entries - 1 -> 1 .. N] : Filed(mem, table, entries, file, N, at)
  BY DEF AllFiled
<1>2. /\ file \in Catalogues /\ N \in Nat /\ DOMAIN file = 1 .. N
      /\ entries \in 0 .. TableSize /\ TableSize \in Nat /\ DOMAIN table = 0 .. TableSize - 1
  BY CatalogueAssumption, KittenAssumption DEF RightSize, TypeInv, TypeOK
<1>3. k = <<k[1], k[2]>>
  BY KittenAssumption
<1>4. ASSUME NEW j \in 0 .. entries - 1
      PROVE  /\ at[j] \in Messages /\ table[j].text # NoText /\ j \in DOMAIN table
             /\ Matches(j) <=> at[j] \in lines
             /\ StringAt(mem, table[j].text) = Documented(file[at[j]].raw)
  <2>1. at[j] \in 1 .. N /\ EntryIsFor(mem, table[j], file[at[j]], Offset(file, N))
    BY <1>1 DEF Filed
  <2>2. file[at[j]].key = <<table[j].key1, table[j].key2>> /\ table[j].text \in Nat
    BY <2>1 DEF EntryIsFor
  <2>3. file[at[j]].key # <<>>
    BY <2>2
  <2>4. at[j] \in Messages
    BY <1>2, <2>1, <2>3 DEF Messages
  <2>5. Matches(j) <=> at[j] \in lines
    <3>1. Matches(j) <=> file[at[j]].key = k
      BY <1>3, <2>2
    <3>. QED
      BY <2>4, <3>1 DEF LinesOf
  <2>6. table[j].text # NoText
    BY <2>2 DEF NoText
  <2>7. StringAt(mem, table[j].text) = Documented(file[at[j]].raw)
    <3>. DEFINE s == Documented(file[at[j]].raw)
    <3>1. file[at[j]].raw \in Seq(Byte)
      BY <1>2, <2>1, LineParts
    <3>2. s \in Seq(Int)
      <4>1. 1 \in 1 .. Len(file[at[j]].raw) + 1
        BY <1>2, <2>1, LineParts
      <4>. QED
        BY <3>1, <4>1, TextDomain DEF Documented
    <3>3. /\ Holds(mem, table[j].text, s) /\ table[j].text + Len(s) < Offset(file, N)
      BY <2>1 DEF EntryIsFor
    <3>4. Offset(file, N) \in Nat /\ Offset(file, N) <= LastByte
      <4>1. Layout(file)
        BY <1>2, LayoutFact
      <4>2. Offset(file, N) = Len(Bytes[file]) /\ N \in 0 .. Len(file)
        BY <1>2, <4>1 DEF Layout
      <4>3. Offset(file, N) \in Nat
        BY <4>1, <4>2 DEF Layout
      <4>. QED
        BY <4>2, <4>3, BufferBounds DEF RightSize
    <3>. HIDE DEF s, N
    <3>5. Len(s) \in Nat
      BY <3>2
    <3>6. table[j].text + Len(s) <= LastByte
      BY <2>2, <3>3, <3>4, <3>5, BufferBounds
    <3>. QED
      BY <2>2, <3>2, <3>3, <3>6, StringIs DEF s
  <2>8. j \in DOMAIN table
    BY <1>2
  <2>. QED
    BY <2>4, <2>5, <2>6, <2>7, <2>8
<1>5. ASSUME NEW j \in DOMAIN table, table[j].text # NoText
      PROVE  j \in 0 .. entries - 1
  <2>1. j \in entries .. TableSize - 1 => table[j].text = NoText
    BY <1>1 DEF Filed
  <2>2. j \in 0 .. TableSize - 1
    BY <1>2
  <2>. QED
    BY <1>2, <1>5, <2>1, <2>2
<1>6. Kittengets(k[1], k[2]) =
        IF Ends = {} THEN {Default, Stray}
        ELSE {IF table[Min(Ends)].text = NoText THEN Default
              ELSE StringAt(mem, table[Min(Ends)].text)}
  BY Zenon DEF Kittengets
<1>7. Ends \subseteq Nat
  BY <1>2
<1>8. CASE lines = {}
  <2>1. entries < TableSize
    <3>1. entries <= Cardinality(Messages)
      BY <1>1, <1>4, NoMoreEntries DEF Filed
    <3>2. Cardinality(Messages) < TableSize
      BY <1>8
    <3>3. Cardinality(Messages) \in Nat
      <4>1. IsFiniteSet(1 .. N) /\ Messages \subseteq 1 .. N
        BY <1>2, FS_Interval DEF Messages
      <4>. QED
        BY <4>1, FS_Subset, FS_CardinalityType
    <3>. QED
      BY <1>2, <3>1, <3>2, <3>3
  <2>2. entries \in Ends
    <3>1. entries \in entries .. TableSize - 1 /\ entries \in 0 .. TableSize - 1
      BY <1>2, <2>1
    <3>2. table[entries].text = NoText
      BY <1>1, <3>1 DEF Filed
    <3>. QED
      BY <1>2, <3>1, <3>2
  <2>. DEFINE e == Min(Ends)
  <2>3. e \in Ends
    <3>. HIDE DEF Ends
    <3>. QED
      BY <1>7, <2>2, MinFact
  <2>. HIDE DEF e, lines
  <2>4. table[e].text = NoText
    <3>. SUFFICES ASSUME table[e].text # NoText PROVE FALSE
      OBVIOUS
    <3>1. e \in DOMAIN table /\ Matches(e)
      BY <2>3
    <3>2. e \in 0 .. entries - 1
      BY <1>5, <3>1
    <3>. HIDE DEF Matches
    <3>. QED
      BY <1>4, <1>8, <3>1, <3>2
  <2>5. Kittengets(k[1], k[2]) = {Default}
    <3>. HIDE DEF Ends
    <3>. QED
      BY <1>6, <2>2, <2>4 DEF e
  <2>. QED
    BY <1>8, <2>5 DEF Expected, lines
<1>9. CASE lines # {}
  <2>. DEFINE x == Min(lines)
  <2>1. x \in lines /\ \A i \in lines : x <= i
    <3>1. lines \subseteq Nat
      BY <1>2 DEF LinesOf, Messages
    <3>. HIDE DEF lines
    <3>. QED
      BY <1>9, <3>1, MinFact
  <2>2. x \in 1 .. N /\ file[x].key # <<>>
    <3>1. x \in Messages
      BY <2>1 DEF LinesOf
    <3>. QED
      BY <1>2, <3>1 DEF Messages
  <2>. HIDE DEF x, lines, Matches
  <2>3. PICK j \in 0 .. entries - 1 : at[j] = x
    BY <1>1, <2>2 DEF Filed
  <2>4. /\ Matches(j) /\ table[j].text # NoText /\ j \in DOMAIN table
        /\ StringAt(mem, table[j].text) = Documented(file[x].raw)
    BY <1>4, <2>1, <2>3
  <2>5. ASSUME NEW i \in Ends PROVE j <= i
    <3>1. i \in DOMAIN table /\ (Matches(i) \/ table[i].text = NoText) /\ i \in Int /\ j \in Int
      BY <1>2, <2>3
    <3>. SUFFICES ASSUME i < j PROVE FALSE
      BY <3>1
    <3>2. i \in 0 .. entries - 1
      BY <1>2, <2>3, <3>1
    <3>3. at[i] \in lines
      BY <1>4, <3>1, <3>2
    <3>4. at[i] < at[j] /\ at[i] \in 1 .. N /\ x \in 1 .. N
      BY <1>1, <2>2, <2>3, <3>2 DEF Filed
    <3>. QED
      BY <2>1, <2>3, <3>3, <3>4, <1>2
  <2>6. Min(Ends) = j /\ Ends # {}
    <3>1. j \in Ends
      BY <2>4
    <3>. HIDE DEF Ends
    <3>. QED
      BY <1>7, <2>5, <3>1, MinIs
  <2>7. Kittengets(k[1], k[2]) = {Documented(file[x].raw)}
    <3>. HIDE DEF Ends
    <3>. QED
      BY <1>6, <2>4, <2>6
  <2>. QED
    BY <1>9, <2>7 DEF x, lines, Expected
<1>. QED
  BY <1>8, <1>9

(* For every clean catalogue, every size of the buffer and the table and   *)
(* every key that a line has, kittengets() answers with the text of the    *)
(* first such line, all its escapes decoded as documented; for every other *)
(* key with the caller's message, provided that the catalogue leaves an    *)
(* entry of the table empty.                                               *)
THEOREM AnswerCorrect == Spec => []AnswerIsMessage
<1>1. TypeInv /\ CatalogueInv => AnswerIsMessage
  <2>. SUFFICES ASSUME TypeInv, CatalogueInv, CleanFile, pc = "ready", ret = 1, NEW k \in Keys,
                       LinesOf(k) # {} \/ Cardinality(Messages) < TableSize
                PROVE  Kittengets(k[1], k[2]) = {Expected(k)}
    BY DEF AnswerIsMessage
  <2>1. file \in RightSize /\ AllFiled(mem, table, entries, file, Len(file))
    BY DEF CatalogueInv, Succeeded
  <2>. QED
    BY <2>1, AnswerFound
<1>. QED
  BY <1>1, InitType, TypeStep, InitCatalogue, CatalogueStep, PTL DEF Spec

=============================================================================
