---------------------------- MODULE CmdLine_proofs ----------------------------
(***************************************************************************)
(* Proofs about CmdLine: GetOptions() reads every sentence of the usage    *)
(* text as the text explains it, and accepts nothing else.                 *)
(***************************************************************************)
EXTENDS CmdLine, Induction

(* The states of the loop.                                                 *)
States == [at : Nat \ {0}, o : Globals]

LEMMA StartType == [at |-> 1, o |-> Start] \in States
BY DEF States, Globals, Start, Verbosities

LEMMA OptionType ==
  ASSUME NEW args, NEW i \in Nat \ {0}, NEW o \in Globals
  PROVE  Option(args, i, o) \in Globals
<1>1. \A v \in Verbosities : Verbosity(o, v) \in Globals
  BY DEF Verbosity, Globals
<1>2. "SILENT" \in Verbosities /\ "QUIET" \in Verbosities /\ "VERBOSE" \in Verbosities
  BY DEF Verbosities
<1>3. /\ [o EXCEPT !.ret = 1] \in Globals /\ [o EXCEPT !.ret = 2] \in Globals
      /\ [o EXCEPT !.uninstall = TRUE] \in Globals /\ [o EXCEPT !.testOnly = TRUE] \in Globals
  BY DEF Globals
<1>. QED
  BY <1>1, <1>2, <1>3 DEF Option

LEMMA TurnType ==
  ASSUME NEW args, NEW s \in States
  PROVE  Turn(args, s) \in States
<1>1. s.at \in Nat \ {0} /\ s.o \in Globals
  BY DEF States
<1>2. Option(args, s.at, s.o) \in Globals
  BY <1>1, OptionType
<1>3. s.at + Length(args, s.at) \in Nat \ {0}
  BY <1>1 DEF Length
<1>4. [at |-> s.at + Length(args, s.at), o |-> Option(args, s.at, s.o)] \in States
  BY <1>2, <1>3 DEF States
<1>. QED
  BY <1>4 DEF Turn

(* The states that the loop goes through.                                  *)
Turns(args, A) ==
  /\ A \in [Nat -> States]
  /\ A[0] = [at |-> 1, o |-> Start]
  /\ \A n \in Nat : A[n + 1] = Turn(args, A[n])

LEMMA TurnsExist == \A args : \E A : Turns(args, A)
<1>. SUFFICES ASSUME NEW args PROVE \E A : Turns(args, A)
  OBVIOUS
<1>. DEFINE g == [s \in States |-> Turn(args, s)]
            c == [at |-> 1, o |-> Start]
<1>1. g \in [States -> States]
  BY TurnType
<1>2. c \in States
  BY StartType
<1>3. PICK A \in [Nat -> States] : Iterates(A, c, g)
  <2>. HIDE DEF g, c
  <2>. QED
    BY <1>1, <1>2, IterationExists
<1>4. \A n \in Nat : A[n + 1] = Turn(args, A[n])
  BY <1>3 DEF Iterates
<1>. QED
  BY <1>3, <1>4 DEF Turns, Iterates

(* GetOptions() returns what they end with.                                *)
LEMMA GetOptionsIs ==
  ASSUME NEW args \in Seq(Chars), NEW A, Turns(args, A)
  PROVE  GetOptions(args) = A[Len(args)].o
<1>. DEFINE N == Len(args)
            c == [at |-> 1, o |-> Start]
            Body(f) == [n \in 0 .. N |-> IF n = 0 THEN c ELSE Turn(args, f[n - 1])]
            f == CHOOSE f : f = Body(f)
            h == [n \in 0 .. N |-> A[n]]
<1>1. N \in Nat
  OBVIOUS
<1>2. GetOptions(args) = f[N].o
  BY DEF GetOptions
<1>. HIDE DEF N, c
<1>3. A[0] = c /\ \A n \in Nat : A[n + 1] = Turn(args, A[n])
  BY DEF Turns, c
<1>4. h = Body(h)
  <2>. SUFFICES ASSUME NEW n \in 0 .. N PROVE h[n] = Body(h)[n]
    OBVIOUS
  <2>1. CASE n = 0
    BY <1>3, <2>1
  <2>2. CASE n # 0
    <3>1. n - 1 \in Nat /\ n - 1 \in 0 .. N /\ (n - 1) + 1 = n
      BY <1>1, <2>2
    <3>2. A[n] = Turn(args, A[n - 1])
      BY <1>3, <3>1
    <3>. QED
      BY <2>2, <3>1, <3>2
  <2>. QED
    BY <2>1, <2>2
<1>5. f = Body(f)
  <2>. HIDE DEF Body, h
  <2>1. \E g : g = Body(g)
    BY <1>4
  <2>. QED
    BY <2>1
<1>. HIDE DEF f
<1>6. f[0] = c /\ \A n \in 0 .. N - 1 : f[n + 1] = Turn(args, f[n])
  BY <1>1, <1>5
<1>7. f[N] = A[N]
  <2>. DEFINE U == {n \in 0 .. N : f[n] = A[n]}
  <2>1. 0 \in U
    BY <1>1, <1>3, <1>6
  <2>2. ASSUME NEW n \in 0 .. N - 1, n \in U
        PROVE  n + 1 \in U
    <3>1. n \in Nat /\ n + 1 \in 0 .. N
      BY <1>1
    <3>. QED
      BY <2>2, <3>1, <1>3, <1>6
  <2>. HIDE DEF U
  <2>3. \A n \in 0 .. N : n \in U
    BY <1>1, <2>1, <2>2, IntervalInduction
  <2>. QED
    BY <1>1, <2>3 DEF U
<1>. QED
  BY <1>2, <1>7 DEF N

(* The parser returns 0, 1 or 2 and proper globals for every string.       *)
THEOREM GetOptionsType ==
  ASSUME NEW args \in Seq(Chars)
  PROVE  GetOptions(args) \in Globals
<1>1. PICK A : Turns(args, A)
  BY TurnsExist
<1>2. A[Len(args)] \in States
  BY <1>1 DEF Turns
<1>. QED
  BY <1>1, <1>2, GetOptionsIs DEF States

-----------------------------------------------------------------------------
(* The text of a sentence                                                  *)

LEMMA SpelledIs ==
  /\ Words = {"blank", "Q", "QQ", "V", "U", "T"}
  /\ Spelled["blank"] = <<"blank">>
  /\ Spelled["Q"] = <<"/", "Q">> /\ Spelled["QQ"] = <<"/", "Q", "Q">>
  /\ Spelled["V"] = <<"/", "V">> /\ Spelled["U"] = <<"/", "U">>
  /\ Spelled["T"] = <<"/", "T">>
BY DEF Words, Spelled

LEMMA SpelledStart == \A w \in Words : Len(Spelled[w]) >= 1 /\ Spelled[w][1] # "Q"
<1>. SUFFICES ASSUME NEW w \in Words
              PROVE  Len(Spelled[w]) >= 1 /\ Spelled[w][1] # "Q"
  OBVIOUS
<1>1. CASE w = "blank"
  BY <1>1, SpelledIs
<1>2. CASE w = "QQ"
  BY <1>2, SpelledIs
<1>3. CASE w \in {"Q", "V", "U", "T"}
  <2>1. Spelled[w] = <<"/", w>>
    BY <1>3, SpelledIs
  <2>. QED
    BY <2>1
<1>. QED
  BY <1>1, <1>2, <1>3, SpelledIs

LEMMA SpelledType == \A w \in Words : Spelled[w] \in Seq(Chars)
<1>1. /\ <<"blank">> \in Seq(Chars) /\ <<"/", "Q">> \in Seq(Chars)
      /\ <<"/", "Q", "Q">> \in Seq(Chars) /\ <<"/", "V">> \in Seq(Chars)
      /\ <<"/", "U">> \in Seq(Chars) /\ <<"/", "T">> \in Seq(Chars)
  BY DEF Chars
<1>. QED
  BY <1>1, SpelledIs

Pieces(ws) == [i \in DOMAIN ws |-> Spelled[ws[i]]]

LEMMA PiecesType ==
  ASSUME NEW ws \in Seq(Words)
  PROVE  Pieces(ws) \in Seq(Seq(Chars)) /\ Len(Pieces(ws)) = Len(ws)
<1>1. \A i \in 1 .. Len(ws) : Spelled[ws[i]] \in Seq(Chars)
  BY SpelledType
<1>2. Pieces(ws) = [i \in 1 .. Len(ws) |-> Spelled[ws[i]]]
  BY DEF Pieces
<1>3. Pieces(ws) \in [1 .. Len(ws) -> Seq(Chars)] /\ Len(ws) \in Nat
  BY <1>1, <1>2
<1>. QED
  BY <1>3

LEMMA TextIs == \A ws : Text(ws) = FlattenSeq(Pieces(ws))
BY DEF Text, Pieces

LEMMA TextType ==
  ASSUME NEW ws \in Seq(Words)
  PROVE  Text(ws) \in Seq(Chars)
<1>. DEFINE ss == Pieces(ws)
<1>1. ss \in Seq(Seq(Chars)) /\ Len(ss) \in Nat
  BY PiecesType
<1>. HIDE DEF ss
<1>2. PICK f \in [0 .. Len(ss) -> Seq(Chars)] : FlattenSteps(f, ss) /\ FlattenSeq(ss) = f[Len(ss)]
  BY <1>1, FlattenExists
<1>. QED
  BY <1>1, <1>2, TextIs DEF ss

LEMMA TextEmpty == Text(<<>>) = <<>>
BY DEF Text, FlattenSeq

LEMMA TextAppend ==
  ASSUME NEW ws \in Seq(Words), NEW w \in Words
  PROVE  Text(Append(ws, w)) = Text(ws) \o Spelled[w]
<1>. DEFINE vs == Append(ws, w)
            ss == Pieces(ws)
            rr == Pieces(vs)
            n == Len(ws)
<1>1. vs \in Seq(Words) /\ Len(vs) = n + 1 /\ n \in Nat
      /\ vs[n + 1] = w /\ \A i \in 1 .. n : vs[i] = ws[i]
  BY AppendProperties
<1>. HIDE DEF vs
<1>2. ss \in Seq(Seq(Chars)) /\ Len(ss) = n
  BY PiecesType
<1>3. rr \in Seq(Seq(Chars)) /\ Len(rr) = n + 1
  BY <1>1, PiecesType
<1>4. rr[n + 1] = Spelled[w] /\ \A i \in 1 .. n : rr[i] = ss[i]
  BY <1>1 DEF Pieces
<1>. HIDE DEF rr, ss, n
<1>5. PICK f \in [0 .. Len(rr) -> Seq(Chars)] : FlattenSteps(f, rr) /\ FlattenSeq(rr) = f[Len(rr)]
  BY <1>3, FlattenExists
<1>6. f[0] = <<>> /\ \A i \in 0 .. n : f[i + 1] = f[i] \o rr[i + 1]
  <2>1. Len(rr) - 1 = n
    BY <1>1, <1>3
  <2>. QED
    BY <1>5, <2>1 DEF FlattenSteps
<1>7. FlattenSteps(f, ss)
  <2>1. ASSUME NEW i \in 0 .. n - 1
        PROVE  f[i + 1] = f[i] \o ss[i + 1]
    <3>1. i \in 0 .. n /\ i + 1 \in 1 .. n
      BY <1>1
    <3>. QED
      BY <1>4, <1>6, <3>1
  <2>. QED
    BY <1>2, <1>6, <2>1 DEF FlattenSteps
<1>8. FlattenSeq(ss) = f[n]
  BY <1>2, <1>7, FlattenIs
<1>9. f[n + 1] = f[n] \o Spelled[w]
  <2>1. n \in 0 .. n /\ n \in Nat
    BY <1>1 DEF n
  <2>2. f[n + 1] = f[n] \o rr[n + 1]
    BY <1>6, <2>1
  <2>. QED
    BY <1>4, <2>2
<1>. QED
  BY <1>3, <1>5, <1>8, <1>9, TextIs DEF ss, rr, vs

-----------------------------------------------------------------------------
(* What is accepted is a sentence                                          *)

(* Stretches of a string.                                                  *)
LEMMA Tuples ==
  ASSUME NEW S, NEW t \in Seq(S)
  PROVE  /\ Len(t) = 1 => t = <<t[1]>>
         /\ Len(t) = 2 => t = <<t[1], t[2]>>
         /\ Len(t) = 3 => t = <<t[1], t[2], t[3]>>
<1>1. ASSUME Len(t) = 1 PROVE t = <<t[1]>>
  BY <1>1
<1>2. ASSUME Len(t) = 2 PROVE t = <<t[1], t[2]>>
  BY <1>2
<1>3. ASSUME Len(t) = 3 PROVE t = <<t[1], t[2], t[3]>>
  BY <1>3
<1>. QED
  BY <1>1, <1>2, <1>3

LEMMA SubSeqIs ==
  ASSUME NEW S, NEW s \in Seq(S), NEW i \in 1 .. Len(s), NEW n \in Nat, i + n \in 1 .. Len(s)
  PROVE  /\ SubSeq(s, i, i + n) \in Seq(S)
         /\ Len(SubSeq(s, i, i + n)) = n + 1
         /\ \A k \in 1 .. n + 1 : SubSeq(s, i, i + n)[k] = s[i + k - 1]
<1>. DEFINE N == Len(s)
            m == i + n
<1>1. N \in Nat /\ \A k \in 1 .. N : s[k] \in S
  OBVIOUS
<1>. HIDE DEF N
<1>2. m \in 1 .. N /\ i \in 1 .. N
  BY DEF N
<1>3. i \in Int /\ m \in Int /\ i <= m /\ m - i + 1 = n + 1 /\ \A k \in i .. m : s[k] \in S
  BY <1>1, <1>2
<1>. HIDE DEF m
<1>. QED
  BY <1>3, SubSeqProperties DEF m

LEMMA SubSeqTuples ==
  ASSUME NEW S, NEW s \in Seq(S), NEW i \in 1 .. Len(s)
  PROVE  /\ SubSeq(s, i, i) = <<s[i]>>
         /\ i + 1 \in 1 .. Len(s) => SubSeq(s, i, i + 1) = <<s[i], s[i + 1]>>
         /\ i + 2 \in 1 .. Len(s) => SubSeq(s, i, i + 2) = <<s[i], s[i + 1], s[i + 2]>>
<1>1. /\ i \in Nat /\ i + 0 = i /\ i + 1 - 1 = i /\ i + 2 - 1 = i + 1 /\ i + 3 - 1 = i + 2
      /\ 0 \in Nat /\ 1 \in Nat /\ 2 \in Nat
      /\ 1 \in 1 .. 1 /\ 1 \in 1 .. 2 /\ 2 \in 1 .. 2
      /\ 1 \in 1 .. 3 /\ 2 \in 1 .. 3 /\ 3 \in 1 .. 3 /\ 0 + 1 = 1 /\ 1 + 1 = 2 /\ 2 + 1 = 3
  OBVIOUS
<1>2. SubSeq(s, i, i) = <<s[i]>>
  <2>. DEFINE t == SubSeq(s, i, i + 0)
  <2>1. t \in Seq(S) /\ Len(t) = 1 /\ t[1] = s[i]
    BY <1>1, SubSeqIs
  <2>2. t = SubSeq(s, i, i)
    BY <1>1
  <2>. HIDE DEF t
  <2>. QED
    BY <2>1, <2>2, Tuples
<1>3. ASSUME i + 1 \in 1 .. Len(s)
      PROVE  SubSeq(s, i, i + 1) = <<s[i], s[i + 1]>>
  <2>. DEFINE t == SubSeq(s, i, i + 1)
  <2>1. t \in Seq(S) /\ Len(t) = 2 /\ t[1] = s[i] /\ t[2] = s[i + 1]
    BY <1>1, <1>3, SubSeqIs
  <2>. HIDE DEF t
  <2>2. t = <<s[i], s[i + 1]>>
    BY <2>1, Tuples
  <2>. QED
    BY <2>2 DEF t
<1>4. ASSUME i + 2 \in 1 .. Len(s)
      PROVE  SubSeq(s, i, i + 2) = <<s[i], s[i + 1], s[i + 2]>>
  <2>. DEFINE t == SubSeq(s, i, i + 2)
  <2>1. t \in Seq(S) /\ Len(t) = 3 /\ t[1] = s[i] /\ t[2] = s[i + 1] /\ t[3] = s[i + 2]
    BY <1>1, <1>4, SubSeqIs
  <2>. HIDE DEF t
  <2>2. t = <<s[i], s[i + 1], s[i + 2]>>
    BY <2>1, Tuples
  <2>. QED
    BY <2>2 DEF t
<1>. QED
  BY <1>2, <1>3, <1>4

(* A turn that finds no fault has read a word.                             *)
LEMMA TurnReadsWord ==
  ASSUME NEW args \in Seq(Chars), NEW i \in Nat \ {0}, NEW o \in Globals,
         At(args, i) # "end", o.ret = 0, Option(args, i, o).ret = 0
  PROVE  /\ i + Length(args, i) - 1 <= Len(args)
         /\ \E w \in Words : SubSeq(args, i, i + Length(args, i) - 1) = Spelled[w]
<1>1. ASSUME NEW k \in Nat, At(args, k) # "end"
      PROVE  k \in 1 .. Len(args) /\ At(args, k) = args[k]
  BY <1>1 DEF At
<1>2. i \in 1 .. Len(args) /\ At(args, i) = args[i]
  BY <1>1
<1>3. i + 1 \in Nat /\ i + 2 \in Nat /\ Len(args) \in Nat
  OBVIOUS
<1>4. ASSUME NEW w \in Words, NEW n \in {1, 2, 3}, Length(args, i) = n,
             i + n - 1 \in 1 .. Len(args), SubSeq(args, i, i + n - 1) = Spelled[w]
      PROVE  /\ i + Length(args, i) - 1 <= Len(args)
             /\ \E v \in Words : SubSeq(args, i, i + Length(args, i) - 1) = Spelled[v]
  BY <1>3, <1>4
<1>5. CASE At(args, i) = "blank"
  <2>1. Length(args, i) = 1
    BY <1>5 DEF Length
  <2>2. SubSeq(args, i, i) = <<args[i]>>
    BY <1>2, SubSeqTuples
  <2>3. i + 1 - 1 = i /\ SubSeq(args, i, i + 1 - 1) = <<"blank">>
    BY <1>2, <1>5, <2>2
  <2>. QED
    BY <1>2, <1>4, <2>1, <2>3, SpelledIs
<1>6. CASE At(args, i) = "/" /\ At(args, i + 1) = "Q" /\ At(args, i + 2) = "Q"
  <2>1. Length(args, i) = 3 /\ i + 3 - 1 = i + 2
    BY <1>6 DEF Length, Switch
  <2>2. /\ i + 1 \in 1 .. Len(args) /\ i + 2 \in 1 .. Len(args)
        /\ args[i] = "/" /\ args[i + 1] = "Q" /\ args[i + 2] = "Q"
    BY <1>1, <1>2, <1>3, <1>6
  <2>3. SubSeq(args, i, i + 2) = <<"/", "Q", "Q">>
    BY <1>2, <2>2, SubSeqTuples
  <2>. QED
    BY <1>4, <2>1, <2>2, <2>3, SpelledIs
<1>7. ASSUME NEW l \in {"Q", "V", "U", "T"}, At(args, i) = "/", At(args, i + 1) = l,
             l = "Q" => At(args, i + 2) # "Q"
      PROVE  /\ i + Length(args, i) - 1 <= Len(args)
             /\ \E w \in Words : SubSeq(args, i, i + Length(args, i) - 1) = Spelled[w]
  <2>1. Length(args, i) = 2 /\ i + 2 - 1 = i + 1
    BY <1>7 DEF Length, Switch
  <2>2. i + 1 \in 1 .. Len(args) /\ args[i] = "/" /\ args[i + 1] = l
    BY <1>1, <1>2, <1>3, <1>7
  <2>3. SubSeq(args, i, i + 1) = <<"/", l>>
    BY <1>2, <2>2, SubSeqTuples
  <2>4. l \in Words /\ Spelled[l] = <<"/", l>>
    BY SpelledIs
  <2>. QED
    BY <1>4, <2>1, <2>2, <2>3, <2>4
<1>8. \/ At(args, i) = "blank"
      \/ At(args, i) = "/" /\ At(args, i + 1) \in {"Q", "V", "U", "T"}
  <2>. SUFFICES ASSUME At(args, i) # "blank",
                       ~ (At(args, i) = "/" /\ At(args, i + 1) \in {"Q", "V", "U", "T"})
                PROVE  Option(args, i, o).ret # 0
    OBVIOUS
  <2>1. Option(args, i, o) \in {[o EXCEPT !.ret = 1], [o EXCEPT !.ret = 2]}
    BY DEF Option, Switch
  <2>. QED
    BY <2>1 DEF Globals
<1>. QED
  BY <1>5, <1>6, <1>7, <1>8

(* The first n characters are a sentence.                                  *)
IsSentence(args, n) ==
  n <= Len(args) /\ \E ws \in Seq(Words) : SubSeq(args, 1, n) = Text(ws)

LEMMA SentenceGrows ==
  ASSUME NEW args \in Seq(Chars), NEW n \in Nat, NEW m \in Nat, n < m, m <= Len(args),
         IsSentence(args, n), NEW w \in Words, SubSeq(args, n + 1, m) = Spelled[w]
  PROVE  IsSentence(args, m)
<1>1. PICK ws \in Seq(Words) : SubSeq(args, 1, n) = Text(ws)
  BY DEF IsSentence
<1>2. 1 \in 1 .. Len(args) + 1 /\ n \in 1 - 1 .. Len(args) /\ m \in n .. Len(args)
  OBVIOUS
<1>3. SubSeq(args, 1, n) \o SubSeq(args, n + 1, m) = SubSeq(args, 1, m)
  BY <1>2, ConcatAdjacentSubSeq
<1>4. SubSeq(args, 1, m) = Text(Append(ws, w))
  BY <1>1, <1>3, TextAppend
<1>5. Append(ws, w) \in Seq(Words)
  BY AppendProperties
<1>. QED
  BY <1>4, <1>5 DEF IsSentence

(* What a state of the loop says of the characters before it: without a    *)
(* fault they are a sentence, and n turns have passed n characters or all. *)
SoFar(args, n, s) ==
  s.o.ret = 0 => /\ IsSentence(args, s.at - 1)
                 /\ s.at = Len(args) + 1 \/ s.at >= n + 1

LEMMA SoFarKept ==
  ASSUME NEW args \in Seq(Chars), NEW n \in Nat, NEW s \in States, SoFar(args, n, s)
  PROVE  SoFar(args, n + 1, Turn(args, s))
<1>. DEFINE N == Len(args)
            i == s.at
            o == s.o
            j == i + Length(args, i)
<1>1. N \in Nat /\ DOMAIN args = 1 .. N /\ \A k \in 1 .. N : args[k] \in Chars
  OBVIOUS
<1>2. i \in Nat \ {0} /\ o \in Globals
  BY DEF States
<1>3. CASE o.ret # 0
  BY <1>3 DEF SoFar, Turn
<1>4. CASE o.ret = 0 /\ At(args, i) = "end"
  <2>1. i - 1 <= N
    BY <1>4 DEF SoFar, IsSentence
  <2>2. i \notin 1 .. N
    <3>. SUFFICES ASSUME i \in 1 .. N PROVE FALSE
      OBVIOUS
    <3>1. args[i] = "end" /\ args[i] \in Chars
      BY <1>1, <1>4 DEF At
    <3>. QED
      BY <3>1 DEF Chars
  <2>3. i = N + 1
    BY <1>1, <1>2, <2>1, <2>2
  <2>4. Turn(args, s) = s
    BY <1>4 DEF Turn
  <2>. QED
    BY <2>3, <2>4 DEF SoFar
<1>5. CASE o.ret = 0 /\ At(args, i) # "end"
  <2>1. Turn(args, s) = [at |-> j, o |-> Option(args, i, o)]
    BY <1>5 DEF Turn
  <2>. SUFFICES ASSUME Option(args, i, o).ret = 0
                PROVE  IsSentence(args, j - 1) /\ (j = N + 1 \/ j >= (n + 1) + 1)
    BY <2>1 DEF SoFar
  <2>2. j \in Nat /\ i < j
    BY <1>2 DEF Length
  <2>3. IsSentence(args, i - 1) /\ (i = N + 1 \/ i >= n + 1)
    BY <1>5 DEF SoFar
  <2>4. /\ j - 1 <= N
        /\ \E w \in Words : SubSeq(args, i, j - 1) = Spelled[w]
    <3>1. j - 1 = i + Length(args, i) - 1
      BY <1>2 DEF Length
    <3>2. At(args, i) # "end" /\ o.ret = 0 /\ Option(args, i, o).ret = 0
      BY <1>5
    <3>. HIDE DEF i, o, j
    <3>3. /\ i + Length(args, i) - 1 <= Len(args)
          /\ \E w \in Words : SubSeq(args, i, i + Length(args, i) - 1) = Spelled[w]
      BY <1>2, <3>2, TurnReadsWord
    <3>. QED
      BY <3>1, <3>3
  <2>5. PICK w \in Words : SubSeq(args, i, j - 1) = Spelled[w]
    BY <2>4
  <2>. HIDE DEF j, i, o
  <2>6. /\ i - 1 \in Nat /\ j - 1 \in Nat /\ i - 1 < j - 1 /\ (i - 1) + 1 = i
    BY <1>2, <2>2
  <2>7. IsSentence(args, j - 1)
    BY <2>3, <2>4, <2>5, <2>6, SentenceGrows
  <2>8. j = N + 1 \/ j >= (n + 1) + 1
    BY <1>1, <1>2, <2>2, <2>3, <2>4
  <2>. QED
    BY <2>7, <2>8
<1>. QED
  BY <1>3, <1>4, <1>5

(* A string that GetOptions() accepts is a sequence of words of the usage  *)
(* text.                                                                   *)
THEOREM AcceptsOnlySentences ==
  ASSUME NEW args \in Seq(Chars), GetOptions(args).ret = 0
  PROVE  \E ws \in Seq(Words) : args = Text(ws)
<1>. DEFINE N == Len(args)
<1>1. N \in Nat
  OBVIOUS
<1>2. PICK A : Turns(args, A)
  BY TurnsExist
<1>3. /\ \A n \in Nat : A[n] \in States /\ A[n + 1] = Turn(args, A[n])
      /\ A[0] = [at |-> 1, o |-> Start]
  BY <1>2 DEF Turns
<1>4. A[N].o.ret = 0
  BY <1>2, GetOptionsIs
<1>. DEFINE U == {n \in Nat : SoFar(args, n, A[n])}
<1>5. 0 \in U
  <2>1. SubSeq(args, 1, 0) = <<>>
    BY SubSeqEmpty
  <2>2. <<>> \in Seq(Words)
    OBVIOUS
  <2>3. IsSentence(args, 0)
    <3>1. SubSeq(args, 1, 0) = Text(<<>>)
      BY <2>1, TextEmpty
    <3>. QED
      BY <1>1, <2>2, <3>1 DEF IsSentence
  <2>. QED
    BY <1>3, <2>3 DEF SoFar, Start
<1>6. ASSUME NEW n \in Nat, n \in U
      PROVE  n + 1 \in U
  <2>1. A[n] \in States /\ SoFar(args, n, A[n]) /\ A[n + 1] = Turn(args, A[n])
    BY <1>3, <1>6
  <2>2. SoFar(args, n + 1, A[n + 1])
    BY <2>1, SoFarKept
  <2>. QED
    BY <2>2
<1>7. \A n \in Nat : n \in U
  <2>. HIDE DEF U
  <2>. QED
    BY <1>5, <1>6, SetInduction
<1>8. SoFar(args, N, A[N])
  BY <1>1, <1>7
<1>9. A[N].at \in Nat
  BY <1>1, <1>3 DEF States
<1>10. IsSentence(args, A[N].at - 1) /\ (A[N].at = N + 1 \/ A[N].at >= N + 1)
  BY <1>4, <1>8 DEF SoFar
<1>11. A[N].at - 1 = N
  BY <1>1, <1>9, <1>10 DEF IsSentence
<1>12. SubSeq(args, 1, N) = args
  BY SubSeqFull
<1>. QED
  BY <1>10, <1>11, <1>12 DEF IsSentence

-----------------------------------------------------------------------------
(* Every sentence is read as it is meant                                   *)

LEMMA LevelIs ==
  /\ DOMAIN Level = {"Q", "QQ", "V"}
  /\ Level["Q"] = "QUIET" /\ Level["QQ"] = "SILENT" /\ Level["V"] = "VERBOSE"
BY DEF Level

(* What a word asks of the globals.                                        *)
Meant(o, w) ==
  CASE w \in DOMAIN Level -> Verbosity(o, Level[w])
    [] w = "U"            -> [o EXCEPT !.uninstall = TRUE]
    [] w = "T"            -> [o EXCEPT !.testOnly = TRUE]
    [] w = "blank"        -> o

(* The globals o are those that the sentence ws asks for.                  *)
Means(ws, o) ==
  IF Allowed(ws)
  THEN /\ o.ret = 0
       /\ o.uninstall = \E i \in DOMAIN ws : ws[i] = "U"
       /\ o.testOnly = \E i \in DOMAIN ws : ws[i] = "T"
       /\ o.vset = (Levels(ws) # {})
       /\ Levels(ws) = {} => o.verbosity = "NORMAL"
       /\ \A i \in Levels(ws) : o.verbosity = Level[ws[i]]
  ELSE o.ret = 2

LEMMA MeansNothing == Means(<<>>, Start)
<1>1. DOMAIN <<>> = {}
  OBVIOUS
<1>2. Levels(<<>>) = {}
  BY <1>1 DEF Levels
<1>. QED
  BY <1>1, <1>2 DEF Means, Allowed, Start

LEMMA LevelsAppend ==
  ASSUME NEW ws \in Seq(Words), NEW w \in Words
  PROVE  /\ Levels(Append(ws, w)) = Levels(ws) \cup (IF w \in DOMAIN Level THEN {Len(ws) + 1} ELSE {})
         /\ Len(ws) + 1 \notin Levels(ws)
         /\ DOMAIN Append(ws, w) = DOMAIN ws \cup {Len(ws) + 1}
         /\ Len(ws) + 1 \notin DOMAIN ws /\ Append(ws, w)[Len(ws) + 1] = w
         /\ \A i \in DOMAIN ws : Append(ws, w)[i] = ws[i]
         /\ Levels(ws) \subseteq DOMAIN ws
<1>. DEFINE v == Append(ws, w)
            n == Len(ws)
<1>1. n \in Nat /\ DOMAIN ws = 1 .. n
  OBVIOUS
<1>2. DOMAIN v = 1 .. n + 1 /\ v[n + 1] = w /\ \A i \in 1 .. n : v[i] = ws[i]
  BY AppendProperties
<1>. HIDE DEF v, n
<1>3. 1 .. n + 1 = (1 .. n) \cup {n + 1} /\ n + 1 \notin 1 .. n
  BY <1>1
<1>4. Levels(ws) = {i \in 1 .. n : ws[i] \in DOMAIN Level}
  BY <1>1 DEF Levels
<1>5. Levels(v) = {i \in (1 .. n) \cup {n + 1} : v[i] \in DOMAIN Level}
  BY <1>2, <1>3 DEF Levels
<1>6. Levels(v) = Levels(ws) \cup (IF w \in DOMAIN Level THEN {n + 1} ELSE {})
  BY <1>2, <1>3, <1>4, <1>5
<1>. QED
  BY <1>1, <1>2, <1>3, <1>4, <1>6 DEF v, n

LEMMA MeansMore ==
  ASSUME NEW ws \in Seq(Words), NEW w \in Words, NEW o \in Globals, Means(ws, o)
  PROVE  Means(Append(ws, w), IF o.ret = 0 THEN Meant(o, w) ELSE o)
<1>. DEFINE v == Append(ws, w)
            n == Len(ws) + 1
<1>1. /\ Levels(v) = Levels(ws) \cup (IF w \in DOMAIN Level THEN {n} ELSE {})
      /\ n \notin Levels(ws) /\ DOMAIN v = DOMAIN ws \cup {n}
      /\ n \notin DOMAIN ws /\ v[n] = w /\ \A i \in DOMAIN ws : v[i] = ws[i]
      /\ Levels(ws) \subseteq DOMAIN ws
  BY LevelsAppend
<1>. HIDE DEF v, n
<1>2. CASE ~ Allowed(ws)
  <2>1. o.ret = 2
    BY <1>2 DEF Means
  <2>2. ~ Allowed(v)
    BY <1>1, <1>2 DEF Allowed
  <2>. QED
    BY <2>1, <2>2 DEF Means, v
<1>3. CASE Allowed(ws) /\ w \in DOMAIN Level
  <2>1. /\ o.ret = 0
        /\ o.uninstall = \E i \in DOMAIN ws : ws[i] = "U"
        /\ o.testOnly = \E i \in DOMAIN ws : ws[i] = "T"
        /\ o.vset = (Levels(ws) # {})
    BY <1>3 DEF Means
  <2>2. w # "U" /\ w # "T"
    BY <1>3, LevelIs
  <2>3. /\ (\E i \in DOMAIN v : v[i] = "U") <=> (\E i \in DOMAIN ws : ws[i] = "U")
        /\ (\E i \in DOMAIN v : v[i] = "T") <=> (\E i \in DOMAIN ws : ws[i] = "T")
    BY <1>1, <2>2
  <2>4. Meant(o, w) = Verbosity(o, Level[w])
    BY <1>3, LevelIs DEF Meant
  <2>5. CASE o.vset
    <3>1. ~ Allowed(v)
      BY <1>1, <1>3, <2>1, <2>5 DEF Allowed
    <3>2. Verbosity(o, Level[w]).ret = 2
      BY <2>5 DEF Verbosity, Globals
    <3>. QED
      BY <2>1, <2>4, <3>1, <3>2 DEF Means, v
  <2>6. CASE ~ o.vset
    <3>1. Levels(v) = {n}
      BY <1>1, <1>3, <2>1, <2>6
    <3>2. Allowed(v)
      BY <3>1 DEF Allowed
    <3>. DEFINE p == Verbosity(o, Level[w])
    <3>3. /\ p.ret = 0 /\ p.uninstall = o.uninstall /\ p.testOnly = o.testOnly
          /\ p.vset = TRUE /\ p.verbosity = Level[w]
      BY <2>1, <2>6 DEF Verbosity, Globals
    <3>. HIDE DEF p
    <3>4. Means(v, p)
      BY <1>1, <2>1, <2>3, <3>1, <3>2, <3>3 DEF Means
    <3>. QED
      BY <2>1, <2>4, <3>4 DEF p, v
  <2>. QED
    BY <2>5, <2>6 DEF Globals
<1>4. CASE Allowed(ws) /\ w \notin DOMAIN Level
  <2>1. /\ o.ret = 0
        /\ o.uninstall = \E i \in DOMAIN ws : ws[i] = "U"
        /\ o.testOnly = \E i \in DOMAIN ws : ws[i] = "T"
        /\ o.vset = (Levels(ws) # {})
        /\ Levels(ws) = {} => o.verbosity = "NORMAL"
        /\ \A i \in Levels(ws) : o.verbosity = Level[ws[i]]
    BY <1>4 DEF Means
  <2>2. Levels(v) = Levels(ws)
    BY <1>1, <1>4
  <2>3. Allowed(v)
    BY <1>4, <2>2 DEF Allowed
  <2>4. w \in {"U", "T", "blank"}
    BY <1>4, SpelledIs, LevelIs
  <2>. DEFINE p == Meant(o, w)
  <2>5. /\ p.ret = 0 /\ p.vset = o.vset /\ p.verbosity = o.verbosity
        /\ p.uninstall = (w = "U" \/ o.uninstall)
        /\ p.testOnly = (w = "T" \/ o.testOnly)
    BY <2>1, <2>4, LevelIs DEF Meant, Globals
  <2>. HIDE DEF p
  <2>6. /\ (\E i \in DOMAIN v : v[i] = "U") <=> (w = "U" \/ \E i \in DOMAIN ws : ws[i] = "U")
        /\ (\E i \in DOMAIN v : v[i] = "T") <=> (w = "T" \/ \E i \in DOMAIN ws : ws[i] = "T")
    BY <1>1
  <2>7. \A i \in Levels(ws) : v[i] = ws[i]
    BY <1>1
  <2>8. Means(v, p)
    <3>1. p.uninstall = \E i \in DOMAIN v : v[i] = "U"
      BY <2>1, <2>5, <2>6
    <3>2. p.testOnly = \E i \in DOMAIN v : v[i] = "T"
      BY <2>1, <2>5, <2>6
    <3>3. /\ p.vset = (Levels(v) # {})
          /\ Levels(v) = {} => p.verbosity = "NORMAL"
          /\ \A i \in Levels(v) : p.verbosity = Level[v[i]]
      BY <2>1, <2>2, <2>5, <2>7
    <3>. QED
      BY <2>3, <2>5, <3>1, <3>2, <3>3 DEF Means
  <2>. QED
    BY <2>1, <2>8 DEF p, v
<1>. QED
  BY <1>2, <1>3, <1>4

-----------------------------------------------------------------------------
(* What may follow a word without being taken for a part of it.            *)
Tails == {t \in Seq(Chars) : At(t, 1) # "Q"}

LEMMA AtConcat ==
  ASSUME NEW u \in Seq(Chars), NEW t \in Seq(Chars), NEW k \in Nat \ {0}
  PROVE  At(u \o t, Len(u) + k) = At(t, k)
<1>. DEFINE x == u \o t
            n == Len(u)
            m == Len(t)
<1>1. n \in Nat /\ m \in Nat /\ DOMAIN t = 1 .. m
  OBVIOUS
<1>2. DOMAIN x = 1 .. n + m /\ \A i \in 1 .. n + m : x[i] = IF i <= n THEN u[i] ELSE t[i - n]
  BY ConcatProperties
<1>. HIDE DEF x, n, m
<1>3. n + k \in 1 .. n + m <=> k \in 1 .. m
  BY <1>1
<1>4. ~ (n + k <= n) /\ (n + k) - n = k
  BY <1>1
<1>5. k \in 1 .. m => x[n + k] = t[k]
  BY <1>2, <1>3, <1>4
<1>6. At(x, n + k) = At(t, k)
  BY <1>1, <1>2, <1>3, <1>5 DEF At
<1>. QED
  BY <1>6 DEF x, n

LEMMA AtShort ==
  ASSUME NEW u \in Seq(Chars), NEW t \in Seq(Chars), NEW k \in 1 .. Len(u)
  PROVE  At(u \o t, k) = u[k]
<1>1. k \in 1 .. Len(u) + Len(t) /\ k <= Len(u)
  OBVIOUS
<1>2. DOMAIN (u \o t) = 1 .. Len(u) + Len(t) /\ (u \o t)[k] = u[k]
  BY <1>1, ConcatProperties
<1>. QED
  BY <1>1, <1>2 DEF At

(* A turn at the beginning of the word w reads w and nothing else.         *)
LEMMA WordTurn ==
  ASSUME NEW u \in Seq(Chars), NEW w \in Words, NEW t \in Tails,
         NEW o \in Globals, o.ret = 0
  PROVE  Turn(u \o (Spelled[w] \o t), [at |-> Len(u) + 1, o |-> o])
           = [at |-> Len(u) + 1 + Len(Spelled[w]), o |-> Meant(o, w)]
<1>. DEFINE r == Spelled[w] \o t
            x == u \o r
            n == Len(u)
            i == n + 1
            l == Len(Spelled[w])
<1>1. n \in Nat /\ t \in Seq(Chars) /\ Spelled[w] \in Seq(Chars) /\ l \in Nat
  BY SpelledType DEF Tails
<1>2. r \in Seq(Chars)
  BY <1>1
<1>. HIDE DEF r, n, l
<1>3. i \in Nat /\ n + 2 = i + 1 /\ n + 3 = i + 2
  BY <1>1
<1>4. At(x, i) = At(r, 1) /\ At(x, i + 1) = At(r, 2) /\ At(x, i + 2) = At(r, 3)
  <2>1. 1 \in Nat \ {0} /\ 2 \in Nat \ {0} /\ 3 \in Nat \ {0}
    OBVIOUS
  <2>2. At(x, n + 1) = At(r, 1) /\ At(x, n + 2) = At(r, 2) /\ At(x, n + 3) = At(r, 3)
    BY <1>2, <2>1, AtConcat DEF n
  <2>. QED
    BY <1>3, <2>2
<1>. HIDE DEF x, i
<1>5. At(r, l + 1) # "Q"
  <2>1. 1 \in Nat \ {0}
    OBVIOUS
  <2>2. At(r, l + 1) = At(t, 1)
    BY <1>1, <2>1, AtConcat DEF r, l
  <2>. QED
    BY <2>2 DEF Tails
<1>6. ASSUME NEW k \in 1 .. l PROVE At(r, k) = Spelled[w][k]
  BY <1>1, <1>6, AtShort DEF r, l
<1>7. Turn(x, [at |-> i, o |-> o])
        = IF At(x, i) = "end" THEN [at |-> i, o |-> o]
          ELSE [at |-> i + Length(x, i), o |-> Option(x, i, o)]
  BY DEF Turn
<1>8. Length(x, i) = l /\ Option(x, i, o) = Meant(o, w) /\ At(x, i) # "end"
  <2>1. CASE w = "blank"
    <3>1. l = 1 /\ Spelled[w][1] = "blank"
      BY <2>1, SpelledIs DEF l
    <3>2. At(x, i) = "blank"
      BY <1>4, <1>6, <3>1
    <3>. QED
      BY <2>1, <3>1, <3>2, LevelIs DEF Length, Option, Switch, Meant
  <2>2. CASE w = "QQ"
    <3>1. l = 3 /\ Spelled[w][1] = "/" /\ Spelled[w][2] = "Q" /\ Spelled[w][3] = "Q"
      BY <2>2, SpelledIs DEF l
    <3>2. 1 \in 1 .. l /\ 2 \in 1 .. l /\ 3 \in 1 .. l
      BY <3>1
    <3>3. At(x, i) = "/" /\ At(x, i + 1) = "Q" /\ At(x, i + 2) = "Q"
      BY <1>4, <1>6, <3>1, <3>2
    <3>. QED
      BY <2>2, <3>1, <3>3, LevelIs DEF Length, Option, Switch, Meant
  <2>3. CASE w \in {"Q", "V", "U", "T"}
    <3>1. l = 2 /\ Spelled[w][1] = "/" /\ Spelled[w][2] = w
      <4>1. Spelled[w] = <<"/", w>>
        BY <2>3, SpelledIs
      <4>. QED
        BY <4>1 DEF l
    <3>2. 1 \in 1 .. l /\ 2 \in 1 .. l /\ l + 1 = 3
      BY <3>1
    <3>3. At(x, i) = "/" /\ At(x, i + 1) = w /\ At(x, i + 2) # "Q"
      BY <1>4, <1>5, <1>6, <3>1, <3>2
    <3>4. Length(x, i) = 2
      BY <3>3 DEF Length, Switch
    <3>5. Option(x, i, o) = Meant(o, w)
      BY <2>3, <3>3, LevelIs DEF Option, Switch, Meant
    <3>. QED
      BY <3>1, <3>3, <3>4, <3>5
  <2>. QED
    BY <2>1, <2>2, <2>3, SpelledIs
<1>. QED
  BY <1>7, <1>8 DEF x, r, i, n, l

(* The state of the loop when the sentence ws has been read.               *)
Reading(ws, s) ==
  Means(ws, s.o) /\ (s.o.ret = 0 => s.at = Len(Text(ws)) + 1)

LEMMA ReadingMore ==
  ASSUME NEW ws \in Seq(Words), NEW w \in Words, NEW t \in Tails,
         NEW s \in States, Reading(ws, s)
  PROVE  Reading(Append(ws, w), Turn(Text(ws) \o (Spelled[w] \o t), s))
<1>. DEFINE u == Text(ws)
            x == u \o (Spelled[w] \o t)
            v == Append(ws, w)
<1>1. s.o \in Globals /\ s = [at |-> s.at, o |-> s.o]
  BY DEF States
<1>2. Means(v, IF s.o.ret = 0 THEN Meant(s.o, w) ELSE s.o)
  BY <1>1, MeansMore DEF Reading
<1>3. CASE s.o.ret # 0
  <2>1. Turn(x, s) = s
    BY <1>3 DEF Turn
  <2>. QED
    BY <1>2, <1>3, <2>1 DEF Reading
<1>4. CASE s.o.ret = 0
  <2>1. s.at = Len(u) + 1
    BY <1>4 DEF Reading
  <2>2. u \in Seq(Chars) /\ Spelled[w] \in Seq(Chars)
    BY TextType, SpelledType
  <2>3. Len(Text(v)) = Len(u) + Len(Spelled[w])
    BY <2>2, TextAppend
  <2>. HIDE DEF u
  <2>4. Turn(x, [at |-> Len(u) + 1, o |-> s.o])
          = [at |-> Len(u) + 1 + Len(Spelled[w]), o |-> Meant(s.o, w)]
    BY <1>1, <1>4, <2>2, WordTurn
  <2>5. Turn(x, s) = [at |-> Len(u) + 1 + Len(Spelled[w]), o |-> Meant(s.o, w)]
    BY <1>1, <2>1, <2>4
  <2>6. Len(u) + 1 + Len(Spelled[w]) = Len(Text(v)) + 1
    <3>. DEFINE b == Len(u)
                l == Len(Spelled[w])
                c == Len(Text(v))
    <3>1. b \in Nat /\ l \in Nat /\ c = b + l
      BY <2>2, <2>3
    <3>. HIDE DEF b, l, c
    <3>2. b + 1 + l = c + 1
      BY <3>1
    <3>. QED
      BY <3>2 DEF b, l, c
  <2>. HIDE DEF v, x
  <2>7. Turn(x, s).at = Len(Text(v)) + 1 /\ Turn(x, s).o = Meant(s.o, w)
    <3>. DEFINE b == Len(u) + 1 + Len(Spelled[w])
    <3>1. Turn(x, s) = [at |-> b, o |-> Meant(s.o, w)]
      BY <2>5 DEF x
    <3>. HIDE DEF b
    <3>2. Turn(x, s).at = b /\ Turn(x, s).o = Meant(s.o, w)
      BY <3>1
    <3>3. b = Len(Text(v)) + 1
      BY <2>6 DEF b
    <3>. QED
      BY <3>2, <3>3
  <2>8. Reading(v, Turn(x, s))
    BY <1>2, <1>4, <2>7 DEF Reading
  <2>. QED
    BY <2>8 DEF v, x, u
<1>. QED
  BY <1>3, <1>4

(* After as many turns as the sentence has words, the loop has read it,    *)
(* whatever follows it.                                                    *)
ReadsAll(n) ==
  \A ws \in Seq(Words) : Len(ws) = n =>
    /\ Len(Text(ws)) >= n
    /\ \A t \in Tails : \A A : Turns(Text(ws) \o t, A) => Reading(ws, A[n])

LEMMA ReadsNone == ReadsAll(0)
<1>. SUFFICES ASSUME NEW ws \in Seq(Words), Len(ws) = 0
              PROVE  /\ Len(Text(ws)) >= 0
                     /\ \A t \in Tails : \A A : Turns(Text(ws) \o t, A) => Reading(ws, A[0])
  BY DEF ReadsAll
<1>1. ws = <<>>
  OBVIOUS
<1>2. Text(ws) = <<>> /\ Len(Text(ws)) = 0
  BY <1>1, TextEmpty
<1>3. ASSUME NEW A, A[0] = [at |-> 1, o |-> Start]
      PROVE  Reading(ws, A[0])
  <2>1. A[0].at = 1 /\ A[0].o = Start
    BY <1>3
  <2>. QED
    BY <1>1, <1>2, <2>1, MeansNothing DEF Reading
<1>. QED
  BY <1>2, <1>3 DEF Turns

LEMMA ReadsNext ==
  ASSUME NEW n \in Nat, ReadsAll(n)
  PROVE  ReadsAll(n + 1)
<1>. SUFFICES ASSUME NEW vs \in Seq(Words), Len(vs) = n + 1
              PROVE  /\ Len(Text(vs)) >= n + 1
                     /\ \A t \in Tails : \A A : Turns(Text(vs) \o t, A) => Reading(vs, A[n + 1])
  BY DEF ReadsAll
<1>1. PICK ws \in Seq(Words), w \in Words : vs = Append(ws, w) /\ Len(ws) = n
  <2>1. vs # <<>>
    OBVIOUS
  <2>2. PICK ws \in Seq(Words), w \in Words : vs = Append(ws, w)
    BY <2>1, SequenceEmptyOrAppend 
  <2>. QED
    BY <2>2
<1>2. /\ Text(ws) \in Seq(Chars) /\ Spelled[w] \in Seq(Chars)
      /\ Text(vs) = Text(ws) \o Spelled[w]
  BY <1>1, TextType, SpelledType, TextAppend
<1>3. Len(Spelled[w]) >= 1
  BY SpelledStart
<1>4. Len(Text(ws)) >= n
  BY <1>1 DEF ReadsAll
<1>5. Len(Text(vs)) >= n + 1
  <2>1. Len(Text(ws)) \in Nat /\ Len(Spelled[w]) \in Nat
        /\ Len(Text(vs)) = Len(Text(ws)) + Len(Spelled[w])
    BY <1>2
  <2>. QED
    BY <1>3, <1>4, <2>1
<1>6. ASSUME NEW t \in Tails, NEW A, Turns(Text(vs) \o t, A)
      PROVE  Reading(vs, A[n + 1])
  <2>. DEFINE r == Spelled[w] \o t
              x == Text(ws) \o r
  <2>1. t \in Seq(Chars)
    BY DEF Tails
  <2>2. Text(vs) \o t = x
    <3>. DEFINE a == Text(ws)
                b == Spelled[w]
    <3>1. a \in Seq(Chars) /\ b \in Seq(Chars)
      BY <1>2
    <3>2. Text(vs) \o t = (a \o b) \o t
      BY <1>2
    <3>. HIDE DEF a, b
    <3>3. (a \o b) \o t = a \o (b \o t)
      BY <2>1, <3>1, ConcatAssociative
    <3>. QED
      BY <3>2, <3>3 DEF a, b
  <2>3. r \in Tails
    <3>1. 1 \in 1 .. Len(Spelled[w]) /\ Spelled[w][1] # "Q"
      <4>1. Len(Spelled[w]) \in Nat
        BY <1>2
      <4>. QED
        BY <4>1, SpelledStart
    <3>2. At(r, 1) # "Q"
      BY <1>2, <2>1, <3>1, AtShort
    <3>. QED
      BY <1>2, <2>1, <3>2 DEF Tails
  <2>4. Reading(ws, A[n])
    <3>. HIDE DEF r
    <3>. QED
      BY <1>1, <1>6, <2>2, <2>3 DEF ReadsAll
  <2>5. A[n] \in States /\ A[n + 1] = Turn(x, A[n])
    BY <1>6, <2>2 DEF Turns
  <2>. QED
    BY <1>1, <2>4, <2>5, ReadingMore
<1>. QED
  BY <1>5, <1>6

LEMMA ReadsAlways == \A n \in Nat : ReadsAll(n)
<1>. DEFINE U == {n \in Nat : ReadsAll(n)}
<1>1. 0 \in U
  BY ReadsNone
<1>2. ASSUME NEW n \in Nat, n \in U
      PROVE  n + 1 \in U
  BY <1>2, ReadsNext
<1>. HIDE DEF U
<1>3. \A n \in Nat : n \in U
  BY <1>1, <1>2, SetInduction
<1>. QED
  BY <1>3 DEF U

(* What does not change in a turn does not change.                         *)
LEMMA TurnsStay ==
  ASSUME NEW args, NEW A, Turns(args, A), NEW n \in Nat, Turn(args, A[n]) = A[n],
         NEW m \in Nat, n <= m
  PROVE  A[m] = A[n]
<1>. DEFINE U == {k \in Nat : A[n + k] = A[n]}
<1>1. 0 \in U
  OBVIOUS
<1>2. ASSUME NEW k \in Nat, k \in U
      PROVE  k + 1 \in U
  <2>1. n + k \in Nat /\ (n + k) + 1 = n + (k + 1)
    OBVIOUS
  <2>2. A[(n + k) + 1] = Turn(args, A[n + k])
    BY <2>1 DEF Turns
  <2>. QED
    BY <1>2, <2>1, <2>2
<1>3. m - n \in Nat /\ n + (m - n) = m
  OBVIOUS
<1>. HIDE DEF U
<1>4. \A k \in Nat : k \in U
  BY <1>1, <1>2, SetInduction
<1>. QED
  BY <1>3, <1>4 DEF U

(* GetOptions() reads every sentence as the usage text explains it:        *)
(* src/main.c:188.                                                         *)
THEOREM SentencesAreRead ==
  ASSUME NEW ws \in Seq(Words)
  PROVE  ReadAsMeant(ws)
<1>. DEFINE u == Text(ws)
            n == Len(ws)
            h == <<"/", "H">>
<1>1. u \in Seq(Chars) /\ n \in Nat /\ h \in Seq(Chars) /\ <<>> \in Seq(Chars)
  BY TextType DEF Chars
<1>. HIDE DEF u
<1>2. ReadsAll(n)
  BY <1>1, ReadsAlways
<1>3. Len(u) \in Nat /\ n <= Len(u)
  BY <1>1, <1>2 DEF ReadsAll, u
<1>4. Means(ws, GetOptions(u))
  <2>1. PICK A : Turns(u, A)
    BY TurnsExist
  <2>2. <<>> \in Tails /\ u \o <<>> = u
    BY <1>1, ConcatEmptySeq DEF Tails, At
  <2>3. Reading(ws, A[n])
    BY <1>2, <2>1, <2>2 DEF ReadsAll, u
  <2>4. Turn(u, A[n]) = A[n]
    <3>1. CASE A[n].o.ret # 0
      BY <3>1 DEF Turn
    <3>2. CASE A[n].o.ret = 0
      <4>1. A[n].at = Len(u) + 1
        BY <2>3, <3>2 DEF Reading, u
      <4>2. Len(u) + 1 \notin DOMAIN u
        BY <1>1
      <4>. QED
        BY <4>1, <4>2 DEF Turn, At
    <3>. QED
      BY <3>1, <3>2
  <2>5. A[Len(u)] = A[n]
    BY <1>1, <1>3, <2>1, <2>4, TurnsStay
  <2>6. GetOptions(u) = A[n].o
    BY <1>1, <2>1, <2>5, GetOptionsIs
  <2>. QED
    BY <2>3, <2>6 DEF Reading
<1>5. ASSUME Allowed(ws)
      PROVE  GetOptions(u \o h).ret = 1
  <2>. DEFINE x == u \o h
  <2>1. PICK A : Turns(x, A)
    BY TurnsExist
  <2>2. h \in Tails
    BY <1>1 DEF Tails, At
  <2>3. x \in Seq(Chars) /\ Len(x) = Len(u) + 2
    <3>1. Len(h) = 2
      OBVIOUS
    <3>. QED
      BY <1>1, <3>1
  <2>4. At(x, Len(u) + 1) = "/" /\ At(x, Len(u) + 2) = "H"
    <3>1. 1 \in Nat \ {0} /\ 2 \in Nat \ {0}
      OBVIOUS
    <3>2. At(x, Len(u) + 1) = At(h, 1) /\ At(x, Len(u) + 2) = At(h, 2)
      BY <1>1, <3>1, AtConcat
    <3>. QED
      BY <3>2 DEF At
  <2>. HIDE DEF h, x
  <2>5. Reading(ws, A[n])
    BY <1>2, <2>1, <2>2 DEF ReadsAll, u, x
  <2>6. A[n].o.ret = 0 /\ A[n].at = Len(u) + 1
    BY <1>5, <2>5 DEF Reading, Means, u
  <2>7. A[n] \in States /\ A[n + 1] = Turn(x, A[n])
    BY <1>1, <2>1 DEF Turns
  <2>8. A[n + 1].o.ret = 1
    <3>1. Switch(x, A[n].at, "H")
      <4>1. (Len(u) + 1) + 1 = Len(u) + 2
        BY <1>3
      <4>. QED
        BY <2>4, <2>6, <4>1 DEF Switch
    <3>2. At(x, A[n].at) # "end"
      BY <2>4, <2>6
    <3>3. A[n + 1].o = Option(x, A[n].at, A[n].o)
      BY <2>6, <2>7, <3>2 DEF Turn
    <3>4. Option(x, A[n].at, A[n].o) = [A[n].o EXCEPT !.ret = 1]
      BY <3>1 DEF Option, Switch
    <3>5. A[n].o \in Globals
      BY <2>7 DEF States
    <3>. QED
      BY <3>3, <3>4, <3>5 DEF Globals
  <2>9. Turn(x, A[n + 1]) = A[n + 1]
    BY <2>8 DEF Turn
  <2>10. A[Len(x)] = A[n + 1]
    <3>1. n + 1 \in Nat /\ Len(x) \in Nat /\ n + 1 <= Len(x)
      BY <1>1, <1>3, <2>3
    <3>. QED
      BY <2>1, <2>9, <3>1, TurnsStay
  <2>11. GetOptions(x) = A[n + 1].o
    BY <2>1, <2>3, <2>10, GetOptionsIs
  <2>. QED
    BY <2>8, <2>11 DEF x, h
<1>. QED
  BY <1>4, <1>5 DEF ReadAsMeant, Means, u

=============================================================================
