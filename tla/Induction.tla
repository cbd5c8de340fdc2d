------------------------------ MODULE Induction ------------------------------
(***************************************************************************)
(* Induction over the natural numbers and definition by recursion, stated  *)
(* for sets and functions rather than for operators, so that the provers   *)
(* can instantiate them: a property of numbers is the set of the numbers   *)
(* that have it, and the body of a recursive definition is a function from *)
(* functions to functions.                                                 *)
(***************************************************************************)
EXTENDS SequencesExt, SequenceTheorems, WellFoundedInduction, TLAPS

(* A set of natural numbers that is not empty has a least element.         *)
THEOREM LeastElement ==
  ASSUME NEW S, S \subseteq Nat, S # {}
  PROVE  \E x \in S : \A y \in S : x <= y
<1>1. PICK x \in S : \A y \in S : ~ (<<y, x>> \in OpToRel(<, Nat))
  BY NatLessThanWellFounded, WFMin
<1>2. \A y \in S : x <= y
  <2>. SUFFICES ASSUME NEW y \in S PROVE ~ (y < x)
    OBVIOUS
  <2>1. <<y, x>> \notin OpToRel(<, Nat)
    BY <1>1
  <2>. QED
    BY <2>1 DEF OpToRel
<1>. QED
  BY <1>2

(* A set that has 0 and with each number the next has all of them.         *)
THEOREM SetInduction ==
  ASSUME NEW T, 0 \in T, \A n \in Nat : n \in T => n + 1 \in T
  PROVE  \A n \in Nat : n \in T
<1>. SUFFICES ASSUME Nat \ T # {} PROVE FALSE
  OBVIOUS
<1>1. PICK x \in Nat \ T : \A y \in Nat \ T : x <= y
  BY LeastElement
<1>2. x # 0 /\ x - 1 \in Nat /\ x - 1 \in T
  BY <1>1
<1>3. (x - 1) + 1 \in T
  BY <1>2
<1>. QED
  BY <1>1, <1>3

(* The same for a property of the numbers up to n only.                    *)
THEOREM IntervalInduction ==
  ASSUME NEW T, NEW n \in Nat, 0 \in T, \A i \in 0 .. n - 1 : i \in T => i + 1 \in T
  PROVE  \A i \in 0 .. n : i \in T
<1>. DEFINE U == {i \in Nat : i <= n => i \in T}
<1>1. 0 \in U
  OBVIOUS
<1>2. \A i \in Nat : i \in U => i + 1 \in U
  OBVIOUS
<1>. HIDE DEF U
<1>3. \A i \in Nat : i \in U
  BY <1>1, <1>2, SetInduction
<1>. QED
  BY <1>3 DEF U

(* A set that has each number when it has all smaller ones.                *)
THEOREM StrongInduction ==
  ASSUME NEW T, \A n \in Nat : (\A m \in Nat : m < n => m \in T) => n \in T
  PROVE  \A n \in Nat : n \in T
<1>. SUFFICES ASSUME Nat \ T # {} PROVE FALSE
  OBVIOUS
<1>1. PICK x \in Nat \ T : \A y \in Nat \ T : x <= y
  BY LeastElement
<1>2. \A m \in Nat : m < x => m \in T
  BY <1>1
<1>. QED
  BY <1>1, <1>2

-----------------------------------------------------------------------------

Iterates(A, c, g) == A[0] = c /\ \A n \in Nat : A[n + 1] = g[A[n]]

(* What starts with c and is continued by the function g exists.           *)
THEOREM IterationExists ==
  ASSUME NEW S, NEW c \in S, NEW g \in [S -> S]
  PROVE  \E A \in [Nat -> S] : Iterates(A, c, g)
<1>. DEFINE Starts(a, n) == a[0] = c /\ \A i \in 0 .. n - 1 : a[i + 1] = g[a[i]]
<1>1. \A n \in Nat : \E a \in [0 .. n -> S] : Starts(a, n)
  <2>. DEFINE T == {n \in Nat : \E a \in [0 .. n -> S] : Starts(a, n)}
  <2>1. 0 \in T
    <3>. DEFINE a == [i \in 0 .. 0 |-> c]
    <3>1. a \in [0 .. 0 -> S] /\ Starts(a, 0)
      OBVIOUS
    <3>. QED
      BY <3>1
  <2>2. ASSUME NEW n \in Nat, n \in T
        PROVE  n + 1 \in T
    <3>1. PICK a \in [0 .. n -> S] : Starts(a, n)
      BY <2>2
    <3>. DEFINE b == [i \in 0 .. n + 1 |-> IF i = n + 1 THEN g[a[n]] ELSE a[i]]
    <3>2. b \in [0 .. n + 1 -> S]
      BY n \in 0 .. n
    <3>3. Starts(b, n + 1)
      BY <3>1
    <3>4. n + 1 \in Nat
      OBVIOUS
    <3>. HIDE DEF b, Starts
    <3>. QED
      BY <3>2, <3>3, <3>4
  <2>. HIDE DEF T
  <2>3. \A n \in Nat : n \in T
    BY <2>1, <2>2, SetInduction
  <2>. QED
    BY <2>3 DEF T
<1>. DEFINE a(n) == CHOOSE a \in [0 .. n -> S] : Starts(a, n)
            A == [n \in Nat |-> a(n)[n]]
<1>2. \A n \in Nat : a(n) \in [0 .. n -> S] /\ Starts(a(n), n)
  BY <1>1
<1>. HIDE DEF a
<1>3. \A n \in Nat : a(n + 1)[n] = a(n)[n]
  <2>. SUFFICES ASSUME NEW n \in Nat PROVE a(n + 1)[n] = a(n)[n]
    OBVIOUS
  <2>. DEFINE T == {i \in 0 .. n : a(n + 1)[i] = a(n)[i]}
  <2>1. 0 \in T
    BY <1>2
  <2>2. ASSUME NEW i \in 0 .. n - 1, i \in T
        PROVE  i + 1 \in T
    <3>1. a(n)[i + 1] = g[a(n)[i]]
      BY <1>2
    <3>2. i \in 0 .. (n + 1) - 1 /\ n + 1 \in Nat
      OBVIOUS
    <3>3. a(n + 1)[i + 1] = g[a(n + 1)[i]]
      BY <1>2, <3>2
    <3>. QED
      BY <2>2, <3>1, <3>3
  <2>. HIDE DEF T
  <2>3. \A i \in 0 .. n : i \in T
    BY <2>1, <2>2, IntervalInduction
  <2>4. n \in 0 .. n
    OBVIOUS
  <2>. QED
    BY <2>3, <2>4 DEF T
<1>4. A \in [Nat -> S]
  BY <1>2
<1>5. A[0] = c
  BY <1>2
<1>6. \A n \in Nat : A[n + 1] = g[A[n]]
  <2>. SUFFICES ASSUME NEW n \in Nat PROVE A[n + 1] = g[A[n]]
    OBVIOUS
  <2>1. n + 1 \in Nat /\ n \in 0 .. (n + 1) - 1
    OBVIOUS
  <2>2. a(n + 1)[n + 1] = g[a(n + 1)[n]]
    BY <1>2, <2>1
  <2>. QED
    BY <1>3, <2>1, <2>2
<1>. QED
  BY <1>4, <1>5, <1>6 DEF Iterates

(* F, which takes functions to functions, looks only at smaller arguments. *)
LooksBelow(F, rank, D, T) ==
  \A f, g \in [D -> T] : \A d \in D :
    (\A e \in D : rank[e] < rank[d] => f[e] = g[e]) => F[f][d] = F[g][d]

HasFixedPoint(F, D, T) == \E f \in [D -> T] : f = F[f]

(* A definition by recursion has a solution when its body, as a function   *)
(* from functions to functions, looks only at arguments of smaller rank.   *)
THEOREM RecursionExists ==
  ASSUME NEW D, NEW T, T # {}, NEW rank \in [D -> Nat],
         NEW F \in [[D -> T] -> [D -> T]], LooksBelow(F, rank, D, T)
  PROVE  HasFixedPoint(F, D, T)
<1>1. PICK t \in T : TRUE
  OBVIOUS
<1>2. [d \in D |-> t] \in [D -> T]
  OBVIOUS
<1>. DEFINE S == [D -> T]
            c == [d \in D |-> t]
<1>. HIDE DEF S, c
<1>2a. c \in S
  BY <1>2 DEF S, c
<1>2b. F \in [S -> S]
  BY DEF S
<1>3a. PICK A \in [Nat -> S] : Iterates(A, c, F)
  BY <1>2a, <1>2b, IterationExists
<1>3. A \in [Nat -> [D -> T]] /\ \A n \in Nat : A[n + 1] = F[A[n]]
  BY <1>3a DEF S, Iterates
<1>4. \A n \in Nat : A[n] \in [D -> T]
  BY <1>3
<1>5. \A n \in Nat : \A d \in D : rank[d] < n => A[n + 1][d] = A[n][d]
  <2>. DEFINE U == {n \in Nat : \A d \in D : rank[d] < n => A[n + 1][d] = A[n][d]}
  <2>1. 0 \in U
    OBVIOUS
  <2>2. ASSUME NEW n \in Nat, n \in U
        PROVE  n + 1 \in U
    <3>. SUFFICES ASSUME NEW d \in D, rank[d] < n + 1
                  PROVE  A[(n + 1) + 1][d] = A[n + 1][d]
      OBVIOUS
    <3>1. \A e \in D : rank[e] < rank[d] => A[n + 1][e] = A[n][e]
      BY <2>2
    <3>2. A[n + 1] \in [D -> T] /\ A[n] \in [D -> T] /\ n + 1 \in Nat
      BY <1>4
    <3>3. F[A[n + 1]][d] = F[A[n]][d]
      BY <3>1, <3>2 DEF LooksBelow
    <3>. QED
      BY <1>3, <3>2, <3>3
  <2>. HIDE DEF U
  <2>3. \A n \in Nat : n \in U
    BY <2>1, <2>2, SetInduction
  <2>. QED
    BY <2>3 DEF U
<1>6. \A d \in D : \A k \in Nat : A[rank[d] + 1 + k][d] = A[rank[d] + 1][d]
  <2>. SUFFICES ASSUME NEW d \in D
                PROVE  \A k \in Nat : A[rank[d] + 1 + k][d] = A[rank[d] + 1][d]
    OBVIOUS
  <2>. DEFINE U == {k \in Nat : A[rank[d] + 1 + k][d] = A[rank[d] + 1][d]}
  <2>0. rank[d] \in Nat
    OBVIOUS
  <2>1. 0 \in U
    BY <2>0
  <2>2. ASSUME NEW k \in Nat, k \in U
        PROVE  k + 1 \in U
    <3>1. rank[d] + 1 + k \in Nat /\ rank[d] < rank[d] + 1 + k
      BY <2>0
    <3>2. A[(rank[d] + 1 + k) + 1][d] = A[rank[d] + 1 + k][d]
      BY <1>5, <3>1
    <3>3. rank[d] + 1 + (k + 1) = (rank[d] + 1 + k) + 1
      BY <2>0
    <3>. QED
      BY <2>2, <3>2, <3>3
  <2>. HIDE DEF U
  <2>3. \A k \in Nat : k \in U
    BY <2>1, <2>2, SetInduction
  <2>. QED
    BY <2>3 DEF U
<1>. DEFINE f == [d \in D |-> A[rank[d] + 1][d]]
<1>7. f \in [D -> T]
  BY <1>4
<1>8. ASSUME NEW d \in D
      PROVE  F[f][d] = f[d]
  <2>1. rank[d] \in Nat /\ A[rank[d]] \in [D -> T]
    BY <1>4
  <2>2. ASSUME NEW e \in D, rank[e] < rank[d]
        PROVE  f[e] = A[rank[d]][e]
    <3>. DEFINE k == rank[d] - (rank[e] + 1)
    <3>1. k \in Nat /\ rank[e] + 1 + k = rank[d]
      BY <2>1, <2>2
    <3>. HIDE DEF k
    <3>2. A[rank[e] + 1 + k][e] = A[rank[e] + 1][e]
      BY <1>6, <3>1
    <3>. QED
      BY <3>1, <3>2
  <2>. HIDE DEF f
  <2>3. F[f][d] = F[A[rank[d]]][d]
    BY <1>7, <2>1, <2>2 DEF LooksBelow
  <2>4. F[A[rank[d]]] = A[rank[d] + 1]
    BY <1>3, <2>1
  <2>. QED
    BY <2>3, <2>4 DEF f
<1>. HIDE DEF f
<1>9. F[f] \in [D -> T]
  BY <1>7
<1>10. F[f] = f
  BY <1>7, <1>8, <1>9
<1>. QED
  BY <1>7, <1>10 DEF HasFixedPoint

-----------------------------------------------------------------------------
(* Sequences of sequences, put together piece by piece                     *)

FlattenSteps(f, ss) ==
  f[0] = <<>> /\ \A i \in 0 .. Len(ss) - 1 : f[i + 1] = f[i] \o ss[i + 1]

(* FlattenSeq() puts the pieces together one after the other.              *)
THEOREM FlattenExists ==
  ASSUME NEW T, NEW ss \in Seq(Seq(T))
  PROVE  \E f \in [0 .. Len(ss) -> Seq(T)] :
           FlattenSteps(f, ss) /\ FlattenSeq(ss) = f[Len(ss)]
<1>. DEFINE N == Len(ss)
            D == 1 .. N
            C == Seq(T)
<1>1. N \in Nat /\ \A i \in D : ss[i] \in C
  OBVIOUS
<1>1a. \A c \in C, d \in C : c \o d \in C
  OBVIOUS
<1>1b. \A c \in C : <<>> \o c = c
  OBVIOUS
<1>1c. <<>> \in C
  OBVIOUS
<1>2. CASE N = 0
  <2>. DEFINE f == [i \in 0 .. N |-> <<>>]
  <2>1. f \in [0 .. N -> Seq(T)]
    OBVIOUS
  <2>2. FlattenSteps(f, ss)
    BY <1>2 DEF FlattenSteps
  <2>3. FlattenSeq(ss) = <<>>
    BY <1>2 DEF FlattenSeq
  <2>. QED
    BY <1>2, <2>1, <2>2, <2>3
<1>3. CASE N # 0
  <2>. DEFINE Body(g) == [i \in D |-> IF i = 1 THEN ss[i] ELSE g[i - 1] \o ss[i]]
              S == [D -> C]
              F == [g \in S |-> Body(g)]
              rank == [i \in D |-> i]
  <2>1. ASSUME NEW g \in S
        PROVE  Body(g) \in S
    <3>. SUFFICES ASSUME NEW i \in D, i # 1
                  PROVE  g[i - 1] \o ss[i] \in C
      BY <1>1
    <3>1. i - 1 \in D
      BY <1>1
    <3>2. g[i - 1] \in C
      BY <3>1
    <3>. HIDE DEF C
    <3>. QED
      BY <1>1, <1>1a, <3>2
  <2>2. F \in [S -> S]
    <3>. HIDE DEF S, Body
    <3>. QED
      BY <2>1
  <2>3. rank \in [D -> Nat]
    OBVIOUS
  <2>4. \A g, h \in [D -> C] : \A i \in D :
          (\A j \in D : rank[j] < rank[i] => g[j] = h[j]) => F[g][i] = F[h][i]
    <3>. SUFFICES ASSUME NEW g \in S, NEW h \in S, NEW i \in D,
                         \A j \in D : rank[j] < rank[i] => g[j] = h[j]
                  PROVE  Body(g)[i] = Body(h)[i]
      <4>. HIDE DEF C, Body, rank
      <4>. QED
        OBVIOUS
    <3>1. i # 1 => i - 1 \in D /\ i - 1 < i
      BY <1>1
    <3>2. i # 1 => g[i - 1] = h[i - 1]
      BY <3>1
    <3>. QED
      BY <3>2
  <2>5. \E g \in [D -> C] : g = F[g]
    <3>1. C # {}
      BY <1>1c
    <3>2. F \in [[D -> C] -> [D -> C]]
      BY <2>2
    <3>3. LooksBelow(F, rank, D, C)
      BY <2>4 DEF LooksBelow
    <3>. HIDE DEF F, D, rank, C, S
    <3>4. HasFixedPoint(F, D, C)
      BY <2>3, <3>1, <3>2, <3>3, RecursionExists
    <3>. QED
      BY <3>4 DEF HasFixedPoint
  <2>. DEFINE g == CHOOSE g : g = Body(g)
  <2>6. g = Body(g)
    <3>1. \E h : h = Body(h)
      BY <2>5
    <3>. HIDE DEF Body
    <3>. QED
      BY <3>1
  <2>7. FlattenSeq(ss) = g[N]
    BY <1>3 DEF FlattenSeq
  <2>. HIDE DEF g
  <2>8. g[1] = ss[1]
    BY <1>1, <1>3, <2>6
  <2>9. \A i \in 1 .. N - 1 : g[i + 1] = g[i] \o ss[i + 1]
    <3>. SUFFICES ASSUME NEW i \in 1 .. N - 1 PROVE g[i + 1] = g[i] \o ss[i + 1]
      OBVIOUS
    <3>1. i + 1 \in D /\ i + 1 # 1 /\ (i + 1) - 1 = i
      BY <1>1
    <3>2. Body(g)[i + 1] = g[(i + 1) - 1] \o ss[i + 1]
      BY <3>1
    <3>. QED
      BY <2>6, <3>1, <3>2
  <2>. DEFINE f == [i \in 0 .. N |-> IF i = 0 THEN <<>> ELSE g[i]]
  <2>10. f[0] = <<>> /\ \A i \in 1 .. N : f[i] = g[i]
    BY <1>1
  <2>11. \A i \in 0 .. N - 1 : f[i + 1] = f[i] \o ss[i + 1]
    <3>. SUFFICES ASSUME NEW i \in 0 .. N - 1 PROVE f[i + 1] = f[i] \o ss[i + 1]
      OBVIOUS
    <3>1. i + 1 \in 1 .. N /\ ss[i + 1] \in C
      BY <1>1
    <3>2. CASE i = 0
      <4>1. f[i + 1] = ss[i + 1]
        BY <3>1, <3>2, <2>8, <2>10
      <4>2. f[i] = <<>>
        BY <3>2, <2>10
      <4>. HIDE DEF f, C
      <4>. QED
        BY <3>1, <4>1, <4>2, <1>1b
    <3>3. CASE i # 0
      <4>1. i \in 1 .. N - 1 /\ i \in 1 .. N
        BY <3>3, <1>1
      <4>. HIDE DEF f
      <4>. QED
        BY <4>1, <3>1, <2>9, <2>10
    <3>. QED
      BY <3>2, <3>3
  <2>12. \A i \in 0 .. N : f[i] \in C
    <3>. DEFINE U == {i \in 0 .. N : f[i] \in C}
    <3>1. 0 \in U
      BY <1>1, <1>1c
    <3>2. ASSUME NEW i \in 0 .. N - 1, i \in U
          PROVE  i + 1 \in U
      <4>1. i + 1 \in 0 .. N /\ i + 1 \in D
        BY <1>1
      <4>2. f[i + 1] = f[i] \o ss[i + 1] /\ ss[i + 1] \in C
        BY <2>11, <4>1, <1>1
      <4>. HIDE DEF f, C
      <4>. QED
        BY <3>2, <4>1, <4>2, <1>1a
    <3>. HIDE DEF U
    <3>3. \A i \in 0 .. N : i \in U
      BY <1>1, <3>1, <3>2, IntervalInduction
    <3>. QED
      BY <3>3 DEF U
  <2>13. f \in [0 .. N -> Seq(T)]
    <3>. HIDE DEF g
    <3>. QED
      BY <2>12
  <2>14. FlattenSeq(ss) = f[N]
    <3>1. N \in 1 .. N
      BY <1>1, <1>3
    <3>. QED
      BY <3>1, <2>10, <2>7
  <2>. HIDE DEF f
  <2>. QED
    BY <2>10, <2>11, <2>13, <2>14 DEF FlattenSteps
<1>. QED
  BY <1>2, <1>3

(* What is put together in the same steps is what FlattenSeq() returns.    *)
THEOREM FlattenIs ==
  ASSUME NEW T, NEW ss \in Seq(Seq(T)), NEW h, FlattenSteps(h, ss)
  PROVE  FlattenSeq(ss) = h[Len(ss)]
<1>1. PICK f \in [0 .. Len(ss) -> Seq(T)] :
        FlattenSteps(f, ss) /\ FlattenSeq(ss) = f[Len(ss)]
  BY FlattenExists
<1>2. Len(ss) \in Nat
  OBVIOUS
<1>. DEFINE N == Len(ss)
            U == {i \in 0 .. N : f[i] = h[i]}
<1>3. 0 \in U
  BY <1>1, <1>2 DEF FlattenSteps
<1>4. ASSUME NEW i \in 0 .. N - 1, i \in U
      PROVE  i + 1 \in U
  <2>1. f[i + 1] = f[i] \o ss[i + 1] /\ h[i + 1] = h[i] \o ss[i + 1]
    BY <1>1 DEF FlattenSteps
  <2>2. i + 1 \in 0 .. N
    BY <1>2
  <2>. QED
    BY <1>4, <2>1, <2>2
<1>. HIDE DEF U
<1>5. \A i \in 0 .. N : i \in U
  <2>. HIDE DEF N
  <2>1. N \in Nat
    BY <1>2 DEF N
  <2>. QED
    BY <2>1, <1>3, <1>4, IntervalInduction
<1>6. N \in 0 .. N
  BY <1>2
<1>. QED
  BY <1>1, <1>5, <1>6 DEF U

=============================================================================
