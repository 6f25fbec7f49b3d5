--------------------------- MODULE TxtSplitProofs ---------------------------
(***************************************************************************)
(* Proofs about TxtSplit, for any limit, any widths and texts of any       *)
(* length: splitting loses nothing and cuts no character of a valid text.  *)
(*                                                                         *)
(* What recursive functions compute needs induction.  The library's        *)
(* induction theorems take operators as parameters, which the provers do   *)
(* not instantiate; the lemmas here take sets and functions in their       *)
(* place, and rest on WFMin, that a set of naturals has a least element.   *)
(***************************************************************************)
EXTENDS TxtSplit, SequenceTheorems, WellFoundedInduction, TLAPS

\* A set of naturals that is not empty has a least element.
LEMMA LeastElement ==
  ASSUME NEW T, T \subseteq Nat, T # {}
  PROVE  \E n \in T : \A k \in T : n <= k
<1> DEFINE R == {ss \in Nat \X Nat : ss[1] < ss[2]}
<1>1. IsWellFoundedOn(R, Nat)
  BY NatLessThanWellFounded DEF OpToRel
<1> HIDE DEF R
<1>2. PICK n \in T : \A k \in T : <<k, n>> \notin R
  BY <1>1, WFMin
<1>3. ASSUME NEW k \in T PROVE n <= k
  <2>1. n \in Nat /\ k \in Nat
    OBVIOUS
  <2>2. ~(k < n)
    BY <1>2, <2>1 DEF R
  <2> QED
    BY <2>1, <2>2
<1> QED
  BY <1>3

\* Induction over a set of naturals.
LEMMA SetInduction ==
  ASSUME NEW T, 0 \in T, \A n \in Nat : n \in T => n + 1 \in T
  PROVE  \A n \in Nat : n \in T
<1> SUFFICES ASSUME Nat \ T # {} PROVE FALSE
  OBVIOUS
<1>1. PICK n \in Nat \ T : \A k \in Nat \ T : n <= k
  BY LeastElement
<1>2. n - 1 \in Nat /\ n - 1 \in T
  BY <1>1
<1> QED
  BY <1>1, <1>2

-----------------------------------------------------------------------------
(* Recursive functions.  F maps a function from D to S to the function that *)
(* the right-hand side of the definition gives for it; rank is what grows   *)
(* smaller in each call.                                                   *)

Smaller(D, rank, x) == {y \in D : rank[y] < rank[x]}

Recursive(D, S, rank, F) ==
    /\ rank \in [D -> Nat]
    /\ F \in [[D -> S] -> [D -> S]]
    /\ \A g, h \in [D -> S], x \in D :
          (\A y \in Smaller(D, rank, x) : g[y] = h[y]) => F[g][x] = F[h][x]

\* g satisfies the equation at all arguments of a rank below n.
SolvesBelow(D, rank, F, n, g) == \A x \in D : rank[x] < n => g[x] = F[g][x]

\* Below n, there is at most one solution.
LEMMA SolutionIsUnique ==
  ASSUME NEW D, NEW S, NEW rank, NEW F, Recursive(D, S, rank, F),
         NEW n \in Nat, NEW m \in Nat, n <= m,
         NEW g \in [D -> S], SolvesBelow(D, rank, F, n, g),
         NEW h \in [D -> S], SolvesBelow(D, rank, F, m, h),
         NEW x \in D, rank[x] < n
  PROVE  g[x] = h[x]
<1> DEFINE T == {rank[y] : y \in {y \in D : rank[y] < n /\ g[y] # h[y]}}
<1> SUFFICES ASSUME T # {} PROVE FALSE
  OBVIOUS
<1>1. T \subseteq Nat
  BY DEF Recursive
<1>2. PICK y \in D : /\ rank[y] < n /\ g[y] # h[y]
                     /\ \A k \in T : rank[y] <= k
  <2>1. PICK k \in T : \A l \in T : k <= l
    BY <1>1, LeastElement
  <2> QED
    BY <2>1
<1>3. \A z \in Smaller(D, rank, y) : g[z] = h[z]
  <2> SUFFICES ASSUME NEW z \in D, rank[z] < rank[y], g[z] # h[z] PROVE FALSE
    BY DEF Smaller
  <2>1. rank[z] \in Nat /\ rank[y] \in Nat
    BY DEF Recursive
  <2>2. rank[z] \in T
    BY <2>1, <1>2
  <2> QED
    BY <2>1, <2>2, <1>2
<1>4. F[g][y] = F[h][y]
  BY <1>3 DEF Recursive
<1>5. rank[y] < m
  BY <1>2 DEF Recursive
<1> QED
  BY <1>2, <1>4, <1>5 DEF SolvesBelow

\* Below each n, there is a solution.
LEMMA SolutionExists ==
  ASSUME NEW D, NEW S, NEW rank, NEW F, Recursive(D, S, rank, F), S # {}
  PROVE  \A n \in Nat : \E g \in [D -> S] : SolvesBelow(D, rank, F, n, g)
<1> DEFINE T == {n \in Nat : \E g \in [D -> S] : SolvesBelow(D, rank, F, n, g)}
<1>1. 0 \in T
  <2>1. PICK s \in S : TRUE
    OBVIOUS
  <2>2. [x \in D |-> s] \in [D -> S]
    OBVIOUS
  <2>3. SolvesBelow(D, rank, F, 0, [x \in D |-> s])
    BY DEF SolvesBelow, Recursive
  <2> QED
    BY <2>2, <2>3
<1>2. ASSUME NEW n \in Nat, n \in T PROVE n + 1 \in T
  <2>1. PICK g \in [D -> S] : SolvesBelow(D, rank, F, n, g)
    BY <1>2
  <2>2. F[g] \in [D -> S]
    BY DEF Recursive
  <2>3. SolvesBelow(D, rank, F, n + 1, F[g])
    <3> SUFFICES ASSUME NEW x \in D, rank[x] < n + 1 PROVE F[g][x] = F[F[g]][x]
      BY DEF SolvesBelow
    <3>1. ASSUME NEW y \in Smaller(D, rank, x) PROVE g[y] = F[g][y]
      <4>1. y \in D /\ rank[y] < rank[x] /\ rank[y] \in Nat /\ rank[x] \in Nat
        BY DEF Smaller, Recursive
      <4>2. rank[y] < n
        BY <4>1
      <4> QED
        BY <2>1, <4>1, <4>2 DEF SolvesBelow
    <3> QED
      BY <2>2, <3>1 DEF Recursive
  <2> QED
    BY <2>2, <2>3
<1> HIDE DEF T
<1>3. \A n \in Nat : n \in T
  BY <1>1, <1>2, SetInduction
<1> QED
  BY <1>3 DEF T

\* The equation has a solution.
LEMMA RecursionTheorem ==
  ASSUME NEW D, NEW S, NEW rank, NEW F, Recursive(D, S, rank, F), S # {}
  PROVE  \E f \in [D -> S] : f = F[f]
<1> DEFINE G(n) == CHOOSE g \in [D -> S] : SolvesBelow(D, rank, F, n, g)
           f == [x \in D |-> G(rank[x] + 1)[x]]
<1>1. ASSUME NEW n \in Nat PROVE G(n) \in [D -> S] /\ SolvesBelow(D, rank, F, n, G(n))
  BY SolutionExists
<1> HIDE DEF G
<1>2. ASSUME NEW x \in D PROVE rank[x] \in Nat /\ rank[x] + 1 \in Nat
  BY DEF Recursive
<1>3. f \in [D -> S]
  BY <1>1, <1>2
<1>4. ASSUME NEW x \in D PROVE f[x] = F[f][x]
  <2> DEFINE g == G(rank[x] + 1)
  <2>1. g \in [D -> S] /\ SolvesBelow(D, rank, F, rank[x] + 1, g)
    BY <1>1, <1>2
  <2>2. ASSUME NEW y \in Smaller(D, rank, x) PROVE f[y] = g[y]
    <3>1. y \in D /\ rank[y] < rank[x] /\ rank[y] \in Nat /\ rank[x] \in Nat
      BY <1>2 DEF Smaller
    <3> DEFINE h == G(rank[y] + 1)
    <3>2. h \in [D -> S] /\ SolvesBelow(D, rank, F, rank[y] + 1, h) /\ f[y] = h[y]
      BY <1>1, <1>2, <3>1
    <3> HIDE DEF h, g, f
    <3>3. rank[y] + 1 \in Nat /\ rank[x] + 1 \in Nat /\ rank[y] + 1 <= rank[x] + 1
          /\ rank[y] < rank[y] + 1
      BY <3>1
    <3>4. h[y] = g[y]
      BY <2>1, <3>1, <3>2, <3>3, SolutionIsUnique
    <3> QED
      BY <3>2, <3>4
  <2>3. f[x] = g[x]
    OBVIOUS
  <2> HIDE DEF f, g
  <2>4. g[x] = F[g][x]
    BY <1>2, <2>1 DEF SolvesBelow
  <2>5. F[f][x] = F[g][x]
    BY <1>3, <2>1, <2>2 DEF Recursive
  <2> QED
    BY <2>3, <2>4, <2>5
<1> HIDE DEF f
<1>5. F[f] \in [D -> S]
  BY <1>3 DEF Recursive
<1>6. f = F[f]
  BY <1>3, <1>4, <1>5
<1> QED
  BY <1>3, <1>6

-----------------------------------------------------------------------------
(* The valid prefixes of a text.                                           *)

\* The first j bytes end with a character whose start is at a place in V.
EndsChar(text, V, j) ==
    j = 0 \/ \E n \in 1 .. MaxWidth : n <= j /\ CharAt(text, j - n, n) /\ V[j - n]

\* The function that ValidPrefix defines for the first i bytes satisfies its
\* equation.
LEMMA ValidEquation ==
  ASSUME NEW text, NEW i \in Nat
  PROVE  \E V \in [0 .. i -> BOOLEAN] :
            /\ \A j \in 0 .. i : V[j] = EndsChar(text, V, j)
            /\ ValidPrefix(text, i) = V[i]
<1> DEFINE D == 0 .. i
           S == BOOLEAN
           rank == [j \in D |-> j]
           F == [V \in [D -> S] |-> [j \in D |-> EndsChar(text, V, j)]]
           valid == CHOOSE V : V = [j \in 0 .. i |-> EndsChar(text, V, j)]
<1>1. Recursive(D, S, rank, F)
  <2>1. rank \in [D -> Nat] /\ F \in [[D -> S] -> [D -> S]]
    BY DEF EndsChar
  <2>2. ASSUME NEW g \in [D -> S], NEW h \in [D -> S], NEW j \in D,
               \A k \in Smaller(D, rank, j) : g[k] = h[k]
        PROVE  F[g][j] = F[h][j]
    <3>1. ASSUME NEW n \in 1 .. MaxWidth, n <= j PROVE g[j - n] = h[j - n]
      <4>1. j - n \in D /\ j - n < j
        BY <3>1, TxtAssumption
      <4> QED
        BY <2>2, <4>1 DEF Smaller
    <3> QED
      BY <3>1 DEF EndsChar
  <2> HIDE DEF D, S, rank, F
  <2> QED
    BY <2>1, <2>2 DEF Recursive
<1>2. \E V \in [D -> S] : V = F[V]
  <2>1. S # {}
    OBVIOUS
  <2> HIDE DEF D, S, rank, F
  <2> QED
    BY <1>1, <2>1, RecursionTheorem
<1>3. \E V : V = [j \in 0 .. i |-> EndsChar(text, V, j)]
  BY <1>2
<1>4. valid = [j \in 0 .. i |-> EndsChar(text, valid, j)]
  BY <1>3
<1>5. ValidPrefix(text, i) = valid[i]
  BY DEF ValidPrefix, EndsChar
<1> HIDE DEF valid
<1>6. valid \in [0 .. i -> BOOLEAN]
  BY <1>4 DEF EndsChar
<1> QED
  BY <1>4, <1>5, <1>6

\* A prefix is valid if it is empty, or a character after a valid prefix.
LEMMA ValidStep ==
  ASSUME NEW text, NEW i \in Nat
  PROVE  ValidPrefix(text, i) =
            (i = 0 \/ \E n \in 1 .. MaxWidth :
                         n <= i /\ CharAt(text, i - n, n) /\ ValidPrefix(text, i - n))
<1>1. PICK V \in [0 .. i -> BOOLEAN] : /\ \A j \in 0 .. i : V[j] = EndsChar(text, V, j)
                                       /\ ValidPrefix(text, i) = V[i]
  BY ValidEquation
<1>2. ASSUME NEW k \in 0 .. i PROVE ValidPrefix(text, k) = V[k]
  <2>1. PICK W \in [0 .. k -> BOOLEAN] : /\ \A j \in 0 .. k : W[j] = EndsChar(text, W, j)
                                         /\ ValidPrefix(text, k) = W[k]
    BY ValidEquation
  <2> DEFINE T == {j \in 0 .. k : V[j] # W[j]}
  <2>2. T = {}
    <3> SUFFICES ASSUME T # {} PROVE FALSE
      OBVIOUS
    <3> T \subseteq Nat
      OBVIOUS
    <3>1. PICK j \in T : \A l \in T : j <= l
      BY LeastElement
    <3>2. ASSUME NEW n \in 1 .. MaxWidth, n <= j PROVE V[j - n] = W[j - n]
      <4>1. j - n \in 0 .. k /\ ~(j <= j - n)
        BY <3>2, TxtAssumption
      <4> QED
        BY <3>1, <4>1
    <3>3. EndsChar(text, V, j) = EndsChar(text, W, j)
      BY <3>2 DEF EndsChar
    <3> QED
      BY <1>1, <2>1, <3>1, <3>3
  <2> QED
    BY <2>1, <2>2
<1>3. ASSUME NEW n \in 1 .. MaxWidth, n <= i PROVE V[i - n] = ValidPrefix(text, i - n)
  BY <1>2, <1>3, TxtAssumption
<1>4. V[i] = EndsChar(text, V, i)
  BY <1>1
<1> QED
  BY <1>1, <1>3, <1>4 DEF EndsChar

\* A character is a valid prefix.
LEMMA CharIsValid ==
  ASSUME NEW text, NEW n \in 1 .. MaxWidth, CharAt(text, 0, n)
  PROVE  ValidPrefix(text, n)
<1>1. n \in Nat /\ n - n = 0 /\ n <= n
  BY TxtAssumption
<1>2. ValidPrefix(text, 0)
  BY ValidStep
<1> QED
  BY <1>1, <1>2, ValidStep

\* A valid prefix that is not empty begins with a character.
LEMMA FirstChar ==
  ASSUME NEW text, NEW i \in Nat, i # 0, ValidPrefix(text, i)
  PROVE  \E n \in 1 .. MaxWidth : CharAt(text, 0, n)
<1> DEFINE T == {j \in Nat : j # 0 /\ ValidPrefix(text, j)}
<1>1. PICK j \in T : \A k \in T : j <= k
  BY LeastElement
<1>2. PICK n \in 1 .. MaxWidth :
         n <= j /\ CharAt(text, j - n, n) /\ ValidPrefix(text, j - n)
  BY ValidStep
<1>3. j - n \in Nat /\ ~(j <= j - n)
  BY <1>2, TxtAssumption
<1>4. j - n = 0
  BY <1>1, <1>2, <1>3
<1> QED
  BY <1>2, <1>4

\* A prefix of a text has the same valid prefixes.
LEMMA PrefixOfPrefix ==
  ASSUME NEW B, NEW text \in Seq(B), NEW m \in 0 .. Len(text), NEW i \in 0 .. m
  PROVE  ValidPrefix(SubSeq(text, 1, m), i) = ValidPrefix(text, i)
<1> DEFINE head == SubSeq(text, 1, m)
           T == {k \in Nat : k <= i /\ ValidPrefix(head, k) # ValidPrefix(text, k)}
<1>1. Len(text) \in Nat /\ \A k \in 1 .. m : text[k] \in B
  BY LenProperties, ElementOfSeq
<1>2. Len(head) = m /\ \A k \in 1 .. m : head[k] = text[k]
  BY <1>1, SubSeqProperties
<1> HIDE DEF head
<1>3. T = {}
  <2> SUFFICES ASSUME T # {} PROVE FALSE
    OBVIOUS
  <2>1. PICK k \in T : \A l \in T : k <= l
    BY LeastElement
  <2>2. ASSUME NEW n \in 1 .. MaxWidth, n <= k
        PROVE  ValidPrefix(head, k - n) = ValidPrefix(text, k - n)
    <3>1. k - n \in Nat /\ k - n <= i /\ ~(k <= k - n)
      BY <2>2, TxtAssumption
    <3> QED
      BY <2>1, <3>1
  <2>3. ASSUME NEW n \in 1 .. MaxWidth, n <= k
        PROVE  CharAt(head, k - n, n) = CharAt(text, k - n, n)
    <3>1. /\ (k - n) + n <= Len(head) /\ (k - n) + n <= Len(text)
          /\ (k - n) + 1 \in 1 .. m
          /\ \A j \in 2 .. n : (k - n) + j \in 1 .. m
      BY <1>1, <1>2, <2>3, TxtAssumption
    <3> QED
      BY <1>2, <3>1 DEF CharAt
  <2>4. k = 0 => ValidPrefix(head, k) = ValidPrefix(text, k)
    BY ValidStep
  <2>5. ValidPrefix(head, k) = ValidPrefix(text, k)
    BY <2>2, <2>3, ValidStep
  <2> QED
    BY <2>5
<1>4. i \in Nat /\ i <= i
  OBVIOUS
<1> QED
  BY <1>3, <1>4 DEF head

\* No character of a valid prefix goes beyond the end of a shorter one.
LEMMA CharsDoNotStraddle ==
  ASSUME NEW text, NEW i \in Nat, ValidPrefix(text, i),
         NEW j \in Nat, i < j, NEW n \in 1 .. MaxWidth, n <= j, CharAt(text, j - n, n)
  PROVE  i <= j - n
<1> SUFFICES ASSUME j - n < i PROVE FALSE
  BY TxtAssumption
<1>1. PICK m \in 1 .. MaxWidth : m <= i /\ CharAt(text, i - m, m)
  <2>1. i # 0
    BY TxtAssumption
  <2> QED
    BY <2>1, ValidStep
<1>2. i - m \in Nat /\ j - n \in Nat /\ m \in Nat /\ n \in Nat /\ m # 0 /\ n # 0
  BY <1>1, TxtAssumption
<1>3. text[(i - m) + 1] = m /\ \A l \in 2 .. m : text[(i - m) + l] = 0
  BY <1>1 DEF CharAt
<1>4. text[(j - n) + 1] = n /\ \A l \in 2 .. n : text[(j - n) + l] = 0
  BY DEF CharAt
<1>5. CASE i - m < j - n
  <2>1. ((j - n) + 1) - (i - m) \in 2 .. m
    BY <1>2, <1>5
  <2>2. (i - m) + (((j - n) + 1) - (i - m)) = (j - n) + 1
    BY <1>2
  <2> QED
    BY <1>2, <1>3, <1>4, <2>1, <2>2
<1>6. CASE j - n < i - m
  <2>1. ((i - m) + 1) - (j - n) \in 2 .. n
    BY <1>2, <1>6
  <2>2. (j - n) + (((i - m) + 1) - (j - n)) = (i - m) + 1
    BY <1>2
  <2> QED
    BY <1>2, <1>3, <1>4, <2>1, <2>2
<1>7. CASE i - m = j - n
  BY <1>2, <1>3, <1>4, <1>7
<1> QED
  BY <1>2, <1>5, <1>6, <1>7

\* What follows a valid prefix in a valid one is valid.
LEMMA RestIsValid ==
  ASSUME NEW B, NEW text \in Seq(B), NEW i \in 0 .. Len(text), ValidPrefix(text, i),
         NEW j \in i .. Len(text), ValidPrefix(text, j)
  PROVE  ValidPrefix(SubSeq(text, i + 1, Len(text)), j - i)
<1> DEFINE rest == SubSeq(text, i + 1, Len(text))
           T == {k \in Nat : k >= i /\ k <= Len(text) /\ ValidPrefix(text, k)
                                    /\ ~ValidPrefix(rest, k - i)}
<1>1. Len(text) \in Nat /\ \A k \in 1 .. Len(text) : text[k] \in B
  BY LenProperties, ElementOfSeq
<1>2. Len(rest) = Len(text) - i /\ \A k \in 1 .. Len(text) - i : rest[k] = text[i + k]
  BY <1>1, SubSeqProperties
<1> HIDE DEF rest
<1>3. T = {}
  <2> SUFFICES ASSUME T # {} PROVE FALSE
    OBVIOUS
  <2>1. PICK k \in T : \A l \in T : k <= l
    BY LeastElement
  <2>2. k - i \in Nat /\ k - i # 0
    <3>1. ValidPrefix(rest, 0)
      BY ValidStep
    <3> QED
      BY <2>1, <3>1
  <2>3. PICK n \in 1 .. MaxWidth :
           n <= k /\ CharAt(text, k - n, n) /\ ValidPrefix(text, k - n)
    BY <2>1, <2>2, ValidStep
  <2>4. i <= k - n
    BY <2>2, <2>3, CharsDoNotStraddle
  <2>5. /\ k - n \in Nat /\ k - n >= i /\ k - n <= Len(text) /\ ~(k <= k - n)
        /\ (k - i) - n = (k - n) - i /\ n <= k - i
    BY <1>1, <2>2, <2>3, <2>4, TxtAssumption
  <2>6. ValidPrefix(rest, (k - i) - n)
    BY <2>1, <2>3, <2>5
  <2>7. CharAt(rest, (k - i) - n, n)
    <3>1. /\ ((k - i) - n) + n <= Len(rest)
          /\ ((k - i) - n) + 1 \in 1 .. Len(text) - i
          /\ i + (((k - i) - n) + 1) = (k - n) + 1
      BY <1>1, <1>2, <2>2, <2>3, <2>5, TxtAssumption
    <3>2. ASSUME NEW l \in 2 .. n
          PROVE  /\ ((k - i) - n) + l \in 1 .. Len(text) - i
                 /\ i + (((k - i) - n) + l) = (k - n) + l
      BY <1>1, <2>2, <2>3, <2>5, TxtAssumption
    <3> QED
      BY <1>2, <2>3, <3>1, <3>2 DEF CharAt
  <2>8. ValidPrefix(rest, k - i)
    BY <2>2, <2>5, <2>6, <2>7, ValidStep
  <2> QED
    BY <2>8
<1>4. j \in Nat /\ j >= i /\ j <= Len(text)
  BY <1>1
<1> QED
  BY <1>3, <1>4 DEF rest

-----------------------------------------------------------------------------
(* Flattening.                                                             *)

\* The function that FlattenSeq defines satisfies its equation.
LEMMA FlattenEquation ==
  ASSUME NEW B, NEW strings \in Seq(Seq(B)), strings # <<>>
  PROVE  \E f \in [1 .. Len(strings) -> Seq(B)] :
            /\ f[1] = strings[1]
            /\ \A i \in 2 .. Len(strings) : f[i] = f[i - 1] \o strings[i]
            /\ FlattenSeq(strings) = f[Len(strings)]
<1> DEFINE D == 1 .. Len(strings)
           S == Seq(B)
           rank == [i \in D |-> i]
           F == [g \in [D -> S] |->
                    [i \in D |-> IF i = 1 THEN strings[i] ELSE g[i - 1] \o strings[i]]]
           flatten == CHOOSE g : g = [i \in 1 .. Len(strings) |->
                         IF i = 1 THEN strings[i] ELSE g[i - 1] \o strings[i]]
<1>1. Len(strings) \in Nat \ {0} /\ \A i \in D : strings[i] \in S
  BY EmptySeq, ElementOfSeq
<1>2. Recursive(D, S, rank, F)
  <2>1. rank \in [D -> Nat]
    BY <1>1
  <2>2. ASSUME NEW g \in [D -> S], NEW i \in D
        PROVE  (IF i = 1 THEN strings[i] ELSE g[i - 1] \o strings[i]) \in S
    <3>1. CASE i # 1
      <4>1. i - 1 \in D
        BY <1>1, <3>1
      <4>2. g[i - 1] \in Seq(B) /\ strings[i] \in Seq(B)
        BY <1>1, <4>1
      <4>3. g[i - 1] \o strings[i] \in Seq(B)
        BY <4>2, ConcatProperties
      <4> QED
        BY <3>1, <4>3
    <3> QED
      BY <1>1, <3>1
  <2>3. F \in [[D -> S] -> [D -> S]]
    BY <2>2
  <2>4. ASSUME NEW g \in [D -> S], NEW h \in [D -> S], NEW i \in D,
               \A k \in Smaller(D, rank, i) : g[k] = h[k]
        PROVE  F[g][i] = F[h][i]
    <3>1. i # 1 => i - 1 \in Smaller(D, rank, i)
      BY <1>1 DEF Smaller
    <3> QED
      BY <2>4, <3>1
  <2> HIDE DEF D, S, rank, F
  <2> QED
    BY <2>1, <2>3, <2>4 DEF Recursive
<1>3. \E g \in [D -> S] : g = F[g]
  <2>1. S # {}
    BY EmptySeq
  <2> HIDE DEF D, S, rank, F
  <2> QED
    BY <1>2, <2>1, RecursionTheorem
<1>4. PICK g \in [D -> S] : g = F[g]
  BY <1>3
<1>5. g = [i \in 1 .. Len(strings) |->
              IF i = 1 THEN strings[i] ELSE g[i - 1] \o strings[i]]
  BY <1>4
<1>6. flatten = [i \in 1 .. Len(strings) |->
                    IF i = 1 THEN strings[i] ELSE flatten[i - 1] \o strings[i]]
  BY <1>5
<1>7. FlattenSeq(strings) = flatten[Len(strings)]
  BY <1>1 DEF FlattenSeq
<1> HIDE DEF flatten
<1>8. flatten \in [1 .. Len(strings) -> Seq(B)]
  <2> DEFINE T == {i \in 1 .. Len(strings) : flatten[i] \notin Seq(B)}
  <2> SUFFICES ASSUME T # {} PROVE FALSE
    BY <1>6
  <2> T \subseteq Nat
    OBVIOUS
  <2>1. PICK i \in T : \A k \in T : i <= k
    BY LeastElement
  <2>2. i # 1
    BY <1>1, <1>6, <2>1
  <2>3. i - 1 \in 1 .. Len(strings) /\ ~(i <= i - 1)
    BY <1>1, <2>2
  <2>4. flatten[i - 1] \in Seq(B) /\ strings[i] \in Seq(B)
    BY <1>1, <2>1, <2>3
  <2>5. flatten[i] = flatten[i - 1] \o strings[i]
    BY <1>6, <2>2
  <2>6. flatten[i - 1] \o strings[i] \in Seq(B)
    BY <2>4, ConcatProperties
  <2> QED
    BY <2>1, <2>5, <2>6
<1>9. flatten[1] = strings[1]
  BY <1>1, <1>6
<1>10. ASSUME NEW i \in 2 .. Len(strings) PROVE flatten[i] = flatten[i - 1] \o strings[i]
  <2>1. i \in 1 .. Len(strings) /\ i # 1
    BY <1>1
  <2> QED
    BY <1>6, <2>1
<1> QED
  BY <1>7, <1>8, <1>9, <1>10

\* No strings make no text, one string makes that text, and a first string comes
\* before what the others make.
LEMMA FlattenNone == FlattenSeq(<<>>) = <<>>
  BY DEF FlattenSeq

LEMMA FlattenOne ==
  ASSUME NEW B, NEW a \in Seq(B) PROVE FlattenSeq(<<a>>) = a
<1>1. <<a>> \in Seq(Seq(B)) /\ <<a>> # <<>> /\ Len(<<a>>) = 1 /\ <<a>>[1] = a
  OBVIOUS
<1> QED
  BY <1>1, FlattenEquation

LEMMA FlattenCons ==
  ASSUME NEW B, NEW a \in Seq(B), NEW strings \in Seq(Seq(B))
  PROVE  FlattenSeq(<<a>> \o strings) = a \o FlattenSeq(strings)
<1> DEFINE all == <<a>> \o strings
           one == <<a>>
<1>1. one \in Seq(Seq(B)) /\ Len(one) = 1 /\ one[1] = a
  OBVIOUS
<1>2. Len(strings) \in Nat /\ \A i \in 1 .. Len(strings) : strings[i] \in Seq(B)
  BY LenProperties, ElementOfSeq
<1>3. CASE strings = <<>>
  <2>1. all = one
    BY <1>1, <1>3, ConcatEmptySeq
  <2>2. a \o <<>> = a
    BY ConcatEmptySeq
  <2> QED
    BY <1>3, <2>1, <2>2, FlattenNone, FlattenOne
<1>4. CASE strings # <<>>
  <2> DEFINE n == Len(strings)
  <2>0. \A s, u \in Seq(B) : (a \o s) \o u = a \o (s \o u)
    BY ConcatAssociative
  <2>1. n \in Nat \ {0}
    BY <1>4, EmptySeq
  <2>2. all \in Seq(Seq(B)) /\ Len(all) = 1 + n
    BY <1>1, ConcatProperties
  <2>3. all[1] = a /\ \A i \in 1 .. n : all[i + 1] = strings[i]
    <3>1. \A i \in 1 .. 1 + n : all[i] = IF i <= 1 THEN one[i] ELSE strings[i - 1]
      BY <1>1, ConcatProperties
    <3>2. all[1] = a
      BY <1>1, <2>1, <3>1
    <3>3. ASSUME NEW i \in 1 .. n PROVE all[i + 1] = strings[i]
      <4>1. i + 1 \in 1 .. 1 + n /\ ~(i + 1 <= 1) /\ (i + 1) - 1 = i
        BY <1>2
      <4> QED
        BY <3>1, <4>1
    <3> QED
      BY <3>2, <3>3
  <2> HIDE DEF all
  <2>4. all # <<>>
    BY <2>1, <2>2
  <2>5. PICK f \in [1 .. n -> Seq(B)] :
           /\ f[1] = strings[1]
           /\ \A i \in 2 .. n : f[i] = f[i - 1] \o strings[i]
           /\ FlattenSeq(strings) = f[n]
    BY <1>4, FlattenEquation
  <2>6. PICK h \in [1 .. Len(all) -> Seq(B)] :
           /\ h[1] = all[1]
           /\ \A i \in 2 .. Len(all) : h[i] = h[i - 1] \o all[i]
           /\ FlattenSeq(all) = h[Len(all)]
    BY <2>2, <2>4, FlattenEquation
  <2> HIDE DEF n
  <2>7. ASSUME NEW i \in 1 .. n PROVE h[i + 1] = h[i] \o strings[i]
    <3>1. i + 1 \in 2 .. Len(all) /\ (i + 1) - 1 = i
      BY <2>1, <2>2
    <3> QED
      BY <2>3, <2>6, <3>1
  <2> DEFINE T == {i \in 1 .. n : h[i + 1] # a \o f[i]}
  <2>8. T = {}
    <3> SUFFICES ASSUME T # {} PROVE FALSE
      OBVIOUS
    <3> T \subseteq Nat
      OBVIOUS
    <3>1. PICK i \in T : \A k \in T : i <= k
      BY LeastElement
    <3>2. CASE i = 1
      BY <2>3, <2>5, <2>6, <2>7, <3>1, <3>2
    <3>3. CASE i # 1
      <4>1. i - 1 \in 1 .. n /\ i \in 2 .. n /\ ~(i <= i - 1) /\ (i - 1) + 1 = i
        BY <2>1, <3>3
      <4>2. h[i] = a \o f[i - 1]
        BY <3>1, <4>1
      <4>3. f[i - 1] \in Seq(B) /\ strings[i] \in Seq(B)
        BY <1>2, <4>1 DEF n
      <4>4. (a \o f[i - 1]) \o strings[i] = a \o (f[i - 1] \o strings[i])
        BY <2>0, <4>3
      <4>5. f[i] = f[i - 1] \o strings[i]
        BY <2>5, <4>1
      <4>6. h[i + 1] = a \o f[i]
        BY <2>7, <4>1, <4>2, <4>4, <4>5
      <4> QED
        BY <3>1, <4>6
    <3> QED
      BY <3>2, <3>3
  <2>9. h[n + 1] = a \o f[n]
    <3>1. n \in 1 .. n
      BY <2>1
    <3>2. n \notin T
      BY <2>8
    <3> QED
      BY <3>1, <3>2
  <2>10. 1 + n = n + 1
    BY <2>1
  <2>11. FlattenSeq(all) = a \o FlattenSeq(strings)
    BY <2>2, <2>5, <2>6, <2>9, <2>10
  <2> QED
    BY <2>11 DEF all
<1> QED
  BY <1>3, <1>4

-----------------------------------------------------------------------------
(* Splitting.                                                              *)

\* Texts are sequences of bytes, bounded in length.
LEMMA TextsAreSequences ==
  ASSUME NEW text
  PROVE  text \in Texts <=> text \in Seq(Bytes) /\ Len(text) <= MaxText
<1>1. ASSUME text \in Texts PROVE text \in Seq(Bytes) /\ Len(text) <= MaxText
  <2>1. PICK m \in 0 .. MaxText : text \in [1 .. m -> Bytes]
    BY <1>1 DEF Texts, BoundedSeq, SeqOf, Bytes
  <2>2. m \in Nat /\ m <= MaxText
    BY TxtAssumption
  <2>3. text \in Seq(Bytes)
    BY <2>1, <2>2, SeqDef
  <2>4. Len(text) = m
    BY <2>1, <2>2, <2>3, LenProperties
  <2> QED
    BY <2>2, <2>3, <2>4
<1>2. ASSUME text \in Seq(Bytes), Len(text) <= MaxText PROVE text \in Texts
  <2>1. Len(text) \in Nat /\ text \in [1 .. Len(text) -> Bytes]
    BY <1>2, LenProperties
  <2>2. Len(text) \in 0 .. MaxText
    BY <1>2, <2>1, TxtAssumption
  <2> QED
    BY <2>1, <2>2 DEF Texts, BoundedSeq, SeqOf, Bytes
<1> QED
  BY <1>1, <1>2

\* A cut leaves a string that is not empty and fits, and cuts no character of a
\* valid text.
LEMMA CutPointFits ==
  ASSUME NEW text \in Texts, MaxLength < Len(text)
  PROVE  /\ CutPoint(text) \in 1 .. MaxLength
         /\ ValidString(text) => ValidPrefix(text, CutPoint(text))
<1> DEFINE cuts == {i \in 1 .. MaxLength : ValidPrefix(text, i)}
<1>1. CASE cuts = {}
  <2>1. CutPoint(text) = Width(text)
    BY <1>1 DEF CutPoint
  <2>2. ASSUME NEW n \in 1 .. MaxWidth, CharAt(text, 0, n) PROVE FALSE
    <3>1. n \in 1 .. MaxLength
      BY TxtAssumption
    <3> QED
      BY <1>1, <2>2, <3>1, CharIsValid
  <2>3. Width(text) = 1 /\ 1 \in 1 .. MaxLength
    BY <2>2, TxtAssumption DEF Width
  <2>4. ~ValidString(text)
    <3>1. Len(text) \in Nat /\ Len(text) # 0
      BY TextsAreSequences, LenProperties, TxtAssumption
    <3> QED
      BY <2>2, <3>1, FirstChar DEF ValidString
  <2> QED
    BY <2>1, <2>3, <2>4
<1>2. CASE cuts # {}
  <2> DEFINE T == {MaxLength - i : i \in cuts}
  <2>1. T \subseteq Nat /\ T # {}
    BY <1>2, TxtAssumption
  <2>2. PICK n \in T : \A k \in T : n <= k
    BY <2>1, LeastElement
  <2>3. PICK i \in cuts : n = MaxLength - i
    BY <2>2
  <2>4. ASSUME NEW j \in cuts PROVE j <= i
    <3>1. n <= MaxLength - j
      BY <2>2
    <3> QED
      BY <2>3, <3>1, TxtAssumption
  <2>5. CutPoint(text) = CHOOSE c \in cuts : \A j \in cuts : j <= c
    BY <1>2 DEF CutPoint
  <2> HIDE DEF cuts
  <2>6. CutPoint(text) \in cuts
    BY <2>4, <2>5
  <2> QED
    BY <2>6 DEF cuts
<1> QED
  BY <1>1, <1>2

\* What remains after a cut is a shorter text, and with what was cut off makes
\* the text.
LEMMA RestIsText ==
  ASSUME NEW text \in Texts, NEW cut \in 1 .. Len(text)
  PROVE  /\ SubSeq(text, 1, cut) \in Seq(Bytes)
         /\ Len(SubSeq(text, 1, cut)) = cut
         /\ SubSeq(text, cut + 1, Len(text)) \in Texts
         /\ Len(SubSeq(text, cut + 1, Len(text))) = Len(text) - cut
         /\ SubSeq(text, 1, cut) \o SubSeq(text, cut + 1, Len(text)) = text
<1>1. text \in Seq(Bytes) /\ Len(text) \in Nat /\ Len(text) <= MaxText
  BY TextsAreSequences, LenProperties
<1>2. \A i \in 1 .. Len(text) : text[i] \in Bytes
  BY <1>1, ElementOfSeq
<1>3. SubSeq(text, 1, cut) \in Seq(Bytes) /\ Len(SubSeq(text, 1, cut)) = cut
  BY <1>1, <1>2, SubSeqProperties
<1>4. /\ SubSeq(text, cut + 1, Len(text)) \in Seq(Bytes)
      /\ Len(SubSeq(text, cut + 1, Len(text))) = Len(text) - cut
  BY <1>1, <1>2, SubSeqProperties
<1>5. SubSeq(text, cut + 1, Len(text)) \in Texts
  <2>1. Len(text) - cut <= MaxText
    BY <1>1, TxtAssumption
  <2> QED
    BY <1>4, <2>1, TextsAreSequences
<1>6. SubSeq(text, 1, cut) \o SubSeq(text, cut + 1, Len(text)) = text
  <2>1. SubSeq(text, 1, cut) \o SubSeq(text, cut + 1, Len(text)) = SubSeq(text, 1, Len(text))
    BY <1>1, ConcatAdjacentSubSeq
  <2> QED
    BY <1>1, <2>1, SubSeqFull
<1> QED
  BY <1>3, <1>4, <1>5, <1>6

\* The strings of a text, given a function that splits shorter ones.
SplitBy(f, text) ==
    IF text = <<>> THEN <<>>
    ELSE IF Len(text) <= MaxLength THEN <<text>>
    ELSE LET cut == CutPoint(text)
         IN  <<SubSeq(text, 1, cut)>> \o f[SubSeq(text, cut + 1, Len(text))]

\* splitTXTRecord satisfies its equation.
LEMMA SplitEquation == splitTXTRecord = [text \in Texts |-> SplitBy(splitTXTRecord, text)]
<1> DEFINE D == Texts
           S == Seq(Seq(Bytes))
           rank == [text \in D |-> Len(text)]
           F == [g \in [D -> S] |-> [text \in D |-> SplitBy(g, text)]]
<1>1. ASSUME NEW text \in D PROVE text \in Seq(Bytes) /\ Len(text) \in Nat
  BY TextsAreSequences, LenProperties
<1>2. ASSUME NEW text \in D, text # <<>>, ~(Len(text) <= MaxLength)
      PROVE  LET cut == CutPoint(text) IN
             /\ SubSeq(text, 1, cut) \in Seq(Bytes)
             /\ SubSeq(text, cut + 1, Len(text)) \in D
             /\ Len(SubSeq(text, cut + 1, Len(text))) < Len(text)
  <2>1. Len(text) \in Nat /\ MaxLength < Len(text)
    BY <1>1, <1>2, TxtAssumption
  <2>2. CutPoint(text) \in 1 .. MaxLength
    BY <2>1, CutPointFits
  <2>3. CutPoint(text) \in 1 .. Len(text) /\ Len(text) - CutPoint(text) < Len(text)
    BY <2>1, <2>2, TxtAssumption
  <2> QED
    BY <2>3, RestIsText
<1>3. ASSUME NEW g \in [D -> S], NEW text \in D PROVE SplitBy(g, text) \in S
  <2>1. CASE text = <<>>
    BY <2>1, EmptySeq DEF SplitBy
  <2>2. CASE text # <<>> /\ Len(text) <= MaxLength
    <3>1. <<text>> \in S
      BY <1>1
    <3> QED
      BY <2>2, <3>1 DEF SplitBy
  <2>3. CASE text # <<>> /\ ~(Len(text) <= MaxLength)
    <3> DEFINE first == SubSeq(text, 1, CutPoint(text))
               rest == SubSeq(text, CutPoint(text) + 1, Len(text))
    <3>1. first \in Seq(Bytes) /\ rest \in D
      BY <1>2, <2>3
    <3>2. SplitBy(g, text) = <<first>> \o g[rest]
      BY <2>3 DEF SplitBy
    <3> HIDE DEF first, rest
    <3>3. <<first>> \in S /\ g[rest] \in S
      BY <3>1
    <3> QED
      BY <3>2, <3>3, ConcatProperties
  <2> QED
    BY <2>1, <2>2, <2>3
<1>4. Recursive(D, S, rank, F)
  <2>1. rank \in [D -> Nat] /\ F \in [[D -> S] -> [D -> S]]
    BY <1>1, <1>3
  <2>2. ASSUME NEW g \in [D -> S], NEW h \in [D -> S], NEW text \in D,
               \A t \in Smaller(D, rank, text) : g[t] = h[t]
        PROVE  F[g][text] = F[h][text]
    <3>1. CASE text # <<>> /\ ~(Len(text) <= MaxLength)
      <4> DEFINE rest == SubSeq(text, CutPoint(text) + 1, Len(text))
      <4>1. rest \in Smaller(D, rank, text)
        BY <1>2, <3>1 DEF Smaller
      <4>2. g[rest] = h[rest]
        BY <2>2, <4>1
      <4> QED
        BY <3>1, <4>2 DEF SplitBy
    <3>2. CASE text = <<>> \/ Len(text) <= MaxLength
      BY <3>2 DEF SplitBy
    <3> QED
      BY <3>1, <3>2
  <2> HIDE DEF D, S, rank, F
  <2> QED
    BY <2>1, <2>2 DEF Recursive
<1>5. \E g \in [D -> S] : g = F[g]
  <2>1. S # {}
    BY EmptySeq
  <2> HIDE DEF D, S, rank, F
  <2> QED
    BY <1>4, <2>1, RecursionTheorem
<1>6. \E g : g = [text \in Texts |-> SplitBy(g, text)]
  BY <1>5
<1> QED
  BY <1>6 DEF splitTXTRecord, SplitBy

\* A string before strings that keep the rest of a text keeps the text.
LEMMA ConsKeeps ==
  ASSUME NEW text \in Texts, MaxLength < Len(text),
         NEW strings, Kept(SubSeq(text, CutPoint(text) + 1, Len(text)), strings)
  PROVE  Kept(text, <<SubSeq(text, 1, CutPoint(text))>> \o strings)
<1> DEFINE cut == CutPoint(text)
           first == SubSeq(text, 1, cut)
           rest == SubSeq(text, cut + 1, Len(text))
           all == <<first>> \o strings
<1>1. text \in Seq(Bytes) /\ Len(text) \in Nat
  BY TextsAreSequences, LenProperties
<1>2. cut \in 1 .. MaxLength /\ (ValidString(text) => ValidPrefix(text, cut))
  BY CutPointFits
<1>3. cut \in 1 .. Len(text)
  BY <1>1, <1>2, TxtAssumption
<1>4. /\ first \in Seq(Bytes) /\ Len(first) = cut
      /\ rest \in Texts /\ Len(rest) = Len(text) - cut
      /\ first \o rest = text
  BY <1>3, RestIsText
<1>5. ValidString(text) => ValidString(first)
  <2>1. ValidPrefix(SubSeq(text, 1, cut), cut) = ValidPrefix(text, cut)
    <3>1. cut \in 0 .. Len(text) /\ cut \in 0 .. cut
      BY <1>1, <1>3
    <3> QED
      BY <1>1, <3>1, PrefixOfPrefix
  <2> QED
    BY <1>2, <1>4, <2>1 DEF ValidString
<1>6. ValidString(text) => ValidString(rest)
  <2> SUFFICES ASSUME ValidPrefix(text, Len(text)) PROVE ValidPrefix(rest, Len(text) - cut)
    BY <1>4 DEF ValidString
  <2>1. cut \in 0 .. Len(text) /\ Len(text) \in cut .. Len(text)
    BY <1>1, <1>3
  <2>2. ValidPrefix(text, cut)
    BY <1>2 DEF ValidString
  <2> QED
    BY <1>1, <2>1, <2>2, RestIsValid
<1>7. Kept(rest, strings)
  OBVIOUS
<1> HIDE DEF cut, first, rest
<1>8. <<first>> \in Seq(Seq(Bytes)) /\ Len(<<first>>) = 1 /\ <<first>>[1] = first
  BY <1>4
<1>9. strings \in Seq(Seq(Bytes)) /\ Len(strings) \in Nat
  BY <1>7, LenProperties DEF Kept
<1>10. /\ all \in Seq(Seq(Bytes)) /\ Len(all) = 1 + Len(strings)
       /\ \A i \in 1 .. 1 + Len(strings) :
             all[i] = IF i <= 1 THEN <<first>>[i] ELSE strings[i - 1]
  BY <1>8, <1>9, ConcatProperties
<1>11. FlattenSeq(all) = text
  <2>1. FlattenSeq(all) = first \o FlattenSeq(strings)
    BY <1>4, <1>9, FlattenCons
  <2> QED
    BY <1>4, <1>7, <2>1 DEF Kept
<1>12. ASSUME NEW i \in DOMAIN all
       PROVE  /\ Len(all[i]) \in 1 .. MaxLength
              /\ ValidString(text) => ValidString(all[i])
  <2>1. i \in 1 .. 1 + Len(strings)
    <3> HIDE DEF all
    <3> QED
      BY <1>10, <1>12, LenProperties
  <2>2. CASE i = 1
    <3>1. all[i] = first
      BY <1>8, <1>10, <2>1, <2>2
    <3> HIDE DEF all
    <3> QED
      BY <1>2, <1>4, <1>5, <3>1
  <2>3. CASE i # 1
    <3>1. i - 1 \in 1 .. Len(strings) /\ ~(i <= 1)
      BY <1>9, <2>1, <2>3
    <3>2. i - 1 \in DOMAIN strings /\ all[i] = strings[i - 1]
      BY <1>9, <1>10, <2>1, <3>1, LenProperties
    <3> HIDE DEF all
    <3> QED
      BY <1>6, <1>7, <3>2 DEF Kept
  <2> QED
    BY <2>2, <2>3
<1>13. Kept(text, all)
  <2> HIDE DEF all
  <2> QED
    BY <1>10, <1>11, <1>12 DEF Kept
<1> QED
  BY <1>13 DEF cut, first

\* splitTXTRecord keeps every text.
LEMMA SplitKeeps == \A text \in Texts : Kept(text, splitTXTRecord[text])
<1> DEFINE Bad == {text \in Texts : ~Kept(text, splitTXTRecord[text])}
           T == {Len(text) : text \in Bad}
<1> SUFFICES ASSUME Bad # {} PROVE FALSE
  OBVIOUS
<1>1. ASSUME NEW text \in Texts
      PROVE  /\ text \in Seq(Bytes) /\ Len(text) \in Nat
             /\ splitTXTRecord[text] = SplitBy(splitTXTRecord, text)
  BY SplitEquation, TextsAreSequences, LenProperties
<1>2. PICK text \in Bad : \A n \in T : Len(text) <= n
  <2>1. T \subseteq Nat /\ T # {}
    BY <1>1
  <2>2. PICK k \in T : \A n \in T : k <= n
    BY <2>1, LeastElement
  <2> QED
    BY <2>2
<1>3. CASE text = <<>>
  <2>1. splitTXTRecord[text] = <<>>
    BY <1>1, <1>2, <1>3 DEF SplitBy
  <2>2. Kept(text, <<>>)
    BY <1>3, FlattenNone DEF Kept
  <2> QED
    BY <1>2, <2>1, <2>2
<1>4. CASE text # <<>> /\ Len(text) <= MaxLength
  <2>1. splitTXTRecord[text] = <<text>>
    BY <1>1, <1>2, <1>4 DEF SplitBy
  <2>2. FlattenSeq(<<text>>) = text /\ <<text>> \in Seq(Seq(Bytes))
    BY <1>1, <1>2, FlattenOne
  <2>3. Len(text) \in 1 .. MaxLength
    BY <1>1, <1>2, <1>4, EmptySeq, TxtAssumption
  <2>4. \A i \in DOMAIN <<text>> : <<text>>[i] = text
    OBVIOUS
  <2>5. Kept(text, <<text>>)
    BY <2>2, <2>3, <2>4 DEF Kept
  <2> QED
    BY <1>2, <2>1, <2>5
<1>5. CASE text # <<>> /\ ~(Len(text) <= MaxLength)
  <2> DEFINE cut == CutPoint(text)
             rest == SubSeq(text, cut + 1, Len(text))
  <2>1. MaxLength < Len(text) /\ text \in Texts
    BY <1>1, <1>2, <1>5, TxtAssumption
  <2>2. cut \in 1 .. Len(text) /\ Len(text) - cut < Len(text)
    <3>1. cut \in 1 .. MaxLength
      BY <2>1, CutPointFits
    <3> QED
      BY <1>1, <2>1, <3>1, TxtAssumption
  <2>3. rest \in Texts /\ Len(rest) < Len(text)
    BY <2>1, <2>2, RestIsText
  <2>4. rest \notin Bad
    <3> HIDE DEF rest
    <3>1. Len(rest) \in Nat /\ Len(text) \in Nat
      BY <1>1, <2>1, <2>3
    <3> QED
      BY <1>2, <2>3, <3>1
  <2>5. Kept(rest, splitTXTRecord[rest])
    BY <2>3, <2>4
  <2>6. splitTXTRecord[text] = <<SubSeq(text, 1, cut)>> \o splitTXTRecord[rest]
    BY <1>1, <1>5, <2>1 DEF SplitBy
  <2>7. Kept(text, <<SubSeq(text, 1, cut)>> \o splitTXTRecord[rest])
    BY <2>1, <2>5, ConsKeeps
  <2> QED
    BY <1>2, <2>6, <2>7
<1> QED
  BY <1>3, <1>4, <1>5

\* splitTXTRecord loses nothing of a text, makes strings that fit, and cuts no
\* character of a valid text in two, for texts of any length.
THEOREM SplittingKeepsTexts == SplitKeepsTexts
  BY SplitKeeps DEF SplitKeepsTexts
=============================================================================
