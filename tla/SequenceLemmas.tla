--------------------------- MODULE SequenceLemmas ---------------------------
(* Induction on natural numbers, stated for a set of them, what it gives   *)
(* for recursive functions and for the largest and the smallest of a set,  *)
(* and the elements Only leaves of a sequence.                             *)
EXTENDS Subsequence, Functions, FiniteSetsExt, FiniteSetTheorems, TLAPS

----------------------------------------------------------------------------
(* Induction.  NaturalsInduction states it for an operator, which no       *)
(* prover here instantiates; for a set it follows from the pigeonhole      *)
(* principle: were k the number that is missing, n |-> n + 1 would map the *)
(* numbers below k that are in the set one to one into fewer.              *)

\* A set with 0 in it, and n + 1 with every n, holds every natural number.
LEMMA SetInduction ==
    ASSUME NEW S, 0 \in S, \A n \in Nat : n \in S => n + 1 \in S
    PROVE  Nat \subseteq S
<1>1. SUFFICES ASSUME NEW k \in Nat, k \notin S PROVE FALSE
  OBVIOUS
<1> DEFINE T == {n \in 0 .. k : n \in S}
           f == [n \in T |-> n + 1]
<1>2. IsFiniteSet(0 .. k)
  BY FS_Interval
<1>3. T \subseteq 0 .. k
  OBVIOUS
<1>4. IsFiniteSet(T)
  BY <1>2, <1>3, FS_Subset
<1>5. 0 \in T
  BY <1>1
<1>6. IsFiniteSet(T \ {0}) /\ Cardinality(T \ {0}) = Cardinality(T) - 1
  BY <1>4, <1>5, FS_RemoveElement
<1>7. Cardinality(T) \in Nat
  BY <1>4, FS_CardinalityType
<1>8. f \in [T -> T \ {0}]
  <2>1. ASSUME NEW n \in T PROVE n + 1 \in T \ {0}
    <3>1. n \in S /\ n # k /\ n \in 0 .. k
      BY <1>1
    <3>2. QED BY <3>1
  <2>2. QED BY <2>1
<1>9. \E x, y \in T : x # y /\ f[x] = f[y]
  <2> HIDE DEF T, f
  <2> QED BY <1>4, <1>6, <1>7, <1>8, FS_PigeonHole
<1>10. QED BY <1>9

\* ... up to a bound, and down from one.
LEMMA Upwards ==
    ASSUME NEW n \in Nat, NEW S, 0 \in S, \A i \in 1 .. n : i - 1 \in S => i \in S
    PROVE  0 .. n \subseteq S
<1> DEFINE U == {i \in Nat : i <= n => i \in S}
<1>1. 0 \in U
  OBVIOUS
<1>2. ASSUME NEW i \in Nat, i \in U PROVE i + 1 \in U
  <2>1. CASE i + 1 <= n
    <3>1. i + 1 \in 1 .. n /\ (i + 1) - 1 = i /\ i \in S
      BY <1>2, <2>1
    <3>2. QED BY <3>1
  <2>2. CASE ~(i + 1 <= n)
    BY <2>2
  <2>3. QED BY <2>1, <2>2
<1>3. Nat \subseteq U
  <2> HIDE DEF U
  <2> QED BY <1>1, <1>2, SetInduction
<1>4. QED BY <1>3

LEMMA Downwards ==
    ASSUME NEW n \in Nat, NEW S, n \in S, \A i \in 0 .. n - 1 : i + 1 \in S => i \in S
    PROVE  0 .. n \subseteq S
<1> DEFINE U == {i \in Nat : i <= n => n - i \in S}
<1>1. 0 \in U
  OBVIOUS
<1>2. ASSUME NEW i \in Nat, i \in U PROVE i + 1 \in U
  <2>1. CASE i + 1 <= n
    <3>1. n - (i + 1) \in 0 .. n - 1 /\ (n - (i + 1)) + 1 = n - i /\ n - i \in S
      BY <1>2, <2>1
    <3>2. QED BY <3>1
  <2>2. CASE ~(i + 1 <= n)
    BY <2>2
  <2>3. QED BY <2>1, <2>2
<1>3. Nat \subseteq U
  <2> HIDE DEF U
  <2> QED BY <1>1, <1>2, SetInduction
<1>4. ASSUME NEW i \in 0 .. n PROVE i \in S
  <2>1. n - i \in U /\ n - (n - i) = i /\ n - i <= n
    BY <1>3
  <2>2. QED BY <2>1
<1>5. QED BY <1>4

\* A function defined by recursion on 0 .. n exists.
Recurs(g, A, a, n, F) ==
  g \in [0 .. n -> A] /\ g[0] = a /\ \A i \in 1 .. n : g[i] = F[i][g[i - 1]]

LEMMA Recursion ==
  ASSUME NEW A, NEW a \in A, NEW n \in Nat, NEW F \in [1 .. n -> [A -> A]]
  PROVE  \E g : Recurs(g, A, a, n, F)
<1> DEFINE Is(g, k) == g \in [0 .. k -> A] /\ g[0] = a /\ \A i \in 1 .. k : g[i] = F[i][g[i - 1]]
           S == {k \in 0 .. n : \E g : Is(g, k)}
<1>1. 0 \in S
  <2>1. Is([i \in 0 .. 0 |-> a], 0)
    OBVIOUS
  <2> HIDE DEF Is
  <2>2. \E g : Is(g, 0)
    BY <2>1
  <2>3. QED BY <2>2
<1>2. ASSUME NEW k \in 1 .. n, k - 1 \in S PROVE k \in S
  <2>1. PICK g : Is(g, k - 1)
    BY <1>2
  <2> DEFINE h == [i \in 0 .. k |-> IF i < k THEN g[i] ELSE F[k][g[k - 1]]]
  <2>2. h \in [0 .. k -> A]
    <3>1. F[k][g[k - 1]] \in A
      BY <2>1
    <3>2. QED BY <2>1, <3>1
  <2>3. h[0] = a /\ \A i \in 1 .. k : h[i] = F[i][h[i - 1]]
    BY <2>1
  <2>4. Is(h, k)
    BY <2>2, <2>3
  <2> HIDE DEF Is, h
  <2>5. \E q : Is(q, k)
    BY <2>4
  <2>6. QED BY <2>5
<1>3. 0 .. n \subseteq S
  <2> HIDE DEF S, Is
  <2> QED BY <1>1, <1>2, Upwards
<1>4. PICK g : Is(g, n)
  <2> HIDE DEF Is
  <2> QED BY <1>3
<1>5. Recurs(g, A, a, n, F)
  BY <1>4 DEF Recurs
<1>6. QED BY <1>5

----------------------------------------------------------------------------
(* The largest and the smallest of a set of numbers.                       *)

\* What bounds a set and is in it is its maximum, or its minimum.
LEMMA MaxIs ==
  ASSUME NEW S \in SUBSET Int, NEW m \in S, \A x \in S : x <= m
  PROVE  Max(S) = m
<1>1. \A x \in S : m >= x
  OBVIOUS
<1>2. \A y \in S : (\A x \in S : y >= x) => y = m
  OBVIOUS
<1>3. QED BY <1>1, <1>2, Zenon DEF Max

LEMMA MinIs ==
  ASSUME NEW S \in SUBSET Int, NEW m \in S, \A x \in S : m <= x
  PROVE  Min(S) = m
<1>1. \A y \in S : (\A x \in S : y <= x) => y = m
  OBVIOUS
<1>2. QED BY <1>1, Zenon DEF Min

\* Between two numbers there are only finitely many: a set has both.
LEMMA HasMax ==
  ASSUME NEW n \in Nat, NEW S \in SUBSET (0 .. n), S # {}
  PROVE  Max(S) \in S /\ \A x \in S : x <= Max(S)
<1> DEFINE Top(k) == \E m \in S : \A x \in S : x <= k => x <= m
           I == {k \in 0 .. n : Top(k)}
<1>1. 0 \in I
  <2>1. PICK m \in S : TRUE
    OBVIOUS
  <2>2. QED BY <2>1
<1>2. ASSUME NEW k \in 1 .. n, k - 1 \in I PROVE k \in I
  <2>1. PICK m \in S : \A x \in S : x <= k - 1 => x <= m
    BY <1>2
  <2>2. CASE k \in S
    <3>1. \A x \in S : x <= k => x <= k
      OBVIOUS
    <3>2. QED BY <2>2, <3>1
  <2>3. CASE k \notin S
    <3>1. \A x \in S : x <= k => x <= m
      BY <2>1, <2>3
    <3>2. QED BY <3>1
  <2>4. QED BY <2>2, <2>3
<1>3. 0 .. n \subseteq I
  <2> HIDE DEF I
  <2> QED BY <1>1, <1>2, Upwards
<1>4. PICK m \in S : \A x \in S : x <= m
  <2>1. n \in I
    BY <1>3
  <2>2. QED BY <2>1
<1>5. Max(S) = m
  BY <1>4, MaxIs
<1>6. QED BY <1>4, <1>5

LEMMA HasMin ==
  ASSUME NEW n \in Nat, NEW S \in SUBSET (0 .. n), S # {}
  PROVE  Min(S) \in S /\ \A x \in S : Min(S) <= x
<1> DEFINE Down == {n - x : x \in S}
<1>1. Down \in SUBSET (0 .. n) /\ Down # {}
  <2>1. \A x \in S : n - x \in 0 .. n
    OBVIOUS
  <2>2. QED BY <2>1
<1>2. Max(Down) \in Down /\ \A y \in Down : y <= Max(Down)
  <2> HIDE DEF Down
  <2> QED BY <1>1, HasMax
<1>3. PICK m \in S : Max(Down) = n - m
  BY <1>2
<1>4. \A x \in S : n - x \in Down
  OBVIOUS
<1>5. \A x \in S : m <= x
  <2> HIDE DEF Down
  <2> QED BY <1>2, <1>3, <1>4
<1>6. Min(S) = m
  BY <1>5, MinIs
<1>7. QED BY <1>5, <1>6

----------------------------------------------------------------------------
\* Only does what its definition says.
LEMMA OnlyIs ==
  ASSUME NEW C, NEW seq \in Seq(C), NEW S
  PROVE  \E g \in [0 .. Len(seq) -> Seq(C)] :
           /\ Only(seq, S) = g[Len(seq)]
           /\ g[0] = <<>>
           /\ \A i \in 1 .. Len(seq) :
                g[i] = IF seq[i] \in S THEN Append(g[i - 1], seq[i]) ELSE g[i - 1]
<1> DEFINE n == Len(seq)
           A == Seq(C)
           With(s, e) == IF e \in S THEN Append(s, e) ELSE s
           F == [i \in 1 .. n |-> [s \in A |-> With(s, seq[i])]]
           Is(g) == g = [i \in 0 .. n |-> IF i = 0 THEN <<>> ELSE With(g[i - 1], seq[i])]
<1>1. F \in [1 .. n -> [A -> A]] /\ n \in Nat /\ <<>> \in A
  <2>1. \A e \in C, s \in A : With(s, e) \in A
    OBVIOUS
  <2>2. <<>> \in A /\ n \in Nat
    OBVIOUS
  <2> HIDE DEF With, A
  <2>3. QED BY <2>1, <2>2
<1>2. PICK f : Recurs(f, A, <<>>, n, F)
  <2> HIDE DEF F, n, A
  <2> QED BY <1>1, Recursion
<1>3. Is(f)
  <2> HIDE DEF With, A
  <2>1. ASSUME NEW i \in 1 .. n PROVE f[i] = With(f[i - 1], seq[i])
    <3>1. f[i - 1] \in A
      BY <1>2 DEF Recurs
    <3>2. F[i] = [s \in A |-> With(s, seq[i])]
      OBVIOUS
    <3>3. f[i] = F[i][f[i - 1]]
      BY <1>2 DEF Recurs
    <3> HIDE DEF F
    <3>4. QED BY <3>1, <3>2, <3>3
  <2>2. \A i \in 0 .. n : f[i] = IF i = 0 THEN <<>> ELSE With(f[i - 1], seq[i])
    BY <1>2, <2>1 DEF Recurs
  <2>3. f \in [0 .. n -> A]
    BY <1>2 DEF Recurs
  <2>4. QED BY <2>2, <2>3
<1>4. PICK g : g = CHOOSE k : Is(k)
  OBVIOUS
<1>5. Is(g)
  <2> HIDE DEF Is
  <2> QED BY <1>3, <1>4
<1>6. Only(seq, S) = g[Len(seq)]
  BY <1>4 DEF Only
<1> HIDE DEF With
<1>7. g[0] = <<>> /\ \A i \in 1 .. n : g[i] = With(g[i - 1], seq[i])
  BY <1>5
<1>8. \A i \in 0 .. n : g[i] \in A
  <2> DEFINE I == {i \in 0 .. n : g[i] \in A}
  <2>1. 0 \in I
    <3> HIDE DEF A, n
    <3> QED BY <1>1, <1>7
  <2>2. ASSUME NEW i \in 1 .. n, i - 1 \in I PROVE i \in I
    <3>1. With(g[i - 1], seq[i]) \in A
      BY <2>2 DEF With
    <3>2. QED BY <1>7, <3>1
  <2> HIDE DEF I, n
  <2>3. 0 .. n \subseteq I
    BY <2>1, <2>2, <1>1, Upwards
  <2>4. QED BY <2>3 DEF I
<1>9. g \in [0 .. n -> A]
  BY <1>5, <1>8
<1>10. QED
  BY <1>6, <1>7, <1>9 DEF With

\* What Only leaves are the elements of the set, each at its place in the order.
LEMMA OnlyKeepsOrder ==
  ASSUME NEW C, NEW seq \in Seq(C), NEW S
  PROVE  /\ Only(seq, S) \in Seq(C)
         /\ \E m \in [1 .. Len(Only(seq, S)) -> 1 .. Len(seq)] :
              /\ \A x, y \in 1 .. Len(Only(seq, S)) : x < y => m[x] < m[y]
              /\ \A x \in 1 .. Len(Only(seq, S)) : Only(seq, S)[x] = seq[m[x]] /\ seq[m[x]] \in S
              /\ \A j \in 1 .. Len(seq) : seq[j] \in S => \E x \in 1 .. Len(Only(seq, S)) : m[x] = j
<1> DEFINE n == Len(seq)
           Places(m, s, i) ==
              /\ s \in Seq(C)
              /\ m \in [1 .. Len(s) -> 1 .. i]
              /\ \A x, y \in 1 .. Len(s) : x < y => m[x] < m[y]
              /\ \A x \in 1 .. Len(s) : s[x] = seq[m[x]] /\ seq[m[x]] \in S
              /\ \A j \in 1 .. i : seq[j] \in S => \E x \in 1 .. Len(s) : m[x] = j
<1>1. PICK g \in [0 .. n -> Seq(C)] :
           /\ Only(seq, S) = g[n]
           /\ g[0] = <<>>
           /\ \A i \in 1 .. n :
                g[i] = IF seq[i] \in S THEN Append(g[i - 1], seq[i]) ELSE g[i - 1]
  BY OnlyIs
<1> DEFINE I == {i \in 0 .. n : \E m : Places(m, g[i], i)}
<1>2. 0 \in I
  <2>1. Places(<<>>, g[0], 0)
    BY <1>1
  <2>2. \E m : Places(m, g[0], 0)
    <3> HIDE DEF Places
    <3> QED BY <2>1
  <2>3. QED BY <2>2
<1>3. ASSUME NEW i \in 1 .. n, i - 1 \in I PROVE i \in I
  <2>1. PICK m : Places(m, g[i - 1], i - 1)
    BY <1>3
  <2> DEFINE s == g[i - 1]
             k == Len(s)
  <2>2. s \in Seq(C) /\ k \in Nat /\ seq[i] \in C
    BY <2>1
  <2>3. CASE seq[i] \in S
    <3>1. g[i] = Append(s, seq[i])
      BY <1>1, <2>3
    <3> DEFINE t == Append(s, seq[i])
               q == [x \in 1 .. k + 1 |-> IF x <= k THEN m[x] ELSE i]
    <3>2. t \in Seq(C) /\ Len(t) = k + 1 /\ t[k + 1] = seq[i] /\ \A x \in 1 .. k : t[x] = s[x]
      BY <2>2
    <3>3. \A x \in 1 .. k : m[x] \in 1 .. i - 1
      BY <2>1
    <3>4. q \in [1 .. k + 1 -> 1 .. i]
      BY <3>3, <2>2
    <3>5. \A x, y \in 1 .. k + 1 : x < y => q[x] < q[y]
      <4>1. TAKE x, y \in 1 .. k + 1
      <4>2. HAVE x < y
      <4>3. x \in 1 .. k
        BY <4>2, <2>2
      <4>4. CASE y = k + 1
        BY <4>4, <4>3, <3>3, <2>2
      <4>5. CASE y # k + 1
        <5>1. y \in 1 .. k
          BY <4>5, <2>2
        <5>2. QED BY <5>1, <4>2, <4>3, <2>1, <2>2
      <4>6. QED BY <4>4, <4>5
    <3>6. \A x \in 1 .. k + 1 : t[x] = seq[q[x]] /\ seq[q[x]] \in S
      <4>1. TAKE x \in 1 .. k + 1
      <4>2. CASE x = k + 1
        BY <4>2, <3>2, <2>2, <2>3
      <4>3. CASE x # k + 1
        <5>1. x \in 1 .. k
          BY <4>3, <2>2
        <5>2. QED BY <5>1, <3>2, <2>1, <2>2
      <4>4. QED BY <4>2, <4>3
    <3>7. \A j \in 1 .. i : seq[j] \in S => \E x \in 1 .. k + 1 : q[x] = j
      <4>1. TAKE j \in 1 .. i
      <4>2. HAVE seq[j] \in S
      <4>3. CASE j = i
        <5>1. k + 1 \in 1 .. k + 1 /\ q[k + 1] = i
          BY <2>2
        <5>2. QED BY <5>1, <4>3
      <4>4. CASE j # i
        <5>1. j \in 1 .. i - 1
          BY <4>4
        <5>2. PICK x \in 1 .. k : m[x] = j
          BY <5>1, <4>2, <2>1
        <5>3. x \in 1 .. k + 1 /\ q[x] = j
          BY <5>2, <2>2
        <5>4. QED BY <5>3
      <4>5. QED BY <4>3, <4>4
    <3>8. Places(q, t, i)
      <4> HIDE DEF q, t, s
      <4> QED BY <3>2, <3>4, <3>5, <3>6, <3>7
    <3> HIDE DEF Places, q, t
    <3>9. \E r : Places(r, g[i], i)
      BY <3>1, <3>8 DEF t
    <3>10. QED BY <3>9
  <2>4. CASE seq[i] \notin S
    <3>1. g[i] = s
      BY <1>1, <2>4
    <3>2. Places(m, s, i)
      BY <2>1, <2>4
    <3> HIDE DEF Places
    <3>3. \E r : Places(r, g[i], i)
      BY <3>1, <3>2
    <3>4. QED BY <3>3
  <2>5. QED BY <2>3, <2>4
<1>4. 0 .. n \subseteq I
  <2>1. n \in Nat
    OBVIOUS
  <2> HIDE DEF I, n
  <2>2. QED BY <1>2, <1>3, <2>1, Upwards
<1>5. n \in 0 .. n
  OBVIOUS
<1>6. PICK m : Places(m, g[n], n)
  <2> HIDE DEF Places, n
  <2> QED BY <1>4, <1>5
<1>7. Only(seq, S) = g[n] /\ g[n] \in Seq(C)
  BY <1>1, <1>6
<1> HIDE DEF n
<1> DEFINE o == Only(seq, S)
<1> HIDE DEF o
<1>8. Places(m, o, n)
  <2> HIDE DEF Places
  <2> QED BY <1>6, <1>7 DEF o
<1>9. \E w \in [1 .. Len(o) -> 1 .. n] :
         /\ \A x, y \in 1 .. Len(o) : x < y => w[x] < w[y]
         /\ \A x \in 1 .. Len(o) : o[x] = seq[w[x]] /\ seq[w[x]] \in S
         /\ \A j \in 1 .. n : seq[j] \in S => \E x \in 1 .. Len(o) : w[x] = j
  BY <1>8
<1>10. QED
  BY <1>8, <1>9 DEF n, o

\* Where the set holds the first elements, these are what Only leaves.
LEMMA OnlyPrefix ==
  ASSUME NEW C, NEW seq \in Seq(C), NEW S, NEW c \in 0 .. Len(seq),
         \A i \in 1 .. Len(seq) : seq[i] \in S <=> i <= c
  PROVE  /\ Only(seq, S) \in Seq(C) /\ Len(Only(seq, S)) = c
         /\ \A i \in 1 .. c : Only(seq, S)[i] = seq[i]
<1> DEFINE n == Len(seq)
           First(t, k) == t \in Seq(C) /\ Len(t) = k /\ \A j \in 1 .. k : t[j] = seq[j]
<1>1. PICK g \in [0 .. n -> Seq(C)] :
           /\ Only(seq, S) = g[n]
           /\ g[0] = <<>>
           /\ \A i \in 1 .. n :
                g[i] = IF seq[i] \in S THEN Append(g[i - 1], seq[i]) ELSE g[i - 1]
  BY OnlyIs
<1>2. n \in Nat /\ c \in 0 .. n
  OBVIOUS
<1> DEFINE I == {i \in 0 .. n : First(g[i], IF i <= c THEN i ELSE c)}
<1>3. 0 \in I
  BY <1>1, <1>2
<1>4. ASSUME NEW i \in 1 .. n, i - 1 \in I PROVE i \in I
  <2> DEFINE t == g[i - 1]
  <2>1. CASE i <= c
    <3>1. t \in Seq(C) /\ Len(t) = i - 1 /\ \A j \in 1 .. i - 1 : t[j] = seq[j]
      BY <1>2, <1>4, <2>1
    <3>2. g[i] = Append(t, seq[i]) /\ seq[i] \in C
      <4>1. i \in 1 .. Len(seq)
        BY <1>2
      <4>2. seq[i] \in S /\ seq[i] \in C
        BY <2>1, <4>1
      <4>3. QED BY <1>1, <4>2
    <3> HIDE DEF t
    <3>3. g[i] \in Seq(C) /\ Len(g[i]) = i /\ g[i][i] = seq[i] /\ \A j \in 1 .. i - 1 : g[i][j] = t[j]
      BY <3>1, <3>2
    <3>4. \A j \in 1 .. i : j = i \/ j \in 1 .. i - 1
      OBVIOUS
    <3>5. QED BY <2>1, <3>1, <3>3, <3>4
  <2>2. CASE ~(i <= c)
    <3>1. First(t, c)
      BY <1>2, <1>4, <2>2
    <3>2. g[i] = t
      BY <1>1, <2>2
    <3>3. QED BY <2>2, <3>1, <3>2
  <2>3. QED BY <2>1, <2>2
<1>5. 0 .. n \subseteq I
  <2> HIDE DEF I, n
  <2> QED BY <1>2, <1>3, <1>4, Upwards
<1>6. First(g[n], c)
  <2>1. n \in I
    BY <1>2, <1>5
  <2>2. CASE n <= c
    BY <1>2, <2>1, <2>2
  <2>3. CASE ~(n <= c)
    BY <2>1, <2>3
  <2>4. QED BY <2>2, <2>3
<1>7. QED BY <1>1, <1>6

\* Where the set holds every element, Only leaves the sequence as it is.
LEMMA OnlyAll ==
  ASSUME NEW C, NEW seq \in Seq(C), NEW S, \A i \in 1 .. Len(seq) : seq[i] \in S
  PROVE  Only(seq, S) = seq
<1> DEFINE o == Only(seq, S)
<1>1. Len(seq) \in 0 .. Len(seq) /\ \A i \in 1 .. Len(seq) : seq[i] \in S <=> i <= Len(seq)
  OBVIOUS
<1>2. o \in Seq(C) /\ Len(o) = Len(seq) /\ \A i \in 1 .. Len(seq) : o[i] = seq[i]
  BY <1>1, OnlyPrefix
<1> HIDE DEF o
<1>3. o = seq
  BY <1>2
<1>4. QED BY <1>3 DEF o

\* What leaves out nothing leaves everything.
LEMMA OnlyFull ==
  ASSUME NEW C, NEW seq \in Seq(C), NEW S
  PROVE  /\ Len(Only(seq, S)) <= Len(seq)
         /\ Len(Only(seq, S)) = Len(seq) => Only(seq, S) = seq
<1> DEFINE o == Only(seq, S)
<1>0. o \in Seq(C)
  BY OnlyKeepsOrder
<1>1. PICK m \in [1 .. Len(o) -> 1 .. Len(seq)] :
              /\ \A x, y \in 1 .. Len(o) : x < y => m[x] < m[y]
              /\ \A x \in 1 .. Len(o) : o[x] = seq[m[x]] /\ seq[m[x]] \in S
              /\ \A j \in 1 .. Len(seq) : seq[j] \in S => \E x \in 1 .. Len(o) : m[x] = j
  BY OnlyKeepsOrder, SMTT(30)
<1> HIDE DEF o
<1> DEFINE n == Len(seq)
           k == Len(o)
<1>2. o \in Seq(C) /\ k \in Nat /\ n \in Nat
  BY <1>0
<1>3. \A x \in 1 .. k : m[x] \in 1 .. n
  BY <1>1
<1>4. \A x \in 1 .. k : x <= m[x]
  <2> DEFINE I == {x \in 0 .. k : x = 0 \/ x <= m[x]}
  <2>1. 0 \in I
    BY <1>2
  <2>2. ASSUME NEW x \in 1 .. k, x - 1 \in I PROVE x \in I
    <3>1. CASE x = 1
      BY <1>2, <1>3, <3>1
    <3>2. CASE x # 1
      <4>1. x - 1 \in 1 .. k /\ x - 1 < x
        BY <1>2, <3>2
      <4>2. x - 1 <= m[x - 1] /\ m[x - 1] < m[x] /\ m[x - 1] \in 1 .. n /\ m[x] \in 1 .. n
        BY <1>1, <1>3, <2>2, <4>1
      <4>3. x <= m[x]
        BY <1>2, <4>2
      <4>4. QED BY <4>3
    <3>3. QED BY <3>1, <3>2
  <2> HIDE DEF I
  <2>3. 0 .. k \subseteq I
    BY <1>2, <2>1, <2>2, Upwards
  <2>4. ASSUME NEW x \in 1 .. k PROVE x <= m[x]
    <3>1. x \in 0 .. k /\ x # 0
      BY <1>2
    <3>2. QED BY <2>3, <3>1 DEF I
  <2>5. QED BY <2>4
<1>5. k <= n
  <2>1. CASE k = 0
    BY <1>2, <2>1
  <2>2. CASE k # 0
    <3>1. k \in 1 .. k
      BY <1>2, <2>2
    <3>2. QED BY <1>2, <1>3, <1>4, <3>1
  <2>3. QED BY <2>1, <2>2
<1>6. ASSUME k = n PROVE o = seq
  <2>1. \A x \in 1 .. n : m[x] = x
    <3> DEFINE I == {x \in 0 .. n : x = 0 \/ m[x] <= x}
    <3>1. n \in I
      BY <1>2, <1>3, <1>6
    <3>2. ASSUME NEW x \in 0 .. n - 1, x + 1 \in I PROVE x \in I
      <4>1. CASE x = 0
        BY <1>2, <4>1
      <4>2. CASE x # 0
        <5>1. x \in 1 .. k /\ x + 1 \in 1 .. k /\ x < x + 1
          BY <1>2, <1>6, <4>2
        <5>2. m[x] < m[x + 1] /\ m[x + 1] <= x + 1 /\ m[x] \in 1 .. n /\ m[x + 1] \in 1 .. n
          BY <1>1, <1>3, <3>2, <5>1
        <5>3. m[x] <= x
          BY <1>2, <5>2
        <5>4. QED BY <1>2, <5>3
      <4>3. QED BY <4>1, <4>2
    <3> HIDE DEF I
    <3>3. 0 .. n \subseteq I
      BY <1>2, <3>1, <3>2, Downwards
    <3>4. ASSUME NEW x \in 1 .. n PROVE m[x] = x
      <4>1. x \in 0 .. n /\ x # 0 /\ x \in 1 .. k
        BY <1>2, <1>6
      <4>2. m[x] <= x
        BY <3>3, <4>1 DEF I
      <4>3. QED BY <1>2, <1>3, <1>4, <4>1, <4>2
    <3>5. QED BY <3>4
  <2>2. \A x \in 1 .. n : o[x] = seq[x]
    BY <1>1, <1>6, <2>1
  <2>3. QED BY <1>2, <1>6, <2>2
<1>7. QED BY <1>5, <1>6 DEF o

\* Where it holds every element but one, that one is gone.
ButOne(o, seq, C, n) ==
  /\ o \in Seq(C) /\ Len(o) = Len(seq) - 1
  /\ \A i \in 1 .. n - 1 : o[i] = seq[i]
  /\ \A i \in n .. Len(seq) - 1 : o[i] = seq[i + 1]

LEMMA OnlyButOne ==
  ASSUME NEW C, NEW seq \in Seq(C), NEW S, NEW n \in 1 .. Len(seq),
         \A i \in 1 .. Len(seq) : seq[i] \in S <=> i # n
  PROVE  ButOne(Only(seq, S), seq, C, n)
<1> DEFINE l == Len(seq)
           First(t, k) == t \in Seq(C) /\ Len(t) = k /\ \A j \in 1 .. k : t[j] = seq[j]
           Rest(t, k) == /\ t \in Seq(C) /\ Len(t) = k - 1
                         /\ \A j \in 1 .. n - 1 : t[j] = seq[j]
                         /\ \A j \in n .. k - 1 : t[j] = seq[j + 1]
<1>1. PICK g \in [0 .. l -> Seq(C)] :
           /\ Only(seq, S) = g[l]
           /\ g[0] = <<>>
           /\ \A i \in 1 .. l :
                g[i] = IF seq[i] \in S THEN Append(g[i - 1], seq[i]) ELSE g[i - 1]
  BY OnlyIs
<1>2. l \in Nat /\ n \in 1 .. l /\ \A i \in 1 .. l : seq[i] \in C
  OBVIOUS
<1> DEFINE I == {i \in 0 .. l : (i < n => First(g[i], i)) /\ (n <= i => Rest(g[i], i))}
<1>3. 0 \in I
  BY <1>1, <1>2
<1>4. ASSUME NEW i \in 1 .. l, i - 1 \in I PROVE i \in I
  <2> DEFINE t == g[i - 1]
  <2>1. CASE i < n
    <3>1. First(t, i - 1) /\ g[i] = Append(t, seq[i]) /\ seq[i] \in C
      <4>1. First(t, i - 1)
        BY <1>2, <1>4, <2>1
      <4>2. i \in 1 .. Len(seq) /\ i # n
        BY <1>2, <2>1
      <4>3. seq[i] \in S /\ seq[i] \in C
        BY <4>2
      <4> HIDE DEF First
      <4>4. QED BY <1>1, <4>1, <4>3
    <3> HIDE DEF t
    <3>2. g[i] \in Seq(C) /\ Len(g[i]) = i /\ g[i][i] = seq[i] /\ \A j \in 1 .. i - 1 : g[i][j] = t[j]
      BY <3>1
    <3>3. \A j \in 1 .. i : j = i \/ j \in 1 .. i - 1
      OBVIOUS
    <3>4. First(g[i], i)
      BY <3>1, <3>2, <3>3
    <3>5. ~(n <= i)
      BY <1>2, <2>1
    <3> HIDE DEF First, Rest
    <3>6. QED BY <3>4, <3>5
  <2>2. CASE i = n
    <3>1. First(t, i - 1) /\ g[i] = t
      BY <1>1, <1>2, <1>4, <2>2
    <3> HIDE DEF t
    <3>2. Rest(g[i], i)
      BY <1>2, <2>2, <3>1
    <3>3. ~(i < n)
      BY <1>2, <2>2
    <3> HIDE DEF First, Rest
    <3>4. QED BY <3>2, <3>3
  <2>3. CASE n < i
    <3>1. Rest(t, i - 1) /\ g[i] = Append(t, seq[i]) /\ seq[i] \in C
      <4>1. Rest(t, i - 1)
        BY <1>2, <1>4, <2>3
      <4>2. i \in 1 .. Len(seq) /\ i # n
        BY <1>2, <2>3
      <4>3. seq[i] \in S /\ seq[i] \in C
        BY <4>2
      <4> HIDE DEF Rest
      <4>4. QED BY <1>1, <4>1, <4>3
    <3> HIDE DEF t
    <3>2. g[i] \in Seq(C) /\ Len(g[i]) = i - 1 /\ g[i][i - 1] = seq[i]
          /\ \A j \in 1 .. i - 2 : g[i][j] = t[j]
      BY <3>1
    <3>3. \A j \in 1 .. n - 1 : j \in 1 .. i - 2
      BY <1>2, <2>3
    <3>4. \A j \in n .. i - 1 : (j = i - 1 /\ j + 1 = i) \/ (j \in 1 .. i - 2 /\ j \in n .. (i - 1) - 1)
      BY <1>2, <2>3
    <3>5. \A j \in 1 .. n - 1 : g[i][j] = seq[j]
      BY <3>1, <3>2, <3>3
    <3>6. \A j \in n .. i - 1 : g[i][j] = seq[j + 1]
      <4>1. TAKE j \in n .. i - 1
      <4>2. CASE j = i - 1 /\ j + 1 = i
        BY <3>2, <4>2
      <4>3. CASE j \in 1 .. i - 2 /\ j \in n .. (i - 1) - 1
        BY <3>1, <3>2, <4>3
      <4>4. QED BY <3>4, <4>2, <4>3
    <3>7. Rest(g[i], i)
      BY <3>2, <3>5, <3>6
    <3>8. ~(i < n)
      BY <1>2, <2>3
    <3> HIDE DEF First, Rest
    <3>9. QED BY <3>7, <3>8
  <2>4. QED BY <1>2, <2>1, <2>2, <2>3
<1>5. 0 .. l \subseteq I
  <2> HIDE DEF I, l
  <2> QED BY <1>2, <1>3, <1>4, Upwards
<1>6. Rest(g[l], l)
  BY <1>2, <1>5
<1>7. QED BY <1>1, <1>6 DEF ButOne

\* What a sequence holds is what one of its places holds.
LEMMA RangeFacts ==
  ASSUME NEW C, NEW seq \in Seq(C)
  PROVE  /\ Range(seq) \subseteq C
         /\ \A x : x \in Range(seq) <=> \E i \in 1 .. Len(seq) : seq[i] = x
BY DEF Range

\* A sequence over any set is one over what it holds.
LEMMA SeqOverRange ==
  ASSUME NEW C, NEW q \in Seq(C)
  PROVE  q \in Seq(Range(q))
BY DEF Range

\* The empty sequence holds nothing.
LEMMA RangeEmpty == Range(<<>>) = {}
BY DEF Range

\* One more at the end.
LEMMA AppendRange ==
  ASSUME NEW C, NEW seq \in Seq(C), NEW c \in C
  PROVE  Append(seq, c) \in Seq(C) /\ Range(Append(seq, c)) = Range(seq) \cup {c}
<1>1. /\ Append(seq, c) \in Seq(C) /\ Len(Append(seq, c)) = Len(seq) + 1 /\ Len(seq) \in Nat
      /\ Append(seq, c)[Len(seq) + 1] = c /\ \A i \in 1 .. Len(seq) : Append(seq, c)[i] = seq[i]
  OBVIOUS
<1> DEFINE a == Append(seq, c)
<1> HIDE DEF a
<1>2. \A i \in 1 .. Len(seq) + 1 : i \in 1 .. Len(seq) \/ i = Len(seq) + 1
  BY <1>1
<1>3. a \in Seq(C) /\ Len(a) = Len(seq) + 1 /\ \A i \in 1 .. Len(seq) : i \in 1 .. Len(a) /\ a[i] = seq[i]
  BY <1>1 DEF a
<1>4. Len(a) \in 1 .. Len(a) /\ a[Len(a)] = c
  BY <1>1 DEF a
<1>5. \A x : x \in Range(a) => x \in Range(seq) \/ x = c
  BY <1>2, <1>3, <1>4, RangeFacts
<1>6. \A x : x \in Range(seq) => x \in Range(a)
  BY <1>3, RangeFacts
<1>7. c \in Range(a)
  BY <1>3, <1>4, RangeFacts
<1>8. QED BY <1>3, <1>5, <1>6, <1>7 DEF a
=============================================================================
