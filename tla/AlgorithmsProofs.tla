-------------------------- MODULE AlgorithmsProofs --------------------------
(***************************************************************************)
(* For every input, not only the ones that are enumerated: the dates are   *)
(* those of the calendar, the marker of a binary is found iff it is there, *)
(* what base64 encodes comes back, a pattern matches what its doc says it  *)
(* does, and a grep shows, line by line, what it would of the whole text.  *)
(***************************************************************************)
EXTENDS Algorithms, WellFoundedInduction, SequenceTheorems, FiniteSetTheorems, TLAPS

-----------------------------------------------------------------------------
(* Sequences: induction over positions, folds, and one piece after another. *)

\* A non-empty set of naturals has a least element,
LEMMA Least ==
  ASSUME NEW T, T \subseteq Nat, T # {}
  PROVE  \E x \in T : \A y \in T : x <= y
<1>1. PICK x \in T : \A y \in T : ~ (<<y, x>> \in OpToRel(<, Nat))
  BY NatLessThanWellFounded, WFMin, Zenon
<1>2. \A y \in T : ~ (y < x)
  BY <1>1 DEF OpToRel
<1> QED BY <1>2

\* so that a set which goes on up to n reaches it.
LEMMA Induct ==
  ASSUME NEW n \in Nat, NEW P, 0 \in P, \A k \in 1..n : k - 1 \in P => k \in P
  PROVE  \A k \in 0..n : k \in P
<1> DEFINE T == {k \in 0..n : k \notin P}
<1>1. SUFFICES ASSUME T # {} PROVE FALSE
  OBVIOUS
<1>2. PICK k \in T : \A m \in T : k <= m
  <2>1. T \subseteq Nat
    OBVIOUS
  <2> HIDE DEF T
  <2> QED BY <1>1, <2>1, Least
<1>3. k \in 1..n /\ k - 1 \in 0..n /\ ~(k <= k - 1)
  OBVIOUS
<1>4. k - 1 \in P
  BY <1>2, <1>3
<1> QED BY <1>3, <1>4

\* The greatest of a set that ends with n.
LEMMA MaxOf ==
  ASSUME NEW n \in Nat, NEW T, T \subseteq 1..n, n \in T
  PROVE  Max(T) = n
<1>1. \E x \in T : \A y \in T : x >= y
  OBVIOUS
<1>2. Max(T) \in T /\ \A y \in T : Max(T) >= y
  BY <1>1 DEF Max
<1>3. Max(T) \in 1..n /\ Max(T) >= n
  BY <1>2
<1> QED BY <1>3

-----------------------------------------------------------------------------
(* What FoldLeft computes: a step F after the other from base on, where V   *)
(* holds every value on the way.                                            *)

\* The function a fold is defined by exists: it goes on from the base, step by step.
LEMMA FoldExists ==
  ASSUME NEW n \in Nat, NEW V, NEW base \in V, NEW F, \A v \in V, i \in 1..n : F[i][v] \in V
  PROVE  \E g : /\ g \in [SUBSET (1..n) -> V] /\ g[{}] = base
                /\ \A s \in SUBSET (1..n) : s # {} => g[s] = F[Max(s)][g[s \ {Max(s)}]]
                /\ \A s \in SUBSET (1..n) : s # {} => Max(s) \in 1..n /\ s \ {Max(s)} \in SUBSET (1..n)
<1> DEFINE Works(g, k) ==
             /\ g \in [SUBSET (1..k) -> V] /\ g[{}] = base
             /\ \A s \in SUBSET (1..k) : s # {} => g[s] = F[Max(s)][g[s \ {Max(s)}]]
             /\ \A s \in SUBSET (1..k) : s # {} => Max(s) \in 1..k /\ s \ {Max(s)} \in SUBSET (1..k)
           P == {k \in 0..n : \E g : Works(g, k)}
<1>1. 0 \in P
  <2> DEFINE g == [s \in SUBSET (1..0) |-> base]
  <2>1. 1..0 = {}
    OBVIOUS
  <2>2. Works(g, 0)
    BY <2>1
  <2> HIDE DEF g
  <2> QED BY <2>2
<1>2. ASSUME NEW k \in 1..n, k - 1 \in P PROVE k \in P
  <2>1. PICK g : Works(g, k - 1)
    BY <1>2
  <2> HIDE DEF Works
  <2> DEFINE new(s) == IF k \in s THEN F[k][g[s \ {k}]] ELSE g[s]
             h == [s \in SUBSET (1..k) |-> new(s)]
  <2>2. ASSUME NEW s \in SUBSET (1..k)
        PROVE  /\ k \in s => Max(s) = k /\ s \ {k} \in SUBSET (1..(k - 1))
               /\ k \notin s => s \in SUBSET (1..(k - 1))
    <3>1. k \in s => Max(s) = k
      <4>1. k \in Nat /\ s \subseteq 1..k
        OBVIOUS
      <4> QED BY <4>1, MaxOf
    <3>2. \A i \in s : i # k => i \in 1..(k - 1)
      OBVIOUS
    <3> QED BY <3>1, <3>2
  <2>3. ASSUME NEW s \in SUBSET (1..k) PROVE h[s] \in V
    <3>1. \A u \in SUBSET (1..(k - 1)) : g[u] \in V
      BY <2>1 DEF Works
    <3>2. h[s] = new(s)
      OBVIOUS
    <3> HIDE DEF h
    <3> QED BY <2>2, <3>1, <3>2
  <2>4. h[{}] = base
    BY <2>1 DEF Works
  <2>5. ASSUME NEW s \in SUBSET (1..k), s # {}
        PROVE  /\ h[s] = F[Max(s)][h[s \ {Max(s)}]]
               /\ Max(s) \in 1..k /\ s \ {Max(s)} \in SUBSET (1..k)
    <3>1. CASE k \in s
      <4>1. k \notin s \ {k} /\ s \ {k} \in SUBSET (1..k) /\ Max(s) = k
        BY <2>2, <3>1
      <4>2. h[s] = F[k][g[s \ {k}]] /\ h[s \ {k}] = g[s \ {k}]
        BY <3>1, <4>1
      <4> HIDE DEF h
      <4> QED BY <4>1, <4>2
    <3>2. CASE k \notin s
      <4>1. s \in SUBSET (1..(k - 1))
        BY <2>2, <3>2
      <4>2. /\ g[s] = F[Max(s)][g[s \ {Max(s)}]]
            /\ Max(s) \in 1..(k - 1) /\ s \ {Max(s)} \in SUBSET (1..(k - 1))
        BY <2>1, <2>5, <4>1 DEF Works
      <4>3. h[s] = g[s] /\ h[s \ {Max(s)}] = g[s \ {Max(s)}]
        BY <3>2
      <4>4. Max(s) \in 1..k /\ s \ {Max(s)} \in SUBSET (1..k)
        BY <4>2
      <4> HIDE DEF h
      <4> QED BY <4>2, <4>3, <4>4
    <3> QED BY <3>1, <3>2
  <2>6. h \in [SUBSET (1..k) -> V]
    BY <2>3
  <2> HIDE DEF h
  <2>7. Works(h, k)
    BY <2>4, <2>5, <2>6 DEF Works
  <2> QED BY <2>7
<1> HIDE DEF P
<1>3. n \in P
  <2>1. \A k \in 0..n : k \in P
    BY <1>1, <1>2, Induct
  <2> QED BY <2>1
<1> QED BY <1>3 DEF P

\* The first numbers, of which the fold takes the last.
LEMMA FirstNumbers ==
  ASSUME NEW n \in Nat, NEW k \in 1..n
  PROVE  /\ 1..k \in SUBSET (1..n) /\ 1..k # {} /\ Max(1..k) = k
         /\ (1..k) \ {Max(1..k)} = 1..(k - 1) /\ 1..(k - 1) \in SUBSET (1..n)
<1>1. 1..k \subseteq 1..n /\ k \in 1..k
  OBVIOUS
<1>2. Max(1..k) = k
  BY <1>1, MaxOf
<1>3. (1..k) \ {k} = 1..(k - 1)
  OBVIOUS
<1> QED BY <1>1, <1>2, <1>3

-----------------------------------------------------------------------------
(* What FlattenSeq computes: one piece after the other.                     *)

Joins(t, fs, n) == t[0] = <<>> /\ \A k \in 1..n : t[k] = t[k - 1] \o fs[k]

\* Each of the joined texts is a sequence of the same elements.
LEMMA JoinsTyped ==
  ASSUME NEW S, NEW n \in Nat, NEW fs, \A k \in 1..n : fs[k] \in Seq(S), NEW t, Joins(t, fs, n)
  PROVE  \A k \in 0..n : t[k] \in Seq(S)
<1> DEFINE P == {k \in 0..n : t[k] \in Seq(S)}
<1>1. 0 \in P
  <2>1. t[0] = <<>> /\ <<>> \in Seq(S) /\ 0 \in 0..n
    BY DEF Joins
  <2> QED BY <2>1
<1>2. \A k \in 1..n : k - 1 \in P => k \in P
  <2> SUFFICES ASSUME NEW k \in 1..n, k - 1 \in P PROVE k \in P
    OBVIOUS
  <2>1. t[k] = t[k - 1] \o fs[k] /\ fs[k] \in Seq(S) /\ t[k - 1] \in Seq(S)
    BY DEF Joins
  <2>2. t[k] \in Seq(S)
    BY <2>1
  <2> QED BY <2>2
<1> HIDE DEF P
<1>3. \A k \in 0..n : k \in P
  BY <1>1, <1>2, Induct
<1> QED BY <1>3 DEF P

\* FlattenSeq joins its pieces, from the first on.
LEMMA FlattenJoins ==
  ASSUME NEW S, NEW fs \in Seq(Seq(S))
  PROVE  \E t : /\ Joins(t, fs, Len(fs)) /\ FlattenSeq(fs) = t[Len(fs)]
                /\ \A k \in 0..Len(fs) : t[k] \in Seq(S)
<1> DEFINE n == Len(fs)
<1>1. n = Len(fs) /\ n \in Nat /\ \A k \in 1..n : fs[k] \in Seq(S)
  OBVIOUS
<1> DEFINE Upto(f, m) == \A k \in 1..m : f[k] = IF k = 1 THEN fs[k] ELSE f[k - 1] \o fs[k]
           Works(f, m) == f = [k \in 1..m |-> f[k]] /\ Upto(f, m)
           P == {m \in 0..n : \E f : Works(f, m)}
<1>2. 0 \in P
  <2> DEFINE f == [k \in 1..0 |-> <<>>]
  <2>1. Works(f, 0)
    OBVIOUS
  <2> HIDE DEF f, Works
  <2> QED BY <1>1, <2>1
<1>3. ASSUME NEW m \in 1..n, m - 1 \in P PROVE m \in P
  <2>1. PICK g : Works(g, m - 1)
    BY <1>3
  <2> DEFINE f == [k \in 1..m |-> IF k = m THEN (IF k = 1 THEN fs[k] ELSE g[k - 1] \o fs[k]) ELSE g[k]]
  <2>2. f = [k \in 1..m |-> f[k]]
    OBVIOUS
  <2>3. ASSUME NEW k \in 1..m PROVE f[k] = IF k = 1 THEN fs[k] ELSE f[k - 1] \o fs[k]
    <3>1. k # 1 => k - 1 \in 1..m /\ k - 1 # m /\ f[k - 1] = g[k - 1]
      BY <1>1
    <3>2. CASE k = m
      <4>1. f[k] = IF k = 1 THEN fs[k] ELSE g[k - 1] \o fs[k]
        BY <3>2
      <4> HIDE DEF f
      <4> QED BY <3>1, <4>1
    <3>3. CASE k # m
      <4>1. k \in 1..(m - 1) /\ f[k] = g[k]
        BY <1>1, <3>3
      <4>2. g[k] = IF k = 1 THEN fs[k] ELSE g[k - 1] \o fs[k]
        BY <2>1, <4>1
      <4> HIDE DEF f
      <4> QED BY <3>1, <4>1, <4>2
    <3> QED BY <3>2, <3>3
  <2> HIDE DEF f
  <2>4. Works(f, m)
    BY <2>2, <2>3
  <2> HIDE DEF Works
  <2> QED BY <2>4
<1> HIDE DEF P
<1>4. n \in P
  <2>1. \A k \in 0..n : k \in P
    BY <1>1, <1>2, <1>3, Induct, Zenon
  <2> QED BY <1>1, <2>1
<1>5. PICK f : f = [k \in 1..n |-> f[k]] /\ Upto(f, n)
  BY <1>4 DEF P
<1> DEFINE h == CHOOSE x : x = [k \in 1..n |-> IF k = 1 THEN fs[k] ELSE x[k - 1] \o fs[k]]
           t == [k \in 0..n |-> IF k = 0 THEN <<>> ELSE h[k]]
<1>6. h = [k \in 1..n |-> IF k = 1 THEN fs[k] ELSE h[k - 1] \o fs[k]]
  <2>1. f = [k \in 1..n |-> IF k = 1 THEN fs[k] ELSE f[k - 1] \o fs[k]]
    BY <1>5
  <2> QED BY <2>1, Zenon
<1>7. n # 0 => FlattenSeq(fs) = h[n]
  BY <1>1 DEF FlattenSeq
<1>8. n = 0 => FlattenSeq(fs) = <<>>
  BY <1>1 DEF FlattenSeq
<1> HIDE DEF h
<1> HIDE DEF n
<1>9. \A k \in 1..n : h[k] = IF k = 1 THEN fs[k] ELSE h[k - 1] \o fs[k]
  BY <1>6
<1>10. FlattenSeq(fs) = t[n]
  BY <1>1, <1>7, <1>8
<1>11. \A k \in 1..n : t[k] = t[k - 1] \o fs[k]
  <2> SUFFICES ASSUME NEW k \in 1..n PROVE t[k] = t[k - 1] \o fs[k]
    OBVIOUS
  <2>1. t[k] = h[k] /\ k - 1 \in 0..n /\ fs[k] \in Seq(S)
    BY <1>1
  <2>2. t[k - 1] = IF k = 1 THEN <<>> ELSE h[k - 1]
    BY <1>1
  <2>3. <<>> \o fs[k] = fs[k]
    BY <2>1
  <2> HIDE DEF t
  <2> QED BY <1>9, <2>1, <2>2, <2>3
<1>12. t[0] = <<>>
  BY <1>1
<1> HIDE DEF t
<1>13. Joins(t, fs, n)
  BY <1>11, <1>12 DEF Joins
<1> QED BY <1>1, <1>10, <1>13, JoinsTyped

-----------------------------------------------------------------------------
(* The calendar: a year is counted from March, in an era of 400 years.      *)

YearOf(doe) == (doe - doe \div 1460 + doe \div 36524 - doe \div 146096) \div 365

\* Where the year y of an era begins; the next one begins 365 days later or,
\* when a 29th of February lies between, 366.
Begins(y) == 365 * y + y \div 4 - y \div 100
EndsLeap(y) == y % 4 = 3 /\ (y % 100 # 99 \/ y = 399)

\* The quotients and remainders that decide a leap year.
LEMMA Quarters ==
  ASSUME NEW y \in Int
  PROVE  /\ y \div 4 \in Int /\ 4 * (y \div 4) <= y /\ y <= 4 * (y \div 4) + 3
         /\ y % 4 = 3 <=> y = 4 * (y \div 4) + 3
         /\ y \div 100 \in Int /\ 100 * (y \div 100) <= y /\ y <= 100 * (y \div 100) + 99
         /\ y % 100 = 99 <=> y = 100 * (y \div 100) + 99
<1>1. /\ y \div 4 \in Int /\ 4 * (y \div 4) <= y /\ y <= 4 * (y \div 4) + 3
      /\ y \div 100 \in Int /\ 100 * (y \div 100) <= y /\ y <= 100 * (y \div 100) + 99
  BY SMT
<1>2. y % 4 = 3 <=> y = 4 * (y \div 4) + 3
  BY SMT
<1>3. y % 100 = 99 <=> y = 100 * (y \div 100) + 99
  BY SMT
<1> QED BY <1>1, <1>2, <1>3, SMT

\* The arithmetic of it, with quotients as unknowns.
LEMMA YearBounds ==
  ASSUME NEW doe \in Int, 0 <= doe, doe <= 146095, NEW a \in Int, NEW b \in Int,
         1460 * a <= doe, doe <= 1460 * a + 1459, 36524 * b <= doe, doe <= 36524 * b + 36523,
         NEW y \in Int, 365 * y <= doe - a + b, doe - a + b <= 365 * y + 364,
         NEW p \in Int, 4 * p <= y, y <= 4 * p + 3, NEW q \in Int, 100 * q <= y, y <= 100 * q + 99
  PROVE  /\ 0 <= y /\ y <= 399 /\ 365 * y + p - q <= doe /\ doe <= 365 * y + p - q + 365
         /\ doe = 365 * y + p - q + 365 => y = 4 * p + 3 /\ (y # 100 * q + 99 \/ y = 399)
BY SMT

\* A year begins on a day.
LEMMA BeginsInt ==
  ASSUME NEW y \in Int
  PROVE  Begins(y) \in Int
BY SMT DEF Begins

\* Of each day of an era, the year it is in.
LEMMA YearOfEra ==
  ASSUME NEW doe \in Nat, doe <= 146096
  PROVE  /\ YearOf(doe) \in Nat /\ YearOf(doe) <= 399
         /\ Begins(YearOf(doe)) <= doe /\ doe <= Begins(YearOf(doe)) + 365
         /\ doe = Begins(YearOf(doe)) + 365 => EndsLeap(YearOf(doe))
<1>1. PICK a, b, c, y : /\ a = doe \div 1460 /\ b = doe \div 36524 /\ c = doe \div 146096
                        /\ y = YearOf(doe)
  BY SMT
<1>2. a \in Int /\ 1460 * a <= doe /\ doe <= 1460 * a + 1459
  BY <1>1, SMT
<1>3. b \in Int /\ 36524 * b <= doe /\ doe <= 36524 * b + 36523
  BY <1>1, SMT
<1>4. c \in Int /\ 146096 * c <= doe /\ doe <= 146096 * c + 146095
  BY <1>1, SMT
<1>5. y \in Int /\ 365 * y <= doe - a + b - c /\ doe - a + b - c <= 365 * y + 364
  <2>1. y = (doe - a + b - c) \div 365
    BY <1>1, SMT DEF YearOf
  <2> QED BY <1>2, <1>3, <1>4, <2>1, SMT
<1>6. PICK p, q : p = y \div 4 /\ q = y \div 100
  BY SMT
<1>7. /\ p \in Int /\ 4 * p <= y /\ y <= 4 * p + 3 /\ (y % 4 = 3 <=> y = 4 * p + 3)
      /\ q \in Int /\ 100 * q <= y /\ y <= 100 * q + 99 /\ (y % 100 = 99 <=> y = 100 * q + 99)
  BY <1>5, <1>6, Quarters
<1>8. c = 0 \/ doe = 146096
  BY <1>4, SMT
<1>9. /\ 0 <= y /\ y <= 399 /\ 365 * y + p - q <= doe /\ doe <= 365 * y + p - q + 365
      /\ doe = 365 * y + p - q + 365 => y = 4 * p + 3 /\ (y # 100 * q + 99 \/ y = 399)
  <2>1. CASE c = 0
    <3>1. doe <= 146095 /\ 365 * y <= doe - a + b /\ doe - a + b <= 365 * y + 364
      BY <1>2, <1>3, <1>4, <1>5, <1>8, <2>1, SMT
    <3> QED BY <1>2, <1>3, <1>5, <1>7, <3>1, YearBounds, SMT
  <2>2. CASE c # 0
    <3>1. doe = 146096 /\ c = 1 /\ a = 100 /\ b = 4
      BY <1>2, <1>3, <1>4, <1>8, <2>2, SMT
    <3>2. y = 399 /\ p = 99 /\ q = 3
      BY <1>5, <1>7, <3>1, SMT
    <3> QED BY <3>1, <3>2, SMT
  <2> QED BY <2>1, <2>2, SMT
<1> QED BY <1>1, <1>5, <1>6, <1>7, <1>9, SMT DEF Begins, EndsLeap

\* No year is shorter than 365 days.
LEMMA YearsApart ==
  ASSUME NEW y \in Int, NEW w \in Int, y <= w
  PROVE  Begins(w) - Begins(y) >= 365 * (w - y)
<1>1. /\ 4 * (y \div 4) <= y /\ y <= 4 * (y \div 4) + 3
      /\ 100 * (y \div 100) <= y /\ y <= 100 * (y \div 100) + 99
      /\ 4 * (w \div 4) <= w /\ w <= 4 * (w \div 4) + 3
      /\ 100 * (w \div 100) <= w /\ w <= 100 * (w \div 100) + 99
  BY Quarters, SMT
<1>2. w \div 4 - y \div 4 >= w \div 100 - y \div 100
  BY <1>1, SMT
<1> QED BY <1>2, SMT DEF Begins

\* Where two years of which one holds a day and the other the next day begin.
LEMMA NextBounds ==
  ASSUME NEW doe \in Int, 0 <= doe, doe <= 146095,
         NEW y \in Int, 0 <= y, y <= 399, NEW w \in Int, 0 <= w, w <= 399,
         Begins(y) <= doe, doe <= Begins(y) + 365, doe = Begins(y) + 365 => EndsLeap(y),
         Begins(w) <= doe + 1, doe + 1 <= Begins(w) + 365, doe + 1 = Begins(w) + 365 => EndsLeap(w)
  PROVE  \/ w = y /\ (doe - Begins(y) < 364 \/ (doe - Begins(y) = 364 /\ EndsLeap(y)))
         \/ /\ w = y + 1 /\ doe + 1 = Begins(w)
            /\ doe - Begins(y) = 365 \/ (doe - Begins(y) = 364 /\ ~EndsLeap(y))
<1> DEFINE p == y \div 4
           q == y \div 100
           r == w \div 4
           s == w \div 100
<1>4. /\ p \in Int /\ 4 * p <= y /\ y <= 4 * p + 3 /\ (y % 4 = 3 <=> y = 4 * p + 3)
      /\ q \in Int /\ 100 * q <= y /\ y <= 100 * q + 99 /\ (y % 100 = 99 <=> y = 100 * q + 99)
  BY Quarters, SMT
<1>5. /\ r \in Int /\ 4 * r <= w /\ w <= 4 * r + 3 /\ (w % 4 = 3 <=> w = 4 * r + 3)
      /\ s \in Int /\ 100 * s <= w /\ w <= 100 * s + 99 /\ (w % 100 = 99 <=> w = 100 * s + 99)
  BY Quarters, SMT
<1>6. Begins(y) \in Int /\ Begins(w) \in Int
  BY BeginsInt, SMT
<1>1. w = y \/ w = y + 1
  <2>1. y <= w
    <3>1. w < y => Begins(y) - Begins(w) >= 365
      BY <1>6, YearsApart, SMT
    <3> QED BY <1>6, <3>1, SMT
  <2>2. w <= y + 1
    <3>1. y + 1 < w => Begins(w) - Begins(y) >= 730
      BY <1>6, YearsApart, SMT
    <3> QED BY <1>6, <3>1, SMT
  <2> QED BY <2>1, <2>2, SMT
<1>2. CASE w = y
  BY <1>2, <1>6, SMT
<1>3. CASE w = y + 1
  <2>1. (r = p /\ y < 4 * p + 3) \/ (r = p + 1 /\ y = 4 * p + 3)
    BY <1>3, SMT
  <2>2. (s = q /\ y < 100 * q + 99) \/ (s = q + 1 /\ y = 100 * q + 99)
    BY <1>3, SMT
  <2>3. Begins(w) - Begins(y) = IF EndsLeap(y) THEN 366 ELSE 365
    <3>1. Begins(w) - Begins(y) = 365 + (r - p) - (s - q)
      BY <1>3, SMT DEF Begins
    <3>2. y # 399
      BY <1>3, SMT
    <3> QED BY <1>4, <2>1, <2>2, <3>1, <3>2, SMT DEF EndsLeap
  <2> QED BY <1>3, <1>6, <2>3, SMT
<1> QED BY <1>1, <1>2, <1>3, SMT

\* The day after is in the same year, or begins the next.
LEMMA YearGoesOn ==
  ASSUME NEW doe \in Nat, doe <= 146095
  PROVE  LET y == YearOf(doe)
             w == YearOf(doe + 1)
         IN  /\ y \in Nat /\ y <= 399 /\ w \in Nat /\ w <= 399
             /\ \/ w = y /\ (doe - Begins(y) < 364 \/ (doe - Begins(y) = 364 /\ EndsLeap(y)))
                \/ /\ w = y + 1 /\ doe + 1 = Begins(w)
                   /\ doe - Begins(y) = 365 \/ (doe - Begins(y) = 364 /\ ~EndsLeap(y))
<1>1. PICK y, w : y = YearOf(doe) /\ w = YearOf(doe + 1)
  BY SMT
<1>2. /\ y \in Nat /\ y <= 399 /\ Begins(y) <= doe /\ doe <= Begins(y) + 365
      /\ doe = Begins(y) + 365 => EndsLeap(y)
  BY <1>1, YearOfEra, SMT
<1>3. /\ w \in Nat /\ w <= 399 /\ Begins(w) <= doe + 1 /\ doe + 1 <= Begins(w) + 365
      /\ doe + 1 = Begins(w) + 365 => EndsLeap(w)
  <2>1. doe + 1 \in Nat /\ doe + 1 <= 146096
    BY SMT
  <2> QED BY <1>1, <2>1, YearOfEra, SMT
<1> QED BY <1>1, <1>2, <1>3, NextBounds, SMT

\* Of a day of the year, the month counted from March and the day of it.
MonthOf(doy) == (5 * doy + 2) \div 153
DayOf(doy) == doy - (153 * MonthOf(doy) + 2) \div 5 + 1

\* The day after is the next of its month, or the first of the next month.
LEMMA MonthGoesOn ==
  ASSUME NEW doy \in Int, 0 <= doy, doy <= 365
  PROVE  /\ MonthOf(doy) \in Int /\ 0 <= MonthOf(doy) /\ MonthOf(doy) <= 11
         /\ DayOf(doy) \in Int /\ 1 <= DayOf(doy)
         /\ MonthOf(doy) = 11 <=> doy >= 337
         /\ MonthOf(doy) = 11 => DayOf(doy) = doy - 336
         /\ MonthOf(doy) # 11 =>
              LET last == IF MonthOf(doy) \in {1, 3, 6, 8} THEN 30 ELSE 31
              IN  \/ DayOf(doy) < last /\ MonthOf(doy + 1) = MonthOf(doy) /\ DayOf(doy + 1) = DayOf(doy) + 1
                  \/ DayOf(doy) = last /\ MonthOf(doy + 1) = MonthOf(doy) + 1 /\ DayOf(doy + 1) = 1
<1>1. /\ MonthOf(doy) \in Int /\ MonthOf(doy + 1) \in Int
      /\ 153 * MonthOf(doy) <= 5 * doy + 2 /\ 5 * doy + 2 <= 153 * MonthOf(doy) + 152
      /\ 153 * MonthOf(doy + 1) <= 5 * doy + 7 /\ 5 * doy + 7 <= 153 * MonthOf(doy + 1) + 152
  BY SMT DEF MonthOf
<1>2. /\ DayOf(doy) = doy - (153 * MonthOf(doy) + 2) \div 5 + 1
      /\ DayOf(doy + 1) = doy + 1 - (153 * MonthOf(doy + 1) + 2) \div 5 + 1
  BY <1>1, SMT DEF DayOf
<1>3. PICK mp \in Int, mq \in Int, day \in Int, dayAfter \in Int :
        mp = MonthOf(doy) /\ mq = MonthOf(doy + 1) /\ day = DayOf(doy) /\ dayAfter = DayOf(doy + 1)
  BY <1>1, <1>2, SMT
<1>4. /\ 0 <= mp /\ mp <= 11 /\ 1 <= day
      /\ mp = 11 <=> doy >= 337
      /\ mp = 11 => day = doy - 336
      /\ mp # 11 => LET last == IF mp \in {1, 3, 6, 8} THEN 30 ELSE 31
                    IN  \/ day < last /\ mq = mp /\ dayAfter = day + 1
                        \/ day = last /\ mq = mp + 1 /\ dayAfter = 1
  <2>1. /\ 153 * mp <= 5 * doy + 2 /\ 5 * doy + 2 <= 153 * mp + 152
        /\ 153 * mq <= 5 * doy + 7 /\ 5 * doy + 7 <= 153 * mq + 152
        /\ day = doy - (153 * mp + 2) \div 5 + 1
        /\ dayAfter = doy + 1 - (153 * mq + 2) \div 5 + 1
    BY <1>1, <1>2, <1>3, SMT
  <2>2. \/ mp = 0 \/ mp = 1 \/ mp = 2 \/ mp = 3 \/ mp = 4 \/ mp = 5 \/ mp = 6
        \/ mp = 7 \/ mp = 8 \/ mp = 9 \/ mp = 10 \/ mp = 11
    BY <2>1, SMT
  <2>3. mq = mp \/ mq = mp + 1
    BY <2>1, SMT
  <2> QED BY <2>1, <2>2, <2>3, SMT
<1> QED BY <1>3, <1>4, SMT

\* The year ends in a leap year's February iff the next civil year is one.
CivilYear(y, era) == y + 1 + era * 400
YearsOfEra == 0..399

\* Counting from March puts the 29th of February at the end of a year.
LEMMA LeapYears ==
  ASSUME NEW y \in YearsOfEra, NEW era \in Int
  PROVE  LeapYear(CivilYear(y, era)) <=> EndsLeap(y)
<1>1. (y + 1 + era * 400) % 4 = 0 <=> y % 4 = 3
  BY SMT DEF YearsOfEra
<1>2. (y + 1 + era * 400) % 100 = 0 <=> y % 100 = 99
  BY SMT DEF YearsOfEra
<1>3. (y + 1 + era * 400) % 400 = 0 <=> y = 399
  BY SMT DEF YearsOfEra
<1> QED BY <1>1, <1>2, <1>3, SMT DEF LeapYear, EndsLeap, CivilYear

\* NextDay, by its three cases.
LEMMA NextDayIs ==
  ASSUME NEW year, NEW month, NEW day \in Int, NEW d, NEW last \in Int,
         d = [year |-> year, month |-> month, day |-> day], last = DaysIn(year, month)
  PROVE  /\ day < last => NextDay(d) = [year |-> year, month |-> month, day |-> day + 1]
         /\ ~(day < last) /\ day = last /\ month < 12 =>
              NextDay(d) = [year |-> year, month |-> month + 1, day |-> 1]
         /\ ~(day < last) /\ ~(month < 12) =>
              NextDay(d) = [year |-> year + 1, month |-> 1, day |-> 1]
<1>1. d.year = year /\ d.month = month /\ d.day = day
  OBVIOUS
<1>2. DaysIn(d.year, d.month) = last
  BY <1>1
<1>3. NextDay(d) = CASE day < last -> [d EXCEPT !.day = day + 1]
                     [] day = last /\ month < 12 -> [d EXCEPT !.day = 1, !.month = month + 1]
                     [] OTHER -> [year |-> year + 1, month |-> 1, day |-> 1]
  BY <1>1, <1>2 DEF NextDay
<1>4. CASE day < last
  <2>1. day # last
    BY <1>4
  <2>2. NextDay(d) = [d EXCEPT !.day = day + 1]
    BY <1>3, <1>4, <2>1, Zenon
  <2> QED BY <1>4, <2>2
<1>5. CASE ~(day < last) /\ day = last /\ month < 12
  <2>1. NextDay(d) = [d EXCEPT !.day = 1, !.month = month + 1]
    BY <1>3, <1>5
  <2> QED BY <1>5, <2>1
<1>6. CASE ~(day < last) /\ ~(month < 12)
  <2>1. NextDay(d) = [year |-> year + 1, month |-> 1, day |-> 1]
    BY <1>3, <1>6
  <2> QED BY <1>6, <2>1
<1> QED BY <1>4, <1>5, <1>6, Zenon

\* The days of a month, without CASE.
LEMMA DaysInIs ==
  ASSUME NEW y, NEW m, m \in 1..12
  PROVE  DaysIn(y, m) = IF m = 2 THEN IF LeapYear(y) THEN 29 ELSE 28
                        ELSE IF m \in {4, 6, 9, 11} THEN 30 ELSE 31
<1>1. CASE m = 2
  <2>1. DaysIn(y, m) = IF LeapYear(y) THEN 29 ELSE 28
    BY <1>1, SMT DEF DaysIn
  <2> QED BY <1>1, <2>1, Zenon
<1>2. CASE m # 2 /\ m \in {4, 6, 9, 11}
  <2>1. DaysIn(y, m) = 30
    BY <1>2, Zenon DEF DaysIn
  <2> QED BY <1>2, <2>1, Zenon
<1>3. CASE m # 2 /\ m \notin {4, 6, 9, 11}
  <2>1. DaysIn(y, m) = 31
    BY <1>3, Zenon DEF DaysIn
  <2> QED BY <1>3, <2>1, Zenon
<1> QED BY <1>1, <1>2, <1>3, Zenon

\* The date of the doy-th day of a year that begins in March.
DateOf(y, era, doy) ==
  LET month == IF MonthOf(doy) < 10 THEN MonthOf(doy) + 3 ELSE MonthOf(doy) - 9
  IN  [year |-> y + era * 400 + (IF month <= 2 THEN 1 ELSE 0), month |-> month, day |-> DayOf(doy)]

\* The date after it, in the same year or on the 1st of March of the next.
Follows(y, era, doy, w, fol, nex) ==
  /\ y \in YearsOfEra /\ era \in Int /\ doy \in Int /\ 0 <= doy /\ doy <= 365
  /\ w \in Int /\ fol \in Int
  /\ \/ w = y /\ fol = era /\ nex = doy + 1 /\ (doy < 364 \/ (doy = 364 /\ EndsLeap(y)))
     \/ /\ w + 400 * fol = y + 1 + 400 * era /\ nex = 0
        /\ (doy = 365 /\ EndsLeap(y)) \/ (doy = 364 /\ ~EndsLeap(y))

\* So the date that follows is the next day's.
LEMMA DateGoesOn ==
  ASSUME NEW y, NEW era, NEW doy, NEW w, NEW fol, NEW nex, Follows(y, era, doy, w, fol, nex)
  PROVE  DateOf(w, fol, nex) = NextDay(DateOf(y, era, doy))
<1>1. /\ y \in Int /\ 0 <= y /\ y <= 399 /\ era \in Int /\ doy \in Int /\ 0 <= doy /\ doy <= 365
      /\ w \in Int /\ fol \in Int
  BY DEF Follows, YearsOfEra
<1>2. \/ w = y /\ fol = era /\ nex = doy + 1 /\ (doy < 364 \/ (doy = 364 /\ EndsLeap(y)))
      \/ /\ w + 400 * fol = y + 1 + 400 * era /\ nex = 0
         /\ (doy = 365 /\ EndsLeap(y)) \/ (doy = 364 /\ ~EndsLeap(y))
  BY DEF Follows
<1>3. nex \in Int /\ 0 <= nex /\ nex <= 365
  BY <1>1, <1>2, SMT
<1>4. PICK mp, mq, day, dayAfter : /\ mp = MonthOf(doy) /\ mq = MonthOf(nex)
                                   /\ day = DayOf(doy) /\ dayAfter = DayOf(nex)
  OBVIOUS
<1>5. PICK month, monthAfter : /\ month = IF mp < 10 THEN mp + 3 ELSE mp - 9
                               /\ monthAfter = IF mq < 10 THEN mq + 3 ELSE mq - 9
  OBVIOUS
<1>6. PICK year, yearAfter : /\ year = y + era * 400 + (IF month <= 2 THEN 1 ELSE 0)
                             /\ yearAfter = w + fol * 400 + (IF monthAfter <= 2 THEN 1 ELSE 0)
  OBVIOUS
<1>7. PICK here, there : here = DateOf(y, era, doy) /\ there = DateOf(w, fol, nex)
  OBVIOUS
<1>8. /\ here = [year |-> year, month |-> month, day |-> day]
      /\ there = [year |-> yearAfter, month |-> monthAfter, day |-> dayAfter]
  BY <1>4, <1>5, <1>6, <1>7, Zenon DEF DateOf
<1>9. /\ mp \in Int /\ 0 <= mp /\ mp <= 11 /\ day \in Int /\ 1 <= day
      /\ mp = 11 <=> doy >= 337
      /\ mp = 11 => day = doy - 336
      /\ mp # 11 =>
           \/ /\ day < (IF mp \in {1, 3, 6, 8} THEN 30 ELSE 31)
              /\ MonthOf(doy + 1) = mp /\ DayOf(doy + 1) = day + 1
           \/ /\ day = IF mp \in {1, 3, 6, 8} THEN 30 ELSE 31
              /\ MonthOf(doy + 1) = mp + 1 /\ DayOf(doy + 1) = 1
  BY <1>1, <1>4, MonthGoesOn, SMT
<1>10. /\ mq \in Int /\ 0 <= mq /\ mq <= 11 /\ dayAfter \in Int
       /\ mq = 11 <=> nex >= 337
       /\ mq = 11 => dayAfter = nex - 336
  BY <1>3, <1>4, MonthGoesOn, SMT
<1>11. MonthOf(0) = 0 /\ DayOf(0) = 1
  BY SMT DEF MonthOf, DayOf
<1>12. mp = 11 => (LeapYear(year) <=> EndsLeap(y))
  <2>1. mp = 11 => year = y + 1 + era * 400
    BY <1>1, <1>5, <1>6, SMT
  <2>2. y \in YearsOfEra /\ era \in Int
    BY DEF Follows
  <2>3. LeapYear(CivilYear(y, era)) <=> EndsLeap(y)
    BY <2>2, LeapYears, Zenon
  <2>4. mp = 11 => year = CivilYear(y, era)
    BY <2>1 DEF CivilYear
  <2> QED BY <2>3, <2>4, Zenon
<1>13. /\ month \in 1..12 /\ (month = 2 <=> mp = 11)
       /\ month \in {4, 6, 9, 11} <=> mp \in {1, 3, 6, 8}
       /\ month < 12 <=> mp # 9
       /\ year \in Int
  BY <1>1, <1>5, <1>6, <1>9, SMT
<1>14. PICK last : last = DaysIn(year, month)
  OBVIOUS
<1>15. last = IF mp = 11 THEN IF EndsLeap(y) THEN 29 ELSE 28
              ELSE IF mp \in {1, 3, 6, 8} THEN 30 ELSE 31
  <2>1. last = IF month = 2 THEN IF LeapYear(year) THEN 29 ELSE 28
               ELSE IF month \in {4, 6, 9, 11} THEN 30 ELSE 31
    BY <1>13, <1>14, DaysInIs, SMT
  <2> QED BY <1>12, <1>13, <2>1, SMT
<1>16. /\ day < last => NextDay(here) = [year |-> year, month |-> month, day |-> day + 1]
       /\ ~(day < last) /\ day = last /\ month < 12 =>
            NextDay(here) = [year |-> year, month |-> month + 1, day |-> 1]
       /\ ~(day < last) /\ ~(month < 12) =>
            NextDay(here) = [year |-> year + 1, month |-> 1, day |-> 1]
  <2>1. last \in Int
    BY <1>15, SMT
  <2> QED BY <1>8, <1>9, <1>14, <2>1, NextDayIs, SMT
<1>17. CASE mp # 11
  <2>1. w = y /\ fol = era /\ nex = doy + 1
    BY <1>1, <1>2, <1>9, <1>17, SMT
  <2>2. mq = MonthOf(doy + 1) /\ dayAfter = DayOf(doy + 1)
    BY <1>4, <2>1, Zenon
  <2>3. CASE day < last /\ mq = mp /\ dayAfter = day + 1
    <3>1. yearAfter = year /\ monthAfter = month
      BY <1>5, <1>6, <2>1, <2>3, Zenon
    <3>2. there = NextDay(here)
      BY <1>8, <1>16, <2>3, <3>1, Zenon
    <3> QED BY <1>7, <3>2, Zenon
  <2>4. CASE day = last /\ mq = mp + 1 /\ dayAfter = 1
    <3>1. last \in Int
      BY <1>15, <1>17, SMT
    <3>2. ~(day < last)
      BY <2>4, <3>1, SMT
    <3>3. CASE mp # 9
      <4>1. yearAfter = year /\ monthAfter = month + 1 /\ month < 12
        BY <1>1, <1>5, <1>6, <1>9, <1>17, <2>1, <2>4, <3>3, SMT
      <4>2. there = NextDay(here)
        BY <1>8, <1>16, <2>4, <3>2, <4>1, Zenon
      <4> QED BY <1>7, <4>2, Zenon
    <3>4. CASE mp = 9
      <4>1. yearAfter = year + 1 /\ monthAfter = 1 /\ ~(month < 12)
        BY <1>1, <1>5, <1>6, <2>1, <2>4, <3>4, SMT
      <4>2. there = NextDay(here)
        BY <1>8, <1>16, <2>4, <3>2, <4>1, Zenon
      <4> QED BY <1>7, <4>2, Zenon
    <3> QED BY <3>3, <3>4, Zenon
  <2>5. \/ day < last /\ mq = mp /\ dayAfter = day + 1
        \/ day = last /\ mq = mp + 1 /\ dayAfter = 1
    BY <1>9, <1>15, <1>17, <2>2, SMT
  <2> QED BY <2>3, <2>4, <2>5
<1>18. CASE mp = 11
  <2>1. CASE w = y /\ fol = era /\ nex = doy + 1 /\ (doy < 364 \/ (doy = 364 /\ EndsLeap(y)))
    <3>1. mq = mp /\ dayAfter = day + 1
      BY <1>1, <1>9, <1>10, <1>18, <2>1, SMT
    <3>2. day < last
      BY <1>1, <1>9, <1>15, <1>18, <2>1, SMT
    <3>3. yearAfter = year /\ monthAfter = month
      BY <1>5, <1>6, <2>1, <3>1, Zenon
    <3>4. there = NextDay(here)
      BY <1>8, <1>16, <3>1, <3>2, <3>3, Zenon
    <3> QED BY <1>7, <3>4, Zenon
  <2>2. CASE /\ w + 400 * fol = y + 1 + 400 * era /\ nex = 0
             /\ (doy = 365 /\ EndsLeap(y)) \/ (doy = 364 /\ ~EndsLeap(y))
    <3>1. mq = 0 /\ dayAfter = 1
      BY <1>4, <1>11, <2>2, Zenon
    <3>2. day = last /\ ~(day < last)
      BY <1>1, <1>9, <1>15, <1>18, <2>2, SMT
    <3>3. yearAfter = year /\ monthAfter = month + 1 /\ month < 12
      BY <1>1, <1>5, <1>6, <1>18, <2>2, <3>1, SMT
    <3>4. there = NextDay(here)
      BY <1>8, <1>16, <3>1, <3>2, <3>3, Zenon
    <3> QED BY <1>7, <3>4, Zenon
  <2> QED BY <1>2, <2>1, <2>2
<1> QED BY <1>17, <1>18

LastOfEra == 146096

\* Of a day of an era, the day after: in the same era, or the first of the next.
LEMMA DayAfter ==
  ASSUME NEW era \in Int, NEW doe \in Nat, doe <= LastOfEra, NEW fol \in Int, NEW dof \in Nat,
         \/ fol = era /\ dof = doe + 1 /\ doe # LastOfEra
         \/ fol = era + 1 /\ dof = 0 /\ doe = LastOfEra
  PROVE  DateOf(YearOf(dof), fol, dof - Begins(YearOf(dof)))
           = NextDay(DateOf(YearOf(doe), era, doe - Begins(YearOf(doe))))
<1> DEFINE y == YearOf(doe)
           w == YearOf(dof)
           doy == doe - Begins(y)
           nex == dof - Begins(w)
<1>1. /\ y \in Int /\ 0 <= y /\ y <= 399 /\ doy \in Int /\ 0 <= doy /\ doy <= 365
      /\ doy = 365 => EndsLeap(y)
  BY YearOfEra, BeginsInt, SMT DEF LastOfEra
<1>2. /\ w \in Int /\ nex \in Int
      /\ \/ /\ w = y /\ fol = era /\ nex = doy + 1 /\ (doy < 364 \/ (doy = 364 /\ EndsLeap(y)))
         \/ /\ w + 400 * fol = y + 1 + 400 * era /\ nex = 0
            /\ (doy = 365 /\ EndsLeap(y)) \/ (doy = 364 /\ ~EndsLeap(y))
  <2>1. CASE doe # LastOfEra
    <3>1. doe <= 146095 /\ dof = doe + 1 /\ fol = era
      BY <2>1, SMT DEF LastOfEra
    <3>2. /\ w \in Nat
          /\ \/ w = y /\ (doy < 364 \/ (doy = 364 /\ EndsLeap(y)))
             \/ w = y + 1 /\ dof = Begins(w) /\ (doy = 365 \/ (doy = 364 /\ ~EndsLeap(y)))
      BY <3>1, YearGoesOn, SMT
    <3>3. Begins(w) \in Int /\ Begins(y) \in Int
      BY <1>1, <3>2, BeginsInt, SMT
    <3> QED BY <1>1, <3>1, <3>2, <3>3, SMT
  <2>2. CASE doe = LastOfEra
    <3>1. dof = 0 /\ fol = era + 1
      BY <2>2, SMT
    <3>2. y = 399 /\ w = 0
      BY <2>2, <3>1, SMT DEF YearOf, LastOfEra
    <3>3. Begins(399) = 145731 /\ Begins(0) = 0 /\ EndsLeap(399)
      BY SMT DEF Begins, EndsLeap
    <3> QED BY <2>2, <3>1, <3>2, <3>3, SMT DEF LastOfEra
  <2> QED BY <2>1, <2>2, SMT
<1>3. Follows(y, era, doy, w, fol, nex)
  BY <1>1, <1>2, SMT DEF Follows, YearsOfEra
<1> HIDE DEF y, w, doy, nex
<1>4. DateOf(w, fol, nex) = NextDay(DateOf(y, era, doy))
  BY <1>3, DateGoesOn, SMT
<1> QED BY <1>4, SMT DEF y, w, doy, nex

\* civil_from_days is right on every day there is, before the epoch as after
\* it: the date of the next day is the calendar's next date.
THEOREM EveryDayFollows ==
  ASSUME NEW z \in Int
  PROVE  CivilFromDays(z + 1) = NextDay(CivilFromDays(z))
<1> DEFINE n == z + 719468
           era == n \div 146097
           doe == n - era * 146097
           fol == (n + 1) \div 146097
           dof == n + 1 - fol * 146097
<1>1. /\ era \in Int /\ doe \in Nat /\ doe <= 146096 /\ fol \in Int /\ dof \in Nat
      /\ \/ fol = era /\ dof = doe + 1 /\ doe # 146096
         \/ fol = era + 1 /\ dof = 0 /\ doe = 146096
  BY SMT
<1>2. CivilFromDays(z) = DateOf(YearOf(doe), era, doe - Begins(YearOf(doe)))
  BY SMT DEF CivilFromDays, DateOf, YearOf, Begins, Doy, MonthOf, DayOf
<1>3. CivilFromDays(z + 1) = DateOf(YearOf(dof), fol, dof - Begins(YearOf(dof)))
  <2>1. z + 1 + 719468 = n + 1
    BY SMT
  <2> QED BY <2>1, SMT DEF CivilFromDays, DateOf, YearOf, Begins, Doy, MonthOf, DayOf
<1> HIDE DEF era, doe, fol, dof
<1>4. DateOf(YearOf(dof), fol, dof - Begins(YearOf(dof)))
        = NextDay(DateOf(YearOf(doe), era, doe - Begins(YearOf(doe))))
  BY <1>1, DayAfter, SMT DEF LastOfEra
<1> QED BY <1>2, <1>3, <1>4, SMT

\* Day 0 is the 1st of January 1970.
LEMMA Epoch == CivilFromDays(0) = [year |-> 1970, month |-> 1, day |-> 1]
BY SMT DEF CivilFromDays, Doy

\* One second after the last of a day, a zone one second east shows the next date.
LEMMA Midnight ==
  ASSUME NEW z \in Int
  PROVE  FormatDatetime(86400 * z + 86399, 1).date = FormatUtc(86400 * (z + 1)).date
<1>1. (86400 * z + 86399 + 1) \div 86400 = z + 1 /\ (86400 * (z + 1) + 0) \div 86400 = z + 1
  BY SMT
<1> QED BY <1>1, SMT DEF FormatDatetime, FormatUtc

-----------------------------------------------------------------------------
(* The scan of a binary for its marker.                                     *)

\* That a needle stands in a text, and where.
StandsAt(needle, text, i) ==
  /\ i \in Nat \ {0} /\ i + Len(needle) - 1 <= Len(text)
  /\ \A k \in 1..Len(needle) : text[i + k - 1] = needle[k]
Within(needle, text) == \E i \in Nat : StandsAt(needle, text, i)

\* The last m elements of a sequence, or all when it has less.
EndOf(c, text, m) ==
  /\ Len(c) = IF Len(text) > m THEN m ELSE Len(text)
  /\ \A j \in 1..Len(c) : c[j] = text[Len(text) - Len(c) + j]

\* A piece cut out of a text, compared element by element.
LEMMA SamePieces ==
  ASSUME NEW S, NEW text \in Seq(S), NEW needle \in Seq(S), NEW i \in Nat \ {0},
         i + Len(needle) - 1 <= Len(text)
  PROVE  SubSeq(text, i, i + Len(needle) - 1) = needle
           <=> \A k \in 1..Len(needle) : text[i + k - 1] = needle[k]
<1> DEFINE part == SubSeq(text, i, i + Len(needle) - 1)
<1>1. /\ part \in Seq(S) /\ Len(part) = Len(needle)
      /\ \A k \in 1..Len(needle) : part[k] = text[i + k - 1]
  OBVIOUS
<1> HIDE DEF part
<1>2. part = needle <=> \A k \in 1..Len(needle) : part[k] = needle[k]
  BY <1>1, SeqEqual
<1> QED BY <1>1, <1>2 DEF part

\* The search of one text (memchr and windows) finds the needle iff it is there.
LEMMA ContainsIsWithin ==
  ASSUME NEW S, NEW text \in Seq(S), NEW needle \in Seq(S), Len(needle) > 0
  PROVE  contains(text, needle) <=> Within(needle, text)
<1>1. ASSUME NEW i \in 1..Len(text), i + Len(needle) - 1 <= Len(text)
      PROVE  /\ i \in Nat \ {0}
             /\ SubSeq(text, i, i + Len(needle) - 1) = needle
                  <=> \A k \in 1..Len(needle) : text[i + k - 1] = needle[k]
  BY <1>1, SamePieces
<1>2. ASSUME contains(text, needle) PROVE Within(needle, text)
  <2>1. PICK i \in 1..Len(text) : /\ i + Len(needle) - 1 <= Len(text)
                                  /\ SubSeq(text, i, i + Len(needle) - 1) = needle
    BY <1>2 DEF contains
  <2>2. StandsAt(needle, text, i)
    BY <1>1, <2>1 DEF StandsAt
  <2> QED BY <2>2 DEF Within
<1>3. ASSUME Within(needle, text) PROVE contains(text, needle)
  <2>1. PICK i \in Nat : StandsAt(needle, text, i)
    BY <1>3 DEF Within
  <2>2. /\ i \in Nat \ {0} /\ i + Len(needle) - 1 <= Len(text)
        /\ \A k \in 1..Len(needle) : text[i + k - 1] = needle[k]
    BY <2>1 DEF StandsAt
  <2>3. i \in 1..Len(text) /\ 1 \in 1..Len(needle) /\ i + 1 - 1 = i
    BY <2>2
  <2>4. text[i] = needle[1]
    BY <2>2, <2>3
  <2> QED BY <1>1, <2>2, <2>3, <2>4 DEF contains
<1> QED BY <1>2, <1>3

\* What was in the text is still in it when more is read.
LEMMA StillWithin ==
  ASSUME NEW S, NEW text \in Seq(S), NEW chunk \in Seq(S), NEW needle, Len(needle) \in Nat,
         Within(needle, text)
  PROVE  Within(needle, text \o chunk)
<1>1. PICK i \in Nat : StandsAt(needle, text, i)
  BY DEF Within
<1>2. PICK l, n : l = Len(text) /\ n = Len(needle)
  OBVIOUS
<1>3. /\ l \in Nat /\ n \in Nat /\ i # 0 /\ i + n - 1 <= l
      /\ \A k \in 1..n : text[i + k - 1] = needle[k]
  BY <1>1, <1>2 DEF StandsAt
<1>4. /\ Len(text \o chunk) \in Nat /\ Len(text \o chunk) >= l
      /\ \A k \in 1..l : (text \o chunk)[k] = text[k]
  BY <1>2
<1>5. ASSUME NEW k \in 1..n PROVE (text \o chunk)[i + k - 1] = needle[k]
  <2>1. i + k - 1 \in 1..l
    BY <1>3
  <2> QED BY <1>3, <1>4, <2>1
<1>6. StandsAt(needle, text \o chunk, i)
  BY <1>2, <1>3, <1>4, <1>5 DEF StandsAt
<1> QED BY <1>6 DEF Within

\* One read more: what the new text holds that the old did not begins in what
\* was kept of it, or after.
LEMMA ReadMore ==
  ASSUME NEW S, NEW text \in Seq(S), NEW chunk \in Seq(S), NEW carry \in Seq(S),
         NEW needle \in Seq(S), Len(needle) > 0, ~Within(needle, text),
         EndOf(carry, text, Len(needle) - 1)
  PROVE  /\ Within(needle, text \o chunk) <=> contains(carry \o chunk, needle)
         /\ Carry(carry \o chunk, chunk, Len(needle) - 1) \in Seq(S)
         /\ EndOf(Carry(carry \o chunk, chunk, Len(needle) - 1), text \o chunk, Len(needle) - 1)
<1> DEFINE whole == text \o chunk
           hay == carry \o chunk
           m == Len(needle) - 1
           gap == Len(text) - Len(carry)
           kept == Carry(hay, chunk, m)
<1>1. /\ whole \in Seq(S) /\ Len(whole) = Len(text) + Len(chunk)
      /\ \A i \in 1..Len(whole) : whole[i] = IF i <= Len(text) THEN text[i] ELSE chunk[i - Len(text)]
  OBVIOUS
<1>2. /\ hay \in Seq(S) /\ Len(hay) = Len(carry) + Len(chunk)
      /\ \A i \in 1..Len(hay) : hay[i] = IF i <= Len(carry) THEN carry[i] ELSE chunk[i - Len(carry)]
  OBVIOUS
<1>3. m \in Nat /\ Len(text) \in Nat /\ Len(carry) \in Nat /\ Len(chunk) \in Nat /\ Len(needle) = m + 1
  OBVIOUS
<1>4. /\ Len(carry) = IF Len(text) > m THEN m ELSE Len(text)
      /\ \A j \in 1..Len(carry) : carry[j] = text[gap + j]
  BY DEF EndOf
<1>5. gap \in Nat /\ (Len(text) > m => Len(carry) = m) /\ (gap > 0 => Len(text) > m) /\ Len(whole) = Len(hay) + gap
  <2> HIDE DEF whole, hay, m
  <2>1. CASE Len(text) > m
    BY <1>1, <1>2, <1>3, <1>4, <2>1
  <2>2. CASE ~(Len(text) > m)
    BY <1>1, <1>2, <1>3, <1>4, <2>2
  <2> QED BY <2>1, <2>2
<1> HIDE DEF whole, hay, m, gap
<1>6. ASSUME NEW i \in 1..Len(hay) PROVE hay[i] = whole[gap + i]
  <2>1. gap + i \in 1..Len(whole)
    BY <1>2, <1>3, <1>5
  <2>2. CASE i <= Len(carry)
    <3>1. i \in 1..Len(carry) /\ gap + i <= Len(text)
      BY <1>3, <2>2 DEF gap
    <3> QED BY <1>1, <1>2, <1>4, <2>1, <2>2, <3>1
  <2>3. CASE ~(i <= Len(carry))
    <3>1. ~(gap + i <= Len(text)) /\ gap + i - Len(text) = i - Len(carry)
      BY <1>3, <2>3 DEF gap
    <3>2. whole[gap + i] = chunk[gap + i - Len(text)]
      <4>1. PICK p \in 1..Len(whole) : p = gap + i
        BY <2>1
      <4>2. whole[p] = chunk[p - Len(text)]
        BY <1>1, <3>1, <4>1
      <4> QED BY <1>3, <1>5, <4>1, <4>2
    <3>3. hay[i] = chunk[i - Len(carry)]
      BY <1>2, <2>3
    <3> QED BY <3>1, <3>2, <3>3
  <2> QED BY <2>2, <2>3
<1>7. ASSUME NEW i \in Nat, StandsAt(needle, whole, i) PROVE \E j \in Nat : StandsAt(needle, hay, j)
  <2>1. /\ i # 0 /\ i + m <= Len(whole)
        /\ \A k \in 1..Len(needle) : whole[i + k - 1] = needle[k]
    BY <1>1, <1>3, <1>7 DEF StandsAt
  <2>2. i + m > Len(text)
    <3> SUFFICES ASSUME i + m <= Len(text) PROVE FALSE
      BY <1>3
    <3>1. \A k \in 1..Len(needle) : i + k - 1 \in 1..Len(whole) /\ i + k - 1 <= Len(text)
      BY <1>1, <1>3, <2>1
    <3>2. \A k \in 1..Len(needle) : text[i + k - 1] = needle[k]
      BY <1>1, <2>1, <3>1
    <3>3. StandsAt(needle, text, i)
      BY <1>3, <2>1, <3>2 DEF StandsAt
    <3> QED BY <3>3 DEF Within
  <2>3. i > gap
    BY <1>3, <1>5, <2>1, <2>2 DEF gap
  <2>4. i - gap \in Nat \ {0} /\ (i - gap) + m <= Len(hay)
    BY <1>2, <1>3, <1>5, <2>1, <2>3
  <2>5. ASSUME NEW k \in 1..Len(needle) PROVE hay[(i - gap) + k - 1] = needle[k]
    <3>1. (i - gap) + k - 1 \in 1..Len(hay) /\ gap + ((i - gap) + k - 1) = i + k - 1
      BY <1>2, <1>3, <1>5, <2>4
    <3> QED BY <1>6, <2>1, <3>1
  <2>6. StandsAt(needle, hay, i - gap)
    BY <1>2, <1>3, <2>4, <2>5 DEF StandsAt
  <2> QED BY <2>4, <2>6
<1>8. ASSUME NEW i \in Nat, StandsAt(needle, hay, i) PROVE \E j \in Nat : StandsAt(needle, whole, j)
  <2>1. /\ i # 0 /\ i + m <= Len(hay)
        /\ \A k \in 1..Len(needle) : hay[i + k - 1] = needle[k]
    BY <1>2, <1>3, <1>8 DEF StandsAt
  <2>2. i + gap \in Nat \ {0} /\ (i + gap) + m <= Len(whole)
    BY <1>2, <1>3, <1>5, <2>1
  <2>3. ASSUME NEW k \in 1..Len(needle) PROVE whole[(i + gap) + k - 1] = needle[k]
    <3>1. i + k - 1 \in 1..Len(hay) /\ gap + (i + k - 1) = (i + gap) + k - 1
      BY <1>2, <1>3, <1>5, <2>1
    <3> QED BY <1>6, <2>1, <3>1
  <2>4. StandsAt(needle, whole, i + gap)
    BY <1>1, <1>3, <2>2, <2>3 DEF StandsAt
  <2> QED BY <2>2, <2>4
<1>9. Within(needle, whole) <=> contains(hay, needle)
  BY <1>2, <1>7, <1>8, ContainsIsWithin DEF Within
<1>10. /\ kept \in Seq(S) /\ Len(kept) = (IF Len(hay) > m THEN m ELSE Len(hay))
       /\ \A j \in 1..Len(kept) : kept[j] = hay[Len(hay) - Len(kept) + j]
  <2>1. CASE Len(hay) > m
    <3>1. kept = SubSeq(hay, Len(hay) - m + 1, Len(hay))
      BY <2>1 DEF Carry
    <3>2. Len(hay) \in Nat /\ Len(hay) - m + 1 \in 1..(Len(hay) + 1)
      BY <1>2, <1>3, <2>1
    <3> HIDE DEF kept
    <3>3. Len(kept) = m /\ kept \in Seq(S)
      BY <1>2, <1>3, <2>1, <3>1, <3>2
    <3>4. \A j \in 1..m : kept[j] = hay[(Len(hay) - m + 1) + j - 1]
      BY <1>2, <1>3, <2>1, <3>1, <3>2
    <3>5. \A j \in 1..m : (Len(hay) - m + 1) + j - 1 = Len(hay) - m + j
      BY <1>3, <3>2
    <3> QED BY <2>1, <3>3, <3>4, <3>5
  <2>2. CASE ~(Len(hay) > m)
    <3>1. kept = SubSeq(hay, 1, Len(hay))
      BY <2>2 DEF Carry
    <3>2. kept = hay
      BY <1>2, <3>1
    <3> HIDE DEF kept
    <3> QED BY <1>2, <1>3, <2>2, <3>2
  <2> QED BY <2>1, <2>2
<1> HIDE DEF kept
<1>11. Len(kept) = IF Len(whole) > m THEN m ELSE Len(whole)
  <2>1. Len(hay) \in Nat /\ Len(whole) \in Nat /\ Len(carry) <= Len(hay)
    BY <1>1, <1>2, <1>3
  <2> QED BY <1>3, <1>5, <1>10, <2>1
<1>12. ASSUME NEW j \in 1..Len(kept) PROVE kept[j] = whole[Len(whole) - Len(kept) + j]
  <2>1. Len(hay) - Len(kept) + j \in 1..Len(hay)
    BY <1>2, <1>3, <1>10
  <2>2. gap + (Len(hay) - Len(kept) + j) = Len(whole) - Len(kept) + j
    BY <1>2, <1>3, <1>5, <1>10
  <2> QED BY <1>6, <1>10, <2>1, <2>2
<1>13. EndOf(kept, whole, m)
  BY <1>11, <1>12 DEF EndOf
<1> QED BY <1>9, <1>10, <1>13 DEF kept, hay, whole, m

\* file_contains finds the marker iff the file holds it, for every length of the
\* marker and however the reads cut the file: what is carried from one read to
\* the next is enough.
THEOREM ScanFindsMarker ==
  ASSUME NEW S, NEW chunks \in Seq(Seq(S)), NEW needle \in Seq(S), Len(needle) > 0
  PROVE  file_contains(chunks, needle) <=> Within(needle, FlattenSeq(chunks))
<1> DEFINE n == Len(chunks)
           V == [found : BOOLEAN, carry : Seq(S)]
           hay(v, i) == v.carry \o chunks[i]
           step(v, i) == IF v.found THEN v
                         ELSE [found |-> contains(hay(v, i), needle),
                               carry |-> Carry(hay(v, i), chunks[i], Len(needle) - 1)]
           F == [i \in 1..n |-> [v \in V |-> step(v, i)]]
           base == [found |-> FALSE, carry |-> <<>>]
           Is(it) == it = [s \in SUBSET (1..n) |-> IF s = {} THEN base ELSE step(it[s \ {Max(s)}], Max(s))]
           h == CHOOSE it : Is(it)
<1>1. n \in Nat /\ DOMAIN chunks = 1..n /\ \A i \in 1..n : chunks[i] \in Seq(S)
  OBVIOUS
<1>2. file_contains(chunks, needle) = h[1..n].found
  BY <1>1 DEF file_contains, FoldLeft, MapThenFoldSet
<1>3. base \in V
  OBVIOUS
<1>4. ASSUME NEW v \in V, NEW i \in 1..n PROVE step(v, i) \in V /\ F[i][v] = step(v, i)
  <2>1. hay(v, i) \in Seq(S)
    BY <1>1
  <2>2. contains(hay(v, i), needle) \in BOOLEAN
    BY DEF contains
  <2>3. Carry(hay(v, i), chunks[i], Len(needle) - 1) \in Seq(S)
    BY <2>1 DEF Carry
  <2> HIDE DEF hay
  <2> QED BY <2>2, <2>3
<1> HIDE DEF step
<1>5. PICK g : /\ g \in [SUBSET (1..n) -> V] /\ g[{}] = base
               /\ \A s \in SUBSET (1..n) : s # {} => g[s] = F[Max(s)][g[s \ {Max(s)}]]
               /\ \A s \in SUBSET (1..n) : s # {} => Max(s) \in 1..n /\ s \ {Max(s)} \in SUBSET (1..n)
  <2> HIDE DEF V, F, base, n
  <2>1. \A v \in V, i \in 1..n : F[i][v] \in V
    BY <1>4
  <2> QED BY <1>1, <1>3, <2>1, FoldExists
<1>6. Is(g)
  <2> HIDE DEF V, base
  <2>1. ASSUME NEW s \in SUBSET (1..n), s # {} PROVE g[s] = step(g[s \ {Max(s)}], Max(s))
    <3>1. Max(s) \in 1..n /\ g[s \ {Max(s)}] \in V
      BY <1>5, <2>1
    <3> HIDE DEF F
    <3> QED BY <1>4, <1>5, <2>1, <3>1
  <2> QED BY <1>5, <2>1
<1>7. Is(h)
  <2> HIDE DEF Is
  <2> QED BY <1>6
<1> HIDE DEF h
<1> DEFINE r == [k \in 0..n |-> h[1..k]]
<1>8. r[0] = base /\ r[n] = h[1..n]
  <2>1. 1..0 = {} /\ 0 \in 0..n /\ n \in 0..n
    BY <1>1
  <2>2. h[{}] = base
    BY <1>7
  <2> QED BY <2>1, <2>2
<1>9. ASSUME NEW k \in 1..n PROVE r[k] = step(r[k - 1], k)
  <2>1. k \in 0..n /\ k - 1 \in 0..n
    BY <1>1
  <2>2. h[1..k] = step(h[(1..k) \ {Max(1..k)}], Max(1..k))
    <3> HIDE DEF base
    <3> QED BY <1>1, <1>7, FirstNumbers, Zenon
  <2>3. h[1..k] = step(h[1..(k - 1)], k)
    BY <1>1, <2>2, FirstNumbers
  <2> QED BY <2>1, <2>3
<1> HIDE DEF r
<1>10. PICK t : /\ Joins(t, chunks, n) /\ FlattenSeq(chunks) = t[n]
                /\ \A k \in 0..n : t[k] \in Seq(S)
  BY FlattenJoins
<1> DEFINE Good(k) == /\ r[k] \in V
                      /\ r[k].found <=> Within(needle, t[k])
                      /\ ~r[k].found => EndOf(r[k].carry, t[k], Len(needle) - 1)
           P == {k \in 0..n : Good(k)}
<1> HIDE DEF n
<1>11. 0 \in P
  <2>1. t[0] = <<>>
    BY <1>10 DEF Joins
  <2>2. ~Within(needle, <<>>)
    BY DEF Within, StandsAt
  <2>3. EndOf(<<>>, <<>>, Len(needle) - 1)
    BY DEF EndOf
  <2>4. Good(0)
    BY <1>3, <1>8, <2>1, <2>2, <2>3
  <2> QED BY <1>1, <2>4
<1>12. ASSUME NEW k \in 1..n, k - 1 \in P PROVE k \in P
  <2>1. t[k] = t[k - 1] \o chunks[k] /\ t[k - 1] \in Seq(S) /\ chunks[k] \in Seq(S) /\ k \in 0..n
    <3>1. k - 1 \in 0..n /\ k \in 0..n
      BY <1>1
    <3> QED BY <1>1, <1>10, <3>1 DEF Joins
  <2>2. Good(k - 1) /\ r[k] = step(r[k - 1], k) /\ r[k] \in V
    BY <1>4, <1>9, <1>12
  <2>3. CASE r[k - 1].found
    <3>1. r[k] = r[k - 1]
      BY <2>2, <2>3 DEF step
    <3>2. Within(needle, t[k - 1] \o chunks[k])
      BY <2>1, <2>2, <2>3, StillWithin
    <3> QED BY <2>1, <2>2, <2>3, <3>1, <3>2
  <2>4. CASE ~r[k - 1].found
    <3>1. r[k].found = contains(r[k - 1].carry \o chunks[k], needle)
      BY <2>2, <2>4 DEF step
    <3>2. r[k].carry = Carry(r[k - 1].carry \o chunks[k], chunks[k], Len(needle) - 1)
      BY <2>2, <2>4 DEF step
    <3>3. /\ r[k - 1].carry \in Seq(S) /\ ~Within(needle, t[k - 1])
          /\ EndOf(r[k - 1].carry, t[k - 1], Len(needle) - 1)
      BY <2>2, <2>4
    <3>4. /\ Within(needle, t[k]) <=> contains(r[k - 1].carry \o chunks[k], needle)
          /\ EndOf(Carry(r[k - 1].carry \o chunks[k], chunks[k], Len(needle) - 1), t[k], Len(needle) - 1)
      <4> HIDE DEF V
      <4>1. PICK carry, text, chunk : /\ carry = r[k - 1].carry /\ text = t[k - 1] /\ chunk = chunks[k]
                                     /\ t[k] = text \o chunk
        BY <2>1
      <4>2. carry \in Seq(S) /\ text \in Seq(S) /\ chunk \in Seq(S)
        BY <2>1, <3>3, <4>1
      <4>3. ~Within(needle, text) /\ EndOf(carry, text, Len(needle) - 1)
        BY <3>3, <4>1
      <4>4. /\ Within(needle, text \o chunk) <=> contains(carry \o chunk, needle)
            /\ EndOf(Carry(carry \o chunk, chunk, Len(needle) - 1), text \o chunk, Len(needle) - 1)
        BY <4>2, <4>3, ReadMore
      <4> QED BY <4>1, <4>4
    <3> HIDE DEF V
    <3> QED BY <2>1, <2>2, <3>1, <3>2, <3>4
  <2> QED BY <2>3, <2>4
<1> HIDE DEF P
<1>13. n \in P
  <2>1. \A k \in 0..n : k \in P
    BY <1>1, <1>11, <1>12, Induct
  <2> QED BY <1>1, <2>1
<1> QED BY <1>2, <1>8, <1>10, <1>13 DEF P

-----------------------------------------------------------------------------
(* What ps answers.                                                         *)

\* What ps answers for a process: nothing when it was not asked for.
HasNeedle(binary, files, needle) ==
  binary \in DOMAIN files /\ Within(needle, FlattenSeq(files[binary]))
RowsOf(p, filter, files, needle) ==
  IF filter # "" /\ p.name # filter THEN <<>>
  ELSE <<<<p.name, p.binary # None /\ HasNeedle(p.binary, files, needle)>>>>

AllRows(processes, filter, files, needle) ==
  FlattenSeq([k \in 1..Len(processes) |-> RowsOf(processes[k], filter, files, needle)])

\* What was probed so far, of the binaries B.
Answers(q, B, files, needle) ==
  /\ q \in UNION {[D -> BOOLEAN] : D \in SUBSET B}
  /\ \A b \in DOMAIN q : q[b] = HasNeedle(b, files, needle)

\* The scan of each file finds what is there.
ScanIsRight(files, needle) ==
  \A b \in DOMAIN files : file_contains(files[b], needle) <=> Within(needle, FlattenSeq(files[b]))

\* What probed is to be once a process was asked for, q before it.
ProbesOn(next, B, binary, files, needle) ==
  /\ Answers(next, B, files, needle)
  /\ binary # None => next[binary] = HasNeedle(binary, files, needle)

\* Probing one more binary keeps the answers of the others right.
LEMMA ProbedIs ==
  ASSUME NEW needle, NEW files, ScanIsRight(files, needle),
         NEW B, NEW probed, Answers(probed, B, files, needle), NEW binary, binary \in B
  PROVE  ProbesOn(PsProbed(probed, binary, files, needle), B, binary, files, needle)
<1>1. PICK D \in SUBSET B : probed \in [D -> BOOLEAN] /\ \A b \in D : probed[b] = HasNeedle(b, files, needle)
  BY DEF Answers
<1>2. CASE binary = None \/ binary \in D
  BY <1>1, <1>2 DEF PsProbed, ProbesOn
<1>3. CASE ~(binary = None \/ binary \in D)
  <2> DEFINE new == PsProbed(probed, binary, files, needle)
  <2>1. new = [b \in D \cup {binary} |->
                 IF b \in D THEN probed[b] ELSE b \in DOMAIN files /\ file_contains(files[b], needle)]
    BY <1>1, <1>3 DEF PsProbed
  <2>2. (binary \in DOMAIN files /\ file_contains(files[binary], needle)) = HasNeedle(binary, files, needle)
    BY DEF HasNeedle, ScanIsRight
  <2>3. (binary \in DOMAIN files /\ file_contains(files[binary], needle)) \in BOOLEAN
    OBVIOUS
  <2> HIDE DEF new
  <2>4. \A b \in D \cup {binary} : new[b] = HasNeedle(b, files, needle) /\ new[b] \in BOOLEAN
    <3>1. new[binary] = HasNeedle(binary, files, needle) /\ new[binary] \in BOOLEAN
      BY <1>3, <2>1, <2>2, <2>3
    <3>2. \A b \in D : new[b] = HasNeedle(b, files, needle) /\ new[b] \in BOOLEAN
      BY <1>1, <2>1
    <3> QED BY <3>1, <3>2
  <2>5. new \in [(D \cup {binary}) -> BOOLEAN] /\ D \cup {binary} \in SUBSET B
    BY <2>1, <2>4
  <2>6. Answers(new, B, files, needle)
    BY <2>4, <2>5 DEF Answers
  <2> QED BY <2>4, <2>6 DEF new, ProbesOn
<1> QED BY <1>2, <1>3

\* cmd_ps answers for every process it lists with what its own binary holds,
\* although it scans each binary once and remembers the answer.
THEOREM PsAnswersEach ==
  ASSUME NEW S, NEW needle \in Seq(S), Len(needle) > 0,
         NEW files, \A b \in DOMAIN files : files[b] \in Seq(Seq(S)),
         NEW N, NEW B, NEW processes \in Seq([name : N, binary : B]), NEW filter
  PROVE  cmd_ps(processes, filter, files, needle).rows = AllRows(processes, filter, files, needle)
<1> DEFINE n == Len(processes)
           R == N \X BOOLEAN
           fs == [k \in 1..n |-> RowsOf(processes[k], filter, files, needle)]
           Probed == {q \in UNION {[D -> BOOLEAN] : D \in SUBSET B} : Answers(q, B, files, needle)}
           V == [probed : Probed, rows : Seq(R)]
           now(v, i) == PsProbed(v.probed, processes[i].binary, files, needle)
           step(v, i) == IF filter # "" /\ processes[i].name # filter THEN v
                         ELSE [probed |-> now(v, i),
                               rows |-> Append(v.rows, <<processes[i].name,
                                          processes[i].binary # None /\ now(v, i)[processes[i].binary]>>)]
           F == [i \in 1..n |-> [v \in V |-> step(v, i)]]
           base == [probed |-> <<>>, rows |-> <<>>]
           Is(it) == it = [s \in SUBSET (1..n) |-> IF s = {} THEN base ELSE step(it[s \ {Max(s)}], Max(s))]
           h == CHOOSE it : Is(it)
<1>1. n \in Nat /\ DOMAIN processes = 1..n
  OBVIOUS
<1>2. ASSUME NEW i \in 1..n PROVE processes[i].name \in N /\ processes[i].binary \in B
  <2>1. processes[i] \in [name : N, binary : B]
    BY ElementOfSeq, Zenon
  <2> QED BY <2>1
<1>3. cmd_ps(processes, filter, files, needle) = h[1..n]
  BY <1>1 DEF cmd_ps, FoldLeft, MapThenFoldSet
<1> HIDE DEF n
<1>4. base \in V
  <2>1. <<>> \in [{} -> BOOLEAN] /\ {} \in SUBSET B
    OBVIOUS
  <2>2. <<>> \in Probed
    BY <2>1 DEF Answers
  <2>3. <<>> \in Seq(R)
    OBVIOUS
  <2> HIDE DEF Probed, R
  <2> QED BY <2>2, <2>3
<1>5. ASSUME NEW v \in V, NEW i \in 1..n
      PROVE  /\ now(v, i) \in Probed
             /\ processes[i].binary # None =>
                  now(v, i)[processes[i].binary] = HasNeedle(processes[i].binary, files, needle)
  <2>1. v.probed \in Probed
    OBVIOUS
  <2>2. Answers(v.probed, B, files, needle)
    <3> HIDE DEF V
    <3> QED BY <2>1
  <2>3. ScanIsRight(files, needle)
    BY ScanFindsMarker DEF ScanIsRight
  <2>4. /\ Answers(now(v, i), B, files, needle)
        /\ processes[i].binary # None =>
             now(v, i)[processes[i].binary] = HasNeedle(processes[i].binary, files, needle)
    <3>1. processes[i].binary \in B
      BY <1>2
    <3>2. ProbesOn(now(v, i), B, processes[i].binary, files, needle)
      BY <2>2, <2>3, <3>1, ProbedIs
    <3> HIDE DEF now
    <3> QED BY <3>2 DEF ProbesOn
  <2>5. now(v, i) \in Probed
    <3> HIDE DEF now
    <3> QED BY <2>4 DEF Answers
  <2> HIDE DEF now
  <2> QED BY <2>4, <2>5
<1>6. ASSUME NEW v \in V, NEW i \in 1..n
      PROVE  /\ RowsOf(processes[i], filter, files, needle) \in Seq(R)
             /\ step(v, i) \in V /\ F[i][v] = step(v, i)
             /\ step(v, i).rows = v.rows \o RowsOf(processes[i], filter, files, needle)
  <2> DEFINE asked == ~(filter # "" /\ processes[i].name # filter)
             row == <<processes[i].name, processes[i].binary # None /\ HasNeedle(processes[i].binary, files, needle)>>
  <2>1. v.rows \in Seq(R) /\ v.probed \in Probed
    OBVIOUS
  <2>2. row \in R
    BY <1>2
  <2>3. asked => step(v, i) = [probed |-> now(v, i), rows |-> Append(v.rows, row)]
    <3>1. (processes[i].binary # None /\ now(v, i)[processes[i].binary])
            = (processes[i].binary # None /\ HasNeedle(processes[i].binary, files, needle))
      BY <1>5
    <3> HIDE DEF now
    <3> QED BY <3>1, Zenon
  <2>4. ~asked => step(v, i) = v
    BY Zenon
  <2>5. RowsOf(processes[i], filter, files, needle) = IF asked THEN <<row>> ELSE <<>>
    BY Zenon DEF RowsOf
  <2>6. v.rows \o <<row>> = Append(v.rows, row) /\ v.rows \o <<>> = v.rows /\ Append(v.rows, row) \in Seq(R)
        /\ <<row>> \in Seq(R) /\ <<>> \in Seq(R)
    <3> HIDE DEF row, R
    <3> QED BY <2>1, <2>2
  <2>7. F[i][v] = step(v, i)
    <3> HIDE DEF step, V
    <3> QED OBVIOUS
  <2>8. now(v, i) \in Probed
    BY <1>5
  <2> HIDE DEF asked, row, step, now, R, Probed, F
  <2>9. CASE asked
    <3>1. step(v, i) \in V /\ step(v, i).rows = Append(v.rows, row)
      <4>1. PICK p, w : p = now(v, i) /\ w = Append(v.rows, row)
        OBVIOUS
      <4>2. p \in Probed /\ w \in Seq(R) /\ step(v, i) = [probed |-> p, rows |-> w]
        BY <2>3, <2>6, <2>8, <2>9, <4>1
      <4> QED BY <4>1, <4>2
    <3> HIDE DEF V
    <3> QED BY <2>5, <2>6, <2>7, <2>9, <3>1
  <2>10. CASE ~asked
    <3> HIDE DEF V
    <3> QED BY <2>4, <2>5, <2>6, <2>7, <2>10
  <2> QED BY <2>9, <2>10
<1> HIDE DEF step, F, now, Probed, base
<1>7. PICK g : /\ g \in [SUBSET (1..n) -> V] /\ g[{}] = base
               /\ \A s \in SUBSET (1..n) : s # {} => g[s] = F[Max(s)][g[s \ {Max(s)}]]
               /\ \A s \in SUBSET (1..n) : s # {} => Max(s) \in 1..n /\ s \ {Max(s)} \in SUBSET (1..n)
  <2> HIDE DEF V
  <2>1. \A v \in V, i \in 1..n : F[i][v] \in V
    BY <1>6
  <2> QED BY <1>1, <1>4, <2>1, FoldExists
<1> HIDE DEF V
<1>8. Is(g)
  <2>1. ASSUME NEW s \in SUBSET (1..n), s # {} PROVE g[s] = step(g[s \ {Max(s)}], Max(s))
    <3>1. Max(s) \in 1..n /\ g[s \ {Max(s)}] \in V
      BY <1>7, <2>1
    <3> QED BY <1>6, <1>7, <2>1, <3>1
  <2> QED BY <1>7, <2>1
<1>9. Is(h)
  <2> HIDE DEF Is
  <2> QED BY <1>8
<1> HIDE DEF h
<1> DEFINE r == [k \in 0..n |-> h[1..k]]
<1>10. r[0] = base /\ r[n] = h[1..n]
  <2>1. 1..0 = {} /\ 0 \in 0..n /\ n \in 0..n
    BY <1>1
  <2>2. h[{}] = base
    BY <1>9
  <2> QED BY <2>1, <2>2
<1>11. ASSUME NEW k \in 1..n PROVE r[k] = step(r[k - 1], k)
  <2>1. k \in 0..n /\ k - 1 \in 0..n
    BY <1>1
  <2>2. h[1..k] = step(h[(1..k) \ {Max(1..k)}], Max(1..k))
    BY <1>1, <1>9, FirstNumbers, Zenon
  <2>3. h[1..k] = step(h[1..(k - 1)], k)
    BY <1>1, <2>2, FirstNumbers
  <2> QED BY <2>1, <2>3
<1> HIDE DEF r
<1>12. fs \in Seq(Seq(R)) /\ Len(fs) = n
  <2> HIDE DEF R
  <2> QED BY <1>1, <1>4, <1>6
<1> HIDE DEF fs
<1>13. PICK t : Joins(t, fs, n) /\ FlattenSeq(fs) = t[n]
  BY <1>12, FlattenJoins
<1> DEFINE P == {k \in 0..n : r[k] \in V /\ r[k].rows = t[k]}
<1>14. 0 \in P
  <2>1. t[0] = <<>> /\ base.rows = <<>>
    BY <1>13 DEF Joins, base
  <2> QED BY <1>1, <1>4, <1>10, <2>1
<1>15. ASSUME NEW k \in 1..n, k - 1 \in P PROVE k \in P
  <2>1. t[k] = t[k - 1] \o fs[k]
    BY <1>13 DEF Joins
  <2>3. k \in 0..n
    BY <1>1
  <2>2. fs[k] = RowsOf(processes[k], filter, files, needle)
    BY DEF fs
  <2>4. r[k - 1] \in V /\ r[k - 1].rows = t[k - 1] /\ r[k] = step(r[k - 1], k)
    BY <1>11, <1>15
  <2>5. r[k] \in V /\ r[k].rows = r[k - 1].rows \o RowsOf(processes[k], filter, files, needle)
    BY <1>6, <2>4
  <2> QED BY <2>1, <2>2, <2>3, <2>4, <2>5
<1> HIDE DEF P
<1>16. n \in P
  <2>1. \A k \in 0..n : k \in P
    BY <1>1, <1>14, <1>15, Induct
  <2> QED BY <1>1, <2>1
<1> QED BY <1>3, <1>10, <1>13, <1>16 DEF P, fs, n, AllRows

-----------------------------------------------------------------------------
(* Base64, in groups of three bytes and four digits.                        *)

\* Where the pieces of a sequence come to stand: off[k] elements before the one
\* after the k-th.
Offsets(off, fs) ==
  /\ off[0] = 0
  /\ \A k \in 1..Len(fs) : off[k - 1] \in Nat /\ off[k] = off[k - 1] + Len(fs[k])

\* Each piece is found again in the joined text, at its offset.
LEMMA Pieces ==
  ASSUME NEW S, NEW fs \in Seq(Seq(S)), NEW off, Offsets(off, fs)
  PROVE  /\ FlattenSeq(fs) \in Seq(S)
         /\ Len(FlattenSeq(fs)) = off[Len(fs)]
         /\ \A k \in 1..Len(fs) : \A j \in 1..Len(fs[k]) : FlattenSeq(fs)[off[k - 1] + j] = fs[k][j]
<1> DEFINE n == Len(fs)
<1>1. n \in Nat /\ \A k \in 1..n : fs[k] \in Seq(S) /\ Len(fs[k]) \in Nat
  OBVIOUS
<1>2. PICK t : Joins(t, fs, n) /\ FlattenSeq(fs) = t[n] /\ \A k \in 0..n : t[k] \in Seq(S)
  BY FlattenJoins
<1>3. off[0] = 0 /\ \A k \in 1..n : off[k - 1] \in Nat /\ off[k] = off[k - 1] + Len(fs[k])
  BY DEF Offsets
<1> HIDE DEF n
<1> DEFINE Placed(k) == /\ Len(t[k]) = off[k] /\ off[k] \in Nat
                        /\ \A m \in 1..k : /\ off[m] <= off[k]
                                           /\ \A j \in 1..Len(fs[m]) : t[k][off[m - 1] + j] = fs[m][j]
           P == {k \in 0..n : Placed(k)}
<1>4. 0 \in P
  BY <1>1, <1>2, <1>3 DEF Joins
<1>5. ASSUME NEW k \in 1..n, k - 1 \in P PROVE k \in P
  <2>1. k \in Nat /\ k - 1 \in Nat /\ k \in 0..n /\ k - 1 \in 0..n
    BY <1>1
  <2>2. t[k] = t[k - 1] \o fs[k] /\ t[k - 1] \in Seq(S) /\ fs[k] \in Seq(S)
    BY <1>1, <1>2, <2>1 DEF Joins
  <2>3. Placed(k - 1)
    BY <1>5
  <2>4. Len(t[k - 1]) = off[k - 1] /\ off[k] = off[k - 1] + Len(fs[k]) /\ off[k - 1] \in Nat /\ Len(fs[k]) \in Nat
    BY <1>1, <1>3, <2>3
  <2>5. PICK x, y : x = t[k - 1] /\ y = fs[k] /\ x \in Seq(S) /\ y \in Seq(S) /\ t[k] = x \o y
    BY <2>2
  <2>6. Len(t[k]) = off[k] /\ off[k] \in Nat /\ off[k - 1] <= off[k]
    <3>1. Len(x \o y) = Len(x) + Len(y)
      BY <2>5
    <3> QED BY <2>4, <2>5, <3>1
  <2>7. /\ \A j \in 1..Len(y) : t[k][Len(x) + j] = y[j]
        /\ \A i \in 1..Len(x) : t[k][i] = x[i]
    <3>1. /\ \A j \in 1..Len(y) : (x \o y)[Len(x) + j] = y[j]
          /\ \A i \in 1..Len(x) : (x \o y)[i] = x[i]
      <4>1. x \in Seq(S) /\ y \in Seq(S) /\ Len(x) \in Nat /\ Len(y) \in Nat
        BY <2>5
      <4>2. \A i \in 1..(Len(x) + Len(y)) : (x \o y)[i] = IF i <= Len(x) THEN x[i] ELSE y[i - Len(x)]
        BY <4>1, ConcatProperties
      <4>3. ASSUME NEW j \in 1..Len(y) PROVE (x \o y)[Len(x) + j] = y[j]
        <5>1. /\ Len(x) + j \in 1..(Len(x) + Len(y)) /\ ~(Len(x) + j <= Len(x)) /\ Len(x) + j - Len(x) = j
          BY <4>1
        <5> QED BY <4>2, <5>1
      <4>4. ASSUME NEW i \in 1..Len(x) PROVE (x \o y)[i] = x[i]
        <5>1. i \in 1..(Len(x) + Len(y)) /\ i <= Len(x)
          BY <4>1
        <5> QED BY <4>2, <5>1
      <4> QED BY <4>3, <4>4
    <3> QED BY <2>5, <3>1
  <2>8. ASSUME NEW j \in 1..Len(fs[k]) PROVE t[k][off[k - 1] + j] = fs[k][j]
    BY <2>4, <2>5, <2>7
  <2>9. ASSUME NEW m \in 1..(k - 1)
        PROVE  off[m] <= off[k] /\ \A j \in 1..Len(fs[m]) : t[k][off[m - 1] + j] = fs[m][j]
    <3>1. m \in 1..n
      BY <1>1, <2>1
    <3>2. off[m - 1] \in Nat /\ off[m] = off[m - 1] + Len(fs[m]) /\ Len(fs[m]) \in Nat
      BY <1>1, <1>3, <3>1
    <3>3. off[m] <= off[k - 1] /\ \A j \in 1..Len(fs[m]) : t[k - 1][off[m - 1] + j] = fs[m][j]
      BY <2>3
    <3>4. off[m] <= off[k]
      BY <2>4, <2>6, <3>2, <3>3, SMTT(30)
    <3>5. ASSUME NEW j \in 1..Len(fs[m]) PROVE t[k][off[m - 1] + j] = fs[m][j]
      <4>1. off[m - 1] + j \in 1..Len(x)
        <5>1. off[k - 1] = Len(x) /\ off[m] <= off[k - 1]
          BY <2>4, <2>5, <3>3
        <5> QED BY <2>4, <3>2, <5>1, SMTT(30)
      <4> QED BY <2>5, <2>7, <3>3, <4>1
    <3> QED BY <3>4, <3>5
  <2>10. Placed(k)
    <3>1. ASSUME NEW m \in 1..k
          PROVE  off[m] <= off[k] /\ \A j \in 1..Len(fs[m]) : t[k][off[m - 1] + j] = fs[m][j]
      <4>1. CASE m = k
        <5>1. off[k] <= off[k]
          BY <2>6
        <5> QED BY <2>8, <4>1, <5>1
      <4>2. CASE m # k
        <5>1. m \in 1..(k - 1)
          BY <2>1, <4>2
        <5> QED BY <2>9, <5>1
      <4> QED BY <4>1, <4>2
    <3> QED BY <2>6, <3>1
  <2> QED BY <2>1, <2>10
<1> HIDE DEF P
<1>6. n \in P
  <2>1. \A k \in 0..n : k \in P
    BY <1>1, <1>4, <1>5, Induct
  <2> QED BY <1>1, <2>1
<1>7. Placed(n)
  BY <1>6 DEF P
<1>8. t[n] \in Seq(S)
  BY <1>1, <1>2
<1> QED BY <1>2, <1>7, <1>8 DEF n

Bytes == 0..255
Sextets == 0..63
Digits == Sextets \cup {Pad}

\* No padding among the digits.
LEMMA DigitsApart == Pad \notin Sextets
  BY DEF Pad, Sextets

\* Four digits are a sequence of digits.
LEMMA FourDigits ==
  ASSUME NEW a \in Digits, NEW b \in Digits, NEW c \in Digits, NEW d \in Digits
  PROVE  <<a, b, c, d>> \in Seq(Digits) /\ Len(<<a, b, c, d>>) = 4
  OBVIOUS

\* A group of bytes is one, two or three of them, and is written as four digits.
LEMMA Groups ==
  ASSUME NEW g \in Seq(Bytes), Len(g) \in 1..3
  PROVE  \/ \E x \in Bytes : g = <<x>>
         \/ \E x, y \in Bytes : g = <<x, y>>
         \/ \E x, y, z \in Bytes : g = <<x, y, z>>
<1>1. CASE Len(g) = 1
  <2>1. g = <<g[1]>> /\ g[1] \in Bytes
    BY <1>1
  <2> QED BY <2>1
<1>2. CASE Len(g) = 2
  <2>1. g = <<g[1], g[2]>> /\ g[1] \in Bytes /\ g[2] \in Bytes
    BY <1>2
  <2> QED BY <2>1
<1>3. CASE Len(g) = 3
  <2>1. 1 \in 1..Len(g) /\ 2 \in 1..Len(g) /\ 3 \in 1..Len(g)
    BY <1>3
  <2>2. g[1] \in Bytes /\ g[2] \in Bytes /\ g[3] \in Bytes
    BY <2>1
  <2>3. g = <<g[1], g[2], g[3]>>
    BY <1>3
  <2> QED BY <2>2, <2>3
<1> QED BY <1>1, <1>2, <1>3

\* The digits of one, two or three bytes.
LEMMA EncodesGroup ==
  ASSUME NEW x \in Bytes, NEW y \in Bytes, NEW z \in Bytes
  PROVE  /\ EncodeGroup(<<x>>) = <<x \div 4, (x % 4) * 16, Pad, Pad>>
         /\ EncodeGroup(<<x, y>>) = <<x \div 4, (x % 4) * 16 + y \div 16, (y % 16) * 4, Pad>>
         /\ EncodeGroup(<<x, y, z>>)
              = <<x \div 4, (x % 4) * 16 + y \div 16, (y % 16) * 4 + z \div 64, z % 64>>
<1>1. x \in Nat /\ y \in Nat /\ z \in Nat /\ 0 \div 16 = 0 /\ 0 \div 64 = 0 /\ 0 % 16 = 0 /\ 0 % 64 = 0
  BY DEF Bytes
<1>2. EncodeGroup(<<x>>) = <<x \div 4, (x % 4) * 16, Pad, Pad>>
  <2>1. PICK a, b : a = x \div 4 /\ b = (x % 4) * 16 + 0 \div 16 /\ b = (x % 4) * 16
    BY <1>1
  <2>2. Len(<<x>>) = 1
    OBVIOUS
  <2>3. EncodeGroup(<<x>>) = [i \in 1..4 |-> IF i <= 2 THEN <<a, b, (0 % 16) * 4 + 0 \div 64, 0 % 64>>[i] ELSE Pad]
    BY <2>1, <2>2 DEF EncodeGroup
  <2> QED BY <2>1, <2>3
<1>3. EncodeGroup(<<x, y>>) = <<x \div 4, (x % 4) * 16 + y \div 16, (y % 16) * 4, Pad>>
  <2>1. PICK a, b, c : a = x \div 4 /\ b = (x % 4) * 16 + y \div 16 /\ c = (y % 16) * 4 + 0 \div 64 /\ c = (y % 16) * 4
    BY <1>1
  <2>2. EncodeGroup(<<x, y>>) = [i \in 1..4 |-> IF i <= 3 THEN <<a, b, c, 0 % 64>>[i] ELSE Pad]
    BY <2>1 DEF EncodeGroup
  <2> QED BY <2>1, <2>2
<1>4. EncodeGroup(<<x, y, z>>)
        = <<x \div 4, (x % 4) * 16 + y \div 16, (y % 16) * 4 + z \div 64, z % 64>>
  <2>1. PICK a, b, c, d : /\ a = x \div 4 /\ b = (x % 4) * 16 + y \div 16
                          /\ c = (y % 16) * 4 + z \div 64 /\ d = z % 64
    OBVIOUS
  <2>2. EncodeGroup(<<x, y, z>>) = [i \in 1..4 |-> IF i <= 4 THEN <<a, b, c, d>>[i] ELSE Pad]
    BY <2>1 DEF EncodeGroup
  <2> QED BY <2>1, <2>2
<1> QED BY <1>2, <1>3, <1>4

FirstByte(a, b) == (a * 4 + b \div 16) % 256
SecondByte(b, c) == (b * 16 + c \div 4) % 256
ThirdByte(c, d) == (c * 64 + d) % 256

\* What is read of four digits, padded where an encoder pads.
LEMMA DecodesQuad ==
  ASSUME NEW a \in Sextets, NEW b \in Sextets
  PROVE  /\ DecodeQuad(<<a, b, Pad, Pad>>) = <<FirstByte(a, b)>>
         /\ \A c \in Sextets : DecodeQuad(<<a, b, c, Pad>>) = <<FirstByte(a, b), SecondByte(b, c)>>
         /\ \A c, d \in Sextets :
              DecodeQuad(<<a, b, c, d>>) = <<FirstByte(a, b), SecondByte(b, c), ThirdByte(c, d)>>
<1> DEFINE Cut(q, n) == SubSeq(q, 1, IF n >= 2 THEN 1 ELSE 3 - n)
<1>1. \A e \in Sextets : e # Pad
  BY DigitsApart
<1>2. DecodeQuad(<<a, b, Pad, Pad>>) = <<FirstByte(a, b)>>
  <2> DEFINE q == <<a, b, Pad, Pad>>
  <2>4. a # Pad /\ b # Pad
    BY <1>1
  <2>1. {i \in 1..4 : q[i] = Pad} = {3} \cup {4}
    BY <1>1
  <2>2. Cardinality({i \in 1..4 : q[i] = Pad}) = 2
    <3>1. IsFiniteSet({3}) /\ Cardinality({3}) = 1
      BY FS_Singleton
    <3>2. Cardinality({3} \cup {4}) = Cardinality({3}) + 1
      BY <3>1, FS_AddElement
    <3> QED BY <2>1, <3>1, <3>2
  <2>3. DecodeQuad(q) = Cut(<<(a * 4 + b \div 16) % 256, (b * 16 + 0 \div 4) % 256, (0 * 64 + 0) % 256>>, 2)
    BY <2>2, <2>4 DEF DecodeQuad
  <2> QED BY <2>3 DEF FirstByte, SecondByte, ThirdByte
<1>3. ASSUME NEW c \in Sextets PROVE DecodeQuad(<<a, b, c, Pad>>) = <<FirstByte(a, b), SecondByte(b, c)>>
  <2> DEFINE q == <<a, b, c, Pad>>
  <2>4. a # Pad /\ b # Pad /\ c # Pad
    BY <1>1
  <2>1. {i \in 1..4 : q[i] = Pad} = {4}
    BY <1>1
  <2>2. Cardinality({i \in 1..4 : q[i] = Pad}) = 1
    BY <2>1, FS_Singleton
  <2>3. DecodeQuad(q) = Cut(<<(a * 4 + b \div 16) % 256, (b * 16 + c \div 4) % 256, (c * 64 + 0) % 256>>, 1)
    BY <2>2, <2>4 DEF DecodeQuad
  <2> QED BY <2>3 DEF FirstByte, SecondByte, ThirdByte
<1>4. ASSUME NEW c \in Sextets, NEW d \in Sextets
      PROVE  DecodeQuad(<<a, b, c, d>>) = <<FirstByte(a, b), SecondByte(b, c), ThirdByte(c, d)>>
  <2> DEFINE q == <<a, b, c, d>>
  <2>4. a # Pad /\ b # Pad /\ c # Pad /\ d # Pad
    BY <1>1
  <2>1. {i \in 1..4 : q[i] = Pad} = {}
    BY <1>1
  <2>2. Cardinality({i \in 1..4 : q[i] = Pad}) = 0
    BY <2>1, FS_EmptySet
  <2>3. DecodeQuad(q) = Cut(<<(a * 4 + b \div 16) % 256, (b * 16 + c \div 4) % 256, (c * 64 + d) % 256>>, 0)
    BY <2>2, <2>4 DEF DecodeQuad
  <2> QED BY <2>3 DEF FirstByte, SecondByte, ThirdByte
<1> QED BY <1>2, <1>3, <1>4

\* Bytes cut into digits and put together again are the same bytes.
LEMMA Bits ==
  ASSUME NEW x \in Bytes, NEW y \in Bytes, NEW z \in Bytes
  PROVE  /\ x \div 4 \in Sextets /\ (x % 4) * 16 \in Sextets /\ (x % 4) * 16 + y \div 16 \in Sextets
         /\ (y % 16) * 4 \in Sextets /\ (y % 16) * 4 + z \div 64 \in Sextets /\ z % 64 \in Sextets
         /\ ((x \div 4) * 4 + ((x % 4) * 16) \div 16) % 256 = x
         /\ ((x \div 4) * 4 + ((x % 4) * 16 + y \div 16) \div 16) % 256 = x
         /\ (((x % 4) * 16 + y \div 16) * 16 + ((y % 16) * 4) \div 4) % 256 = y
         /\ (((x % 4) * 16 + y \div 16) * 16 + ((y % 16) * 4 + z \div 64) \div 4) % 256 = y
         /\ (((y % 16) * 4 + z \div 64) * 64 + (z % 64)) % 256 = z
<1>1. /\ x \div 4 \in 0..63 /\ (x % 4) * 16 \in 0..63 /\ (x % 4) * 16 + y \div 16 \in 0..63
      /\ (y % 16) * 4 \in 0..63 /\ (y % 16) * 4 + z \div 64 \in 0..63 /\ z % 64 \in 0..63
  BY SMT DEF Bytes
<1>2. ((x % 4) * 16) \div 16 = x % 4 /\ ((x % 4) * 16 + y \div 16) \div 16 = x % 4
  BY SMT DEF Bytes
<1>3. ((y % 16) * 4) \div 4 = y % 16 /\ ((y % 16) * 4 + z \div 64) \div 4 = y % 16
  BY SMT DEF Bytes
<1>4. ((x \div 4) * 4 + (x % 4)) % 256 = x
  BY SMT DEF Bytes
<1>5. (((x % 4) * 16 + y \div 16) * 16 + (y % 16)) % 256 = y
  BY SMT DEF Bytes
<1>6. (((y % 16) * 4 + z \div 64) * 64 + (z % 64)) % 256 = z
  BY SMT DEF Bytes
<1>7. ((x \div 4) * 4 + ((x % 4) * 16) \div 16) % 256 = x
  BY <1>2, <1>4
<1>8. ((x \div 4) * 4 + ((x % 4) * 16 + y \div 16) \div 16) % 256 = x
  BY <1>2, <1>4
<1>9. (((x % 4) * 16 + y \div 16) * 16 + ((y % 16) * 4) \div 4) % 256 = y
  BY <1>3, <1>5
<1>10. (((x % 4) * 16 + y \div 16) * 16 + ((y % 16) * 4 + z \div 64) \div 4) % 256 = y
  BY <1>3, <1>5
<1> QED BY <1>1, <1>6, <1>7, <1>8, <1>9, <1>10 DEF Sextets

\* Four digits made of up to three bytes are read as these.
LEMMA GroupComesBack ==
  ASSUME NEW g \in Seq(Bytes), Len(g) \in 1..3
  PROVE  /\ EncodeGroup(g) \in Seq(Digits) /\ Len(EncodeGroup(g)) = 4
         /\ DecodeQuad(EncodeGroup(g)) = g
<1>2. Sextets \subseteq Digits /\ Pad \in Digits
  BY DEF Digits
<1>3. ASSUME NEW x \in Bytes, g = <<x>>
      PROVE  /\ EncodeGroup(g) \in Seq(Digits) /\ Len(EncodeGroup(g)) = 4
             /\ DecodeQuad(EncodeGroup(g)) = g
  <2>1. PICK a, b \in Sextets : a = x \div 4 /\ b = (x % 4) * 16 /\ FirstByte(a, b) = x
    BY Bits DEF FirstByte, SecondByte, ThirdByte
  <2>2. EncodeGroup(g) = <<a, b, Pad, Pad>>
    BY <1>3, <2>1, EncodesGroup
  <2>3. DecodeQuad(<<a, b, Pad, Pad>>) = <<x>>
    BY <2>1, DecodesQuad
  <2>4. <<a, b, Pad, Pad>> \in Seq(Digits) /\ Len(<<a, b, Pad, Pad>>) = 4
    BY <1>2, <2>1, FourDigits
  <2> QED BY <1>3, <2>2, <2>3, <2>4
<1>4. ASSUME NEW x \in Bytes, NEW y \in Bytes, g = <<x, y>>
      PROVE  /\ EncodeGroup(g) \in Seq(Digits) /\ Len(EncodeGroup(g)) = 4
             /\ DecodeQuad(EncodeGroup(g)) = g
  <2>1. PICK a, b, c \in Sextets : /\ a = x \div 4 /\ b = (x % 4) * 16 + y \div 16 /\ c = (y % 16) * 4
                                 /\ FirstByte(a, b) = x /\ SecondByte(b, c) = y
    BY Bits DEF FirstByte, SecondByte, ThirdByte
  <2>2. EncodeGroup(g) = <<a, b, c, Pad>>
    BY <1>4, <2>1, EncodesGroup
  <2>3. DecodeQuad(<<a, b, c, Pad>>) = <<x, y>>
    <3>1. DecodeQuad(<<a, b, c, Pad>>) = <<FirstByte(a, b), SecondByte(b, c)>>
      BY DecodesQuad
    <3> QED BY <2>1, <3>1
  <2>4. <<a, b, c, Pad>> \in Seq(Digits) /\ Len(<<a, b, c, Pad>>) = 4
    BY <1>2, <2>1, FourDigits
  <2> QED BY <1>4, <2>2, <2>3, <2>4
<1>5. ASSUME NEW x \in Bytes, NEW y \in Bytes, NEW z \in Bytes, g = <<x, y, z>>
      PROVE  /\ EncodeGroup(g) \in Seq(Digits) /\ Len(EncodeGroup(g)) = 4
             /\ DecodeQuad(EncodeGroup(g)) = g
  <2>1. PICK a, b, c, d \in Sextets :
          /\ a = x \div 4 /\ b = (x % 4) * 16 + y \div 16 /\ c = (y % 16) * 4 + z \div 64 /\ d = z % 64
          /\ FirstByte(a, b) = x /\ SecondByte(b, c) = y /\ ThirdByte(c, d) = z
    BY Bits DEF FirstByte, SecondByte, ThirdByte
  <2>2. EncodeGroup(g) = <<a, b, c, d>>
    BY <1>5, <2>1, EncodesGroup
  <2>3. DecodeQuad(<<a, b, c, d>>) = <<x, y, z>>
    <3>1. DecodeQuad(<<a, b, c, d>>) = <<FirstByte(a, b), SecondByte(b, c), ThirdByte(c, d)>>
      <4>1. a \in Sextets /\ b \in Sextets /\ c \in Sextets /\ d \in Sextets
        OBVIOUS
      <4>2. \A e, f \in Sextets :
              DecodeQuad(<<a, b, e, f>>) = <<FirstByte(a, b), SecondByte(b, e), ThirdByte(e, f)>>
        BY <4>1, DecodesQuad
      <4> QED BY <4>1, <4>2
    <3> QED BY <2>1, <3>1
  <2>4. <<a, b, c, d>> \in Seq(Digits) /\ Len(<<a, b, c, d>>) = 4
    BY <1>2, <2>1, FourDigits
  <2> QED BY <1>5, <2>2, <2>3, <2>4
<1> QED BY <1>3, <1>4, <1>5, Groups

\* What SubSeq returns.
LEMMA Slice ==
  ASSUME NEW S, NEW s \in Seq(S), NEW a \in 1..Len(s), NEW b \in 1..Len(s), NEW m \in Nat, m = b - a + 1
  PROVE  /\ SubSeq(s, a, b) \in Seq(S) /\ Len(SubSeq(s, a, b)) = m
         /\ \A j \in 1..m : SubSeq(s, a, b)[j] = s[a + j - 1]
<1>1. Len(s) \in Nat /\ a \in Nat /\ b \in Nat /\ a..b \subseteq 1..Len(s)
  OBVIOUS
<1>2. SubSeq(s, a, b) = [j \in 1..m |-> s[a + j - 1]]
  OBVIOUS
<1>3. \A j \in 1..m : s[a + j - 1] \in S
  <2>1. ASSUME NEW j \in 1..m PROVE a + j - 1 \in 1..Len(s)
    BY <1>1
  <2> QED BY <2>1
<1>4. PICK t : t = SubSeq(s, a, b)
  OBVIOUS
<1>5. t = [j \in 1..m |-> s[a + j - 1]]
  BY <1>2, <1>4
<1>6. t \in [1..m -> S]
  BY <1>3, <1>5
<1>7. t \in Seq(S) /\ Len(t) = m
  BY <1>6
<1>8. \A j \in 1..m : t[j] = s[a + j - 1]
  BY <1>5
<1> QED BY <1>4, <1>7, <1>8

\* Sequences are equal when their elements are.
LEMMA SameSeq ==
  ASSUME NEW S, NEW x \in Seq(S), NEW y \in Seq(S), Len(x) = Len(y), \A j \in 1..Len(x) : x[j] = y[j]
  PROVE  x = y
  OBVIOUS

\* Whatever bytes are encoded, of any number, decoding gives them back.
THEOREM BytesComeBack ==
  ASSUME NEW data \in Seq(Bytes)
  PROVE  Decode(Encode(data)) = [ok |-> TRUE, data |-> data]
<1> DEFINE l == Len(data)
           n == (l + 2) \div 3
           groups == GroupsOf(data, 3)
           coded == [k \in 1..n |-> EncodeGroup(groups[k])]
           text == Encode(data)
           End(k) == IF 3 * k < l THEN 3 * k ELSE l
           off == [k \in 0..n |-> End(k)]
           pos == [k \in 0..n |-> 4 * k]
<1>1. l \in Nat /\ n \in Nat /\ 3 * n >= l /\ 3 * (n - 1) < l
  OBVIOUS
<1>2. groups = [k \in 1..n |-> SubSeq(data, 3 * (k - 1) + 1, End(k))] /\ Len(groups) = n
  <2>1. groups = [k \in 1..((l + 3 - 1) \div 3) |-> SubSeq(data, 3 * (k - 1) + 1, End(k))]
    BY DEF GroupsOf
  <2>2. (l + 3 - 1) \div 3 = n
    BY <1>1
  <2>3. groups = [k \in 1..n |-> SubSeq(data, 3 * (k - 1) + 1, End(k))]
    BY <2>1, <2>2
  <2> HIDE DEF n, groups, End
  <2> QED BY <1>1, <2>3
<1>3. text = FlattenSeq(coded)
  BY <1>2 DEF Encode
<1> HIDE DEF n, groups, text
<1>4. ASSUME NEW k \in 1..n
      PROVE  /\ groups[k] \in Seq(Bytes) /\ Len(groups[k]) = End(k) - 3 * (k - 1) /\ Len(groups[k]) \in 1..3
             /\ \A j \in 1..Len(groups[k]) : groups[k][j] = data[3 * (k - 1) + j]
  <2>1. 3 * (k - 1) + 1 \in 1..l /\ End(k) \in 1..l /\ End(k) - 3 * (k - 1) \in 1..3
    <3>1. 3 * (k - 1) <= 3 * (n - 1)
      BY <1>1
    <3> QED BY <1>1, <3>1
  <2>2. PICK a, b \in Nat : a = 3 * (k - 1) + 1 /\ b = End(k) /\ a \in 1..l /\ b \in 1..l /\ b - a + 1 \in 1..3
    BY <2>1
  <2>3. groups[k] = SubSeq(data, a, b)
    BY <1>2, <2>2
  <2>7. PICK m \in 1..3 : m = b - a + 1
    BY <2>2
  <2>4. /\ groups[k] \in Seq(Bytes) /\ Len(groups[k]) = m
        /\ \A j \in 1..m : groups[k][j] = data[a + j - 1]
    <3>1. m \in Nat
      OBVIOUS
    <3>2. PICK c \in 1..Len(data), d \in 1..Len(data) : c = a /\ d = b /\ m = d - c + 1
      BY <2>2, <2>7
    <3>3. /\ SubSeq(data, c, d) \in Seq(Bytes) /\ Len(SubSeq(data, c, d)) = m
          /\ \A j \in 1..m : SubSeq(data, c, d)[j] = data[c + j - 1]
      BY <3>1, <3>2, Slice
    <3> QED BY <2>3, <3>2, <3>3
  <2>5. \A j \in 1..3 : a + j - 1 = 3 * (k - 1) + j
    BY <2>2
  <2>6. m = End(k) - 3 * (k - 1)
    BY <1>1, <2>2, <2>7
  <2>8. \A j \in 1..m : groups[k][j] = data[3 * (k - 1) + j]
    <3>1. \A j \in 1..m : j \in 1..3
      OBVIOUS
    <3> QED BY <2>4, <2>5, <3>1
  <2> HIDE DEF End
  <2> QED BY <2>4, <2>6, <2>8
<1>5. /\ coded \in Seq(Seq(Digits)) /\ Len(coded) = n
      /\ \A k \in 1..n : Len(coded[k]) = 4 /\ coded[k] \in Seq(Digits) /\ DecodeQuad(coded[k]) = groups[k]
  <2>1. \A k \in 1..n : Len(coded[k]) = 4 /\ coded[k] \in Seq(Digits) /\ DecodeQuad(coded[k]) = groups[k]
    BY <1>4, GroupComesBack
  <2> QED BY <1>1, <2>1
<1>6. /\ text \in Seq(Digits) /\ Len(text) = 4 * n
      /\ \A k \in 1..n, j \in 1..4 : text[4 * (k - 1) + j] = coded[k][j]
  <2>3. pos[0] = 0 /\ pos[n] = 4 * n
    BY <1>1
  <2>4. ASSUME NEW k \in 1..n
        PROVE  pos[k - 1] = 4 * (k - 1) /\ pos[k - 1] \in Nat /\ pos[k] = pos[k - 1] + 4
    BY <1>1
  <2> HIDE DEF coded, pos
  <2>1. Offsets(pos, coded)
    BY <1>5, <2>3, <2>4 DEF Offsets
  <2>2. /\ text \in Seq(Digits) /\ Len(text) = pos[n]
        /\ \A k \in 1..n : \A j \in 1..Len(coded[k]) : text[pos[k - 1] + j] = coded[k][j]
    <3>1. /\ FlattenSeq(coded) \in Seq(Digits)
          /\ Len(FlattenSeq(coded)) = pos[Len(coded)]
          /\ \A k \in 1..Len(coded) : \A j \in 1..Len(coded[k]) : FlattenSeq(coded)[pos[k - 1] + j] = coded[k][j]
      BY <1>5, <2>1, Pieces
    <3> QED BY <1>3, <1>5, <3>1
  <2>5. ASSUME NEW k \in 1..n, NEW j \in 1..4 PROVE text[4 * (k - 1) + j] = coded[k][j]
    <3>1. Len(coded[k]) = 4
      BY <1>5
    <3> QED BY <2>2, <2>4, <3>1
  <2> QED BY <2>2, <2>3, <2>5
<1> HIDE DEF coded
<1>7. /\ Len(text) % 4 = 0 /\ Len(text) \div 4 = n /\ (Len(text) + 4 - 1) \div 4 = n
  <2>1. PICK d \in Nat, e \in Nat : d = n /\ e = Len(text) /\ e = 4 * d
    BY <1>1, <1>6
  <2>2. e % 4 = 0
    BY <2>1
  <2>3. e \div 4 = d
    BY <2>1
  <2>4. (e + 4 - 1) \div 4 = d
    BY <2>1
  <2> QED BY <2>1, <2>2, <2>3, <2>4
<1>8. \A i \in 1..Len(text) : text[i] \in (0..63) \cup {Pad}
  <2>1. \A i \in 1..Len(text) : text[i] \in Digits
    BY <1>6
  <2> QED BY <2>1 DEF Digits, Sextets
<1>9. ASSUME NEW k \in 1..n PROVE GroupsOf(text, 4)[k] = coded[k]
  <2>1. GroupsOf(text, 4)[k] = SubSeq(text, 4 * (k - 1) + 1, IF 4 * k < Len(text) THEN 4 * k ELSE Len(text))
    BY <1>7 DEF GroupsOf
  <2>2. 4 * k <= 4 * n /\ (IF 4 * k < Len(text) THEN 4 * k ELSE Len(text)) = 4 * k
    <3>1. PICK d, e : d = n /\ e = Len(text) /\ d \in Nat /\ e = 4 * d /\ k <= d /\ k \in Nat
      BY <1>1, <1>6
    <3>2. 4 * k <= 4 * d
      BY <3>1
    <3>3. (IF 4 * k < e THEN 4 * k ELSE e) = 4 * k
      BY <3>1, <3>2
    <3> QED BY <3>1, <3>2, <3>3
  <2>3. PICK a, b \in Nat : /\ a = 4 * (k - 1) + 1 /\ b = 4 * k /\ a \in 1..Len(text) /\ b \in 1..Len(text)
                           /\ b - a + 1 = 4
    BY <1>1, <1>6, <2>2
  <2>4. /\ SubSeq(text, a, b) \in Seq(Digits) /\ Len(SubSeq(text, a, b)) = 4
        /\ \A j \in 1..4 : SubSeq(text, a, b)[j] = text[a + j - 1]
    BY <1>6, <2>3, Slice
  <2>5. \A j \in 1..4 : a + j - 1 = 4 * (k - 1) + j
    BY <2>3
  <2>6. \A j \in 1..4 : SubSeq(text, a, b)[j] = coded[k][j]
    BY <1>6, <2>4, <2>5
  <2>7. SubSeq(text, a, b) = coded[k]
    <3>1. PICK x, y : x = SubSeq(text, a, b) /\ y = coded[k]
      OBVIOUS
    <3>2. x \in Seq(Digits) /\ y \in Seq(Digits) /\ Len(x) = 4 /\ Len(y) = 4 /\ \A j \in 1..4 : x[j] = y[j]
      BY <1>5, <2>4, <2>6, <3>1
    <3>3. x = y
      BY <3>2, SameSeq
    <3> QED BY <3>1, <3>3
  <2> QED BY <2>1, <2>2, <2>3, <2>7
<1>10. Decode(text) = [ok |-> TRUE, data |-> FlattenSeq(groups)]
  <2>1. [k \in 1..n |-> DecodeQuad(GroupsOf(text, 4)[k])] = groups
    <3>1. \A k \in 1..n : DecodeQuad(GroupsOf(text, 4)[k]) = groups[k]
      BY <1>5, <1>9
    <3> QED BY <1>2, <3>1
  <2>2. Decode(text) = [ok |-> TRUE, data |-> FlattenSeq([k \in 1..(Len(text) \div 4) |->
                                                            DecodeQuad(GroupsOf(text, 4)[k])])]
    BY <1>7, <1>8 DEF Decode
  <2> QED BY <1>7, <2>1, <2>2
<1>11. FlattenSeq(groups) = data
  <2>1. Offsets(off, groups)
    <3>1. End(0) = 0 /\ 0 \in 0..n
      BY <1>1
    <3>2. ASSUME NEW k \in 1..n
          PROVE  k \in 0..n /\ k - 1 \in 0..n /\ End(k - 1) = 3 * (k - 1) /\ End(k) \in Nat
      <4>1. 3 * (k - 1) <= 3 * (n - 1)
        BY <1>1
      <4> QED BY <1>1, <4>1
    <3> HIDE DEF End
    <3>3. off[0] = 0
      BY <3>1
    <3>4. ASSUME NEW k \in 1..n PROVE off[k - 1] \in Nat /\ off[k] = off[k - 1] + Len(groups[k])
      <4>1. off[k - 1] = 3 * (k - 1) /\ off[k] = End(k) /\ End(k) \in Nat /\ 3 * (k - 1) \in Nat
        BY <1>1, <3>2
      <4>2. Len(groups[k]) = End(k) - 3 * (k - 1)
        BY <1>4
      <4> QED BY <4>1, <4>2
    <3> HIDE DEF off
    <3> QED BY <1>2, <3>3, <3>4 DEF Offsets
  <2>2. groups \in Seq(Seq(Bytes))
    BY <1>1, <1>2, <1>4
  <2>3. /\ FlattenSeq(groups) \in Seq(Bytes) /\ Len(FlattenSeq(groups)) = off[n]
        /\ \A k \in 1..n : \A j \in 1..Len(groups[k]) : FlattenSeq(groups)[off[k - 1] + j] = groups[k][j]
    <3> HIDE DEF off
    <3>1. /\ FlattenSeq(groups) \in Seq(Bytes) /\ Len(FlattenSeq(groups)) = off[Len(groups)]
          /\ \A k \in 1..Len(groups) : \A j \in 1..Len(groups[k]) :
               FlattenSeq(groups)[off[k - 1] + j] = groups[k][j]
      BY <2>1, <2>2, Pieces
    <3> QED BY <1>2, <3>1
  <2>4. off[n] = l
    BY <1>1
  <2>5. ASSUME NEW i \in 1..l PROVE FlattenSeq(groups)[i] = data[i]
    <3>1. PICK k \in 1..n : 3 * (k - 1) < i /\ i <= End(k)
      <4>1. (i + 2) \div 3 \in 1..n /\ 3 * ((i + 2) \div 3 - 1) < i /\ i <= 3 * ((i + 2) \div 3)
        BY <1>1 DEF n
      <4> QED BY <1>1, <4>1
    <3>2. PICK j \in 1..Len(groups[k]) : i = 3 * (k - 1) + j
      <4>3. End(k) \in Nat
        BY <1>1
      <4>1. Len(groups[k]) = End(k) - 3 * (k - 1) /\ End(k) \in Nat
        <5> HIDE DEF End
        <5> QED BY <1>4, <4>3
      <4> HIDE DEF End
      <4>2. i - 3 * (k - 1) \in 1..Len(groups[k]) /\ i = 3 * (k - 1) + (i - 3 * (k - 1))
        BY <1>1, <3>1, <4>1
      <4> QED BY <4>2
    <3>3. off[k - 1] = 3 * (k - 1)
      <4>1. 3 * (k - 1) <= 3 * (n - 1) /\ k - 1 \in 0..n
        BY <1>1
      <4> QED BY <1>1, <4>1
    <3>4. FlattenSeq(groups)[off[k - 1] + j] = groups[k][j] /\ groups[k][j] = data[3 * (k - 1) + j]
      BY <1>4, <2>3
    <3> QED BY <3>2, <3>3, <3>4
  <2> HIDE DEF off
  <2> QED BY <2>3, <2>4, <2>5
<1> QED BY <1>10, <1>11 DEF text

Single(x) == [k \in 1..1 |-> x]

\* A single piece, joined with nothing.
LEMMA OnePiece ==
  ASSUME NEW S, NEW x \in Seq(S)
  PROVE  FlattenSeq(Single(x)) = x
<1> DEFINE fs == Single(x)
<1>1. fs \in Seq(Seq(S)) /\ Len(fs) = 1 /\ fs[1] = x
  BY DEF Single
<1> HIDE DEF fs
<1>2. PICK t : Joins(t, fs, 1) /\ FlattenSeq(fs) = t[1]
  BY <1>1, FlattenJoins
<1>3. t[0] = <<>> /\ t[1] = t[0] \o x
  <2>1. 1 \in 1..1 /\ 1 - 1 = 0
    OBVIOUS
  <2> QED BY <1>1, <1>2, <2>1 DEF Joins
<1>4. <<>> \o x = x
  OBVIOUS
<1> QED BY <1>2, <1>3, <1>4 DEF fs

\* A sequence no longer than a group is one group.
LEMMA OneGroup ==
  ASSUME NEW S, NEW s \in Seq(S), NEW n \in {3, 4}, Len(s) \in 1..n
  PROVE  GroupsOf(s, n) = Single(s)
<1>1. GroupsOf(s, n) = [k \in 1..((Len(s) + n - 1) \div n) |->
                          SubSeq(s, n * (k - 1) + 1, IF n * k < Len(s) THEN n * k ELSE Len(s))]
  BY DEF GroupsOf
<1>2. (Len(s) + n - 1) \div n = 1
  <2>1. CASE n = 3
    <3>1. \A l \in 1..3 : (l + 3 - 1) \div 3 = 1
      OBVIOUS
    <3> QED BY <2>1, <3>1
  <2>2. CASE n = 4
    <3>1. \A l \in 1..4 : (l + 4 - 1) \div 4 = 1
      OBVIOUS
    <3> QED BY <2>2, <3>1
  <2> QED BY <2>1, <2>2
<1>3. \A k \in 1..1 : n * (k - 1) + 1 = 1 /\ (IF n * k < Len(s) THEN n * k ELSE Len(s)) = Len(s)
  OBVIOUS
<1>4. SubSeq(s, 1, Len(s)) = s
  OBVIOUS
<1> QED BY <1>1, <1>2, <1>3, <1>4, Zenon DEF Single

\* Digits put together and cut again are the same digits.
LEMMA BitsBack ==
  ASSUME NEW a \in Sextets, NEW b \in Sextets, NEW c \in Sextets, NEW d \in Sextets
  PROVE  /\ FirstByte(a, b) \in Bytes /\ SecondByte(b, c) \in Bytes /\ ThirdByte(c, d) \in Bytes
         /\ FirstByte(a, b) \div 4 = a /\ (FirstByte(a, b) % 4) * 16 + SecondByte(b, c) \div 16 = b
         /\ b % 16 = 0 => (FirstByte(a, b) % 4) * 16 = b
         /\ (SecondByte(b, c) % 16) * 4 + ThirdByte(c, d) \div 64 = c
         /\ c % 4 = 0 => (SecondByte(b, c) % 16) * 4 = c
         /\ ThirdByte(c, d) % 64 = d
<1> DEFINE x == a * 4 + b \div 16
           y == (b % 16) * 16 + c \div 4
           z == (c % 4) * 64 + d
<1>1. FirstByte(a, b) = x /\ x \in 0..255
  BY SMT DEF FirstByte, Sextets
<1>2. SecondByte(b, c) = y /\ y \in 0..255
  BY SMT DEF SecondByte, Sextets
<1>3. ThirdByte(c, d) = z /\ z \in 0..255
  BY SMT DEF ThirdByte, Sextets
<1>4. x \div 4 = a /\ x % 4 = b \div 16
  BY SMT DEF Sextets
<1>5. y \div 16 = b % 16 /\ y % 16 = c \div 4
  BY SMT DEF Sextets
<1>6. z \div 64 = c % 4 /\ z % 64 = d
  BY SMT DEF Sextets
<1>7. /\ (b \div 16) * 16 + (b % 16) = b /\ (c \div 4) * 4 + (c % 4) = c
      /\ b % 16 = 0 => (b \div 16) * 16 = b
      /\ c % 4 = 0 => (c \div 4) * 4 = c
  BY SMT DEF Sextets
<1> HIDE DEF x, y, z
<1> QED BY <1>1, <1>2, <1>3, <1>4, <1>5, <1>6, <1>7 DEF Bytes

\* Four digits that an encoder could have written are written again.
THEOREM DigitsComeBack ==
  ASSUME NEW a \in Sextets, NEW b \in Sextets, NEW c \in Digits, NEW d \in Digits,
         c = Pad => d = Pad /\ b % 16 = 0, d = Pad /\ c # Pad => c % 4 = 0
  PROVE  Encode(Decode(<<a, b, c, d>>).data) = <<a, b, c, d>>
<1> DEFINE q == <<a, b, c, d>>
<1>1. q \in Seq(Digits) /\ Len(q) = 4
  <2>1. a \in Digits /\ b \in Digits
    BY DEF Digits
  <2> QED BY <2>1, FourDigits
<1>2. ASSUME NEW g \in Seq(Bytes), Len(g) \in 1..3, DecodeQuad(q) = g, EncodeGroup(g) = q
      PROVE  Encode(Decode(q).data) = q
  <2> HIDE DEF q
  <2>1. Decode(q) = [ok |-> TRUE, data |-> FlattenSeq([k \in 1..1 |-> DecodeQuad(GroupsOf(q, 4)[k])])]
    <3>1. \A i \in 1..4 : q[i] \in (0..63) \cup {Pad}
      <4>1. ASSUME NEW i \in 1..4 PROVE q[i] \in Digits
        <5>1. i \in 1..Len(q)
          BY <1>1
        <5> QED BY <1>1, <5>1, ElementOfSeq
      <4> QED BY <4>1 DEF Digits, Sextets
    <3>2. Len(q) % 4 = 0 /\ Len(q) \div 4 = 1
      BY <1>1
    <3> QED BY <1>1, <3>1, <3>2 DEF Decode
  <2>2. GroupsOf(q, 4) = Single(q)
    BY <1>1, OneGroup
  <2>3. [k \in 1..1 |-> DecodeQuad(GroupsOf(q, 4)[k])] = Single(g)
    BY <1>2, <2>2 DEF Single
  <2>4. Decode(q).data = g
    BY <2>1, <2>3, OnePiece
  <2>5. GroupsOf(g, 3) = Single(g)
    BY <1>2, OneGroup
  <2>6. Encode(g) = FlattenSeq(Single(q))
    <3>1. [k \in 1..Len(GroupsOf(g, 3)) |-> EncodeGroup(GroupsOf(g, 3)[k])] = Single(q)
      BY <1>2, <2>5 DEF Single
    <3> QED BY <3>1 DEF Encode
  <2>7. Encode(g) = q
    BY <1>1, <2>6, OnePiece
  <2> QED BY <2>4, <2>7
<1>3. CASE c = Pad
  <2>6. FirstByte(a, b) \in Bytes
    BY BitsBack
  <2>1. PICK g \in Seq(Bytes) : g = <<FirstByte(a, b)>>
    <3>1. <<FirstByte(a, b)>> \in Seq(Bytes)
      BY <2>6
    <3> QED BY <3>1
  <2>2. DecodeQuad(q) = g
    BY <1>3, <2>1, DecodesQuad
  <2>3. EncodeGroup(g) = q
    <3>1. EncodeGroup(g) = <<FirstByte(a, b) \div 4, (FirstByte(a, b) % 4) * 16, Pad, Pad>>
      BY <2>1, BitsBack, EncodesGroup
    <3> QED BY <1>3, <3>1, BitsBack
  <2>4. Len(g) \in 1..3
    BY <2>1
  <2> QED BY <1>2, <2>2, <2>3, <2>4
<1>4. CASE c # Pad /\ d = Pad
  <2>5. c \in Sextets
    BY <1>4 DEF Digits
  <2>6. FirstByte(a, b) \in Bytes /\ SecondByte(b, c) \in Bytes
    BY <2>5, BitsBack
  <2>1. PICK g \in Seq(Bytes) : g = <<FirstByte(a, b), SecondByte(b, c)>>
    <3>1. <<FirstByte(a, b), SecondByte(b, c)>> \in Seq(Bytes)
      BY <2>6
    <3> QED BY <3>1
  <2>2. DecodeQuad(q) = g
    BY <1>4, <2>1, <2>5, DecodesQuad
  <2>3. EncodeGroup(g) = q
    <3>1. EncodeGroup(g) = <<FirstByte(a, b) \div 4, (FirstByte(a, b) % 4) * 16 + SecondByte(b, c) \div 16,
                             (SecondByte(b, c) % 16) * 4, Pad>>
      BY <2>1, <2>5, BitsBack, EncodesGroup
    <3> QED BY <1>4, <2>5, <3>1, BitsBack
  <2>4. Len(g) \in 1..3
    BY <2>1
  <2> QED BY <1>2, <2>2, <2>3, <2>4
<1>5. CASE c # Pad /\ d # Pad
  <2>5. c \in Sextets /\ d \in Sextets
    BY <1>5 DEF Digits
  <2>6. FirstByte(a, b) \in Bytes /\ SecondByte(b, c) \in Bytes /\ ThirdByte(c, d) \in Bytes
    BY <2>5, BitsBack
  <2>1. PICK g \in Seq(Bytes) : g = <<FirstByte(a, b), SecondByte(b, c), ThirdByte(c, d)>>
    <3>1. <<FirstByte(a, b), SecondByte(b, c), ThirdByte(c, d)>> \in Seq(Bytes)
      BY <2>6
    <3> QED BY <3>1
  <2>2. DecodeQuad(q) = g
    <3>1. \A e, f \in Sextets :
            DecodeQuad(<<a, b, e, f>>) = <<FirstByte(a, b), SecondByte(b, e), ThirdByte(e, f)>>
      BY DecodesQuad
    <3> QED BY <2>1, <2>5, <3>1
  <2>3. EncodeGroup(g) = q
    <3>1. EncodeGroup(g) = <<FirstByte(a, b) \div 4, (FirstByte(a, b) % 4) * 16 + SecondByte(b, c) \div 16,
                             (SecondByte(b, c) % 16) * 4 + ThirdByte(c, d) \div 64, ThirdByte(c, d) % 64>>
      <4>1. \A x, y, z \in Bytes : EncodeGroup(<<x, y, z>>)
              = <<x \div 4, (x % 4) * 16 + y \div 16, (y % 16) * 4 + z \div 64, z % 64>>
        BY EncodesGroup, Zenon
      <4> QED BY <2>1, <2>6, <4>1
    <3> QED BY <2>5, <3>1, BitsBack
  <2>4. Len(g) \in 1..3
    BY <2>1
  <2> QED BY <1>2, <2>2, <2>3, <2>4
<1> QED BY <1>3, <1>4, <1>5

-----------------------------------------------------------------------------
(* Patterns: the parts between the stars, and where they stand in a path.   *)

\* Where each character of a pattern is in s, from the i-th on: a star is left
\* where the next begins, any other character is taken.
Aligned(a, q, s, i) ==
  /\ a \in [i..(Len(q) + 1) -> 1..(Len(s) + 1)]
  /\ a[Len(q) + 1] = Len(s) + 1
  /\ \A k \in i..Len(q) :
       IF q[k] = "*" THEN a[k] <= a[k + 1]
       ELSE a[k] <= Len(s) /\ q[k] = s[a[k]] /\ a[k + 1] = a[k] + 1

\* The tail of q from i on can be laid over the tail of s from j on.
Fits(q, s, i, j) == \E a : Aligned(a, q, s, i) /\ a[i] = j

\* Past the last character of a pattern, only the end of the path is left.
LEMMA FitsEnd ==
  ASSUME NEW S, NEW q \in Seq(S), NEW s \in Seq(S), NEW j \in 1..(Len(s) + 1)
  PROVE  Fits(q, s, Len(q) + 1, j) <=> j > Len(s)
<1> DEFINE n == Len(q)
           l == Len(s)
<1>1. n \in Nat /\ l \in Nat
  OBVIOUS
<1>2. ASSUME Fits(q, s, n + 1, j) PROVE j > l
  BY <1>1, <1>2 DEF Fits, Aligned
<1>3. ASSUME j > l PROVE Fits(q, s, n + 1, j)
  <2> DEFINE a == [k \in (n + 1)..(n + 1) |-> j]
  <2>1. j = l + 1 /\ (n + 1)..n = {}
    BY <1>1, <1>3
  <2>2. Aligned(a, q, s, n + 1) /\ a[n + 1] = j
    BY <1>1, <2>1 DEF Aligned
  <2> QED BY <2>2 DEF Fits
<1> QED BY <1>2, <1>3

\* One more character in front.
LEMMA FitsLonger ==
  ASSUME NEW S, NEW q \in Seq(S), NEW s \in Seq(S), NEW i \in 1..Len(q),
         NEW j \in 1..(Len(s) + 1), NEW a, Aligned(a, q, s, i + 1),
         IF q[i] = "*" THEN j <= a[i + 1] ELSE j <= Len(s) /\ q[i] = s[j] /\ a[i + 1] = j + 1
  PROVE  Fits(q, s, i, j)
<1> DEFINE n == Len(q)
           l == Len(s)
           b == [k \in i..(n + 1) |-> IF k = i THEN j ELSE a[k]]
<1>1. n \in Nat /\ l \in Nat
  OBVIOUS
<1>2. \A k \in (i + 1)..(n + 1) : k \in i..(n + 1) /\ k # i /\ a[k] \in 1..(l + 1)
  BY <1>1 DEF Aligned
<1>3. b[i] = j /\ \A k \in (i + 1)..(n + 1) : b[k] = a[k]
  BY <1>1, <1>2
<1>4. b \in [i..(n + 1) -> 1..(l + 1)]
  BY <1>1, <1>2
<1> HIDE DEF b
<1>5. b[n + 1] = l + 1
  <2>1. n + 1 \in (i + 1)..(n + 1)
    BY <1>1
  <2> QED BY <1>3, <2>1 DEF Aligned
<1>6. ASSUME NEW k \in i..n
      PROVE  IF q[k] = "*" THEN b[k] <= b[k + 1] ELSE b[k] <= l /\ q[k] = s[b[k]] /\ b[k + 1] = b[k] + 1
  <2>1. CASE k = i
    <3>1. i + 1 \in (i + 1)..(n + 1)
      BY <1>1
    <3> QED BY <1>3, <2>1, <3>1
  <2>2. CASE k # i
    <3>1. k \in (i + 1)..n /\ k \in (i + 1)..(n + 1) /\ k + 1 \in (i + 1)..(n + 1)
      BY <1>1, <2>2
    <3>2. IF q[k] = "*" THEN a[k] <= a[k + 1] ELSE a[k] <= l /\ q[k] = s[a[k]] /\ a[k + 1] = a[k] + 1
      BY <3>1 DEF Aligned
    <3> QED BY <1>3, <3>1, <3>2
  <2> QED BY <2>1, <2>2
<1>7. Aligned(b, q, s, i)
  BY <1>4, <1>5, <1>6 DEF Aligned
<1> QED BY <1>3, <1>7 DEF Fits

\* One less.
LEMMA AlignedShorter ==
  ASSUME NEW S, NEW q \in Seq(S), NEW s \in Seq(S), NEW i \in 1..Len(q), NEW a, Aligned(a, q, s, i)
  PROVE  Fits(q, s, i + 1, a[i + 1]) /\ a[i + 1] \in 1..(Len(s) + 1) /\ a[i] \in 1..(Len(s) + 1)
<1> DEFINE n == Len(q)
           l == Len(s)
           b == [k \in (i + 1)..(n + 1) |-> a[k]]
<1>1. n \in Nat /\ l \in Nat
  OBVIOUS
<1>2. /\ \A k \in (i + 1)..(n + 1) : k \in i..(n + 1) /\ b[k] = a[k] /\ a[k] \in 1..(l + 1)
      /\ i + 1 \in (i + 1)..(n + 1) /\ n + 1 \in (i + 1)..(n + 1) /\ i \in i..(n + 1)
  BY <1>1 DEF Aligned
<1>3. b \in [(i + 1)..(n + 1) -> 1..(l + 1)]
  BY <1>2
<1> HIDE DEF b
<1>4. ASSUME NEW k \in (i + 1)..n
      PROVE  IF q[k] = "*" THEN b[k] <= b[k + 1] ELSE b[k] <= l /\ q[k] = s[b[k]] /\ b[k + 1] = b[k] + 1
  <2>1. k \in i..n /\ k \in (i + 1)..(n + 1) /\ k + 1 \in (i + 1)..(n + 1)
    BY <1>1
  <2>2. IF q[k] = "*" THEN a[k] <= a[k + 1] ELSE a[k] <= l /\ q[k] = s[a[k]] /\ a[k + 1] = a[k] + 1
    BY <2>1 DEF Aligned
  <2> QED BY <1>2, <2>1, <2>2
<1>5. b[n + 1] = l + 1
  BY <1>2 DEF Aligned
<1>6. Aligned(b, q, s, i + 1)
  BY <1>3, <1>4, <1>5 DEF Aligned
<1>7. b[i + 1] = a[i + 1]
  BY <1>2
<1>8. a[i] \in 1..(l + 1)
  BY <1>2 DEF Aligned
<1> QED BY <1>2, <1>6, <1>7, <1>8 DEF Fits

\* A star is left at any later place,
LEMMA FitsStar ==
  ASSUME NEW S, NEW q \in Seq(S), NEW s \in Seq(S), NEW i \in 1..Len(q), q[i] = "*",
         NEW j \in 1..(Len(s) + 1)
  PROVE  Fits(q, s, i, j) <=> \E k \in 1..(Len(s) + 1) : Fits(q, s, i + 1, k) /\ j <= k
<1>1. Len(s) \in Nat /\ Len(q) \in Nat
  OBVIOUS
<1>2. ASSUME Fits(q, s, i, j) PROVE \E k \in 1..(Len(s) + 1) : Fits(q, s, i + 1, k) /\ j <= k
  <2>1. PICK a : Aligned(a, q, s, i) /\ a[i] = j
    BY <1>2 DEF Fits
  <2>2. Fits(q, s, i + 1, a[i + 1]) /\ a[i + 1] \in 1..(Len(s) + 1)
    BY <2>1, AlignedShorter
  <2>3. j <= a[i + 1]
    <3>1. i \in i..Len(q)
      BY <1>1
    <3> QED BY <2>1, <3>1 DEF Aligned
  <2> QED BY <2>2, <2>3
<1>3. ASSUME NEW k \in 1..(Len(s) + 1), Fits(q, s, i + 1, k), j <= k PROVE Fits(q, s, i, j)
  <2>1. PICK a : Aligned(a, q, s, i + 1) /\ a[i + 1] = k
    BY <1>3 DEF Fits
  <2>2. j <= a[i + 1]
    BY <1>3, <2>1
  <2> QED BY <2>1, <2>2, FitsLonger
<1> QED BY <1>2, <1>3

\* and any other character is the path's next one.
LEMMA FitsOther ==
  ASSUME NEW S, NEW q \in Seq(S), NEW s \in Seq(S), NEW i \in 1..Len(q), q[i] # "*",
         NEW j \in 1..(Len(s) + 1)
  PROVE  Fits(q, s, i, j) <=> j <= Len(s) /\ q[i] = s[j] /\ Fits(q, s, i + 1, j + 1)
<1>1. Len(s) \in Nat /\ Len(q) \in Nat
  OBVIOUS
<1>2. ASSUME Fits(q, s, i, j) PROVE j <= Len(s) /\ q[i] = s[j] /\ Fits(q, s, i + 1, j + 1)
  <2>1. PICK a : Aligned(a, q, s, i) /\ a[i] = j
    BY <1>2 DEF Fits
  <2>2. Fits(q, s, i + 1, a[i + 1])
    BY <2>1, AlignedShorter
  <2>3. j <= Len(s) /\ q[i] = s[j] /\ a[i + 1] = j + 1
    <3>1. i \in i..Len(q)
      BY <1>1
    <3> QED BY <2>1, <3>1 DEF Aligned
  <2> QED BY <2>2, <2>3
<1>3. ASSUME j <= Len(s), q[i] = s[j], Fits(q, s, i + 1, j + 1) PROVE Fits(q, s, i, j)
  <2>1. PICK a : Aligned(a, q, s, i + 1) /\ a[i + 1] = j + 1
    BY <1>3 DEF Fits
  <2> QED BY <1>3, <2>1, FitsLonger
<1> QED BY <1>2, <1>3

\* What the places computed from the end of the pattern say.
LEMMA MatchesIs ==
  ASSUME NEW S, NEW q \in Seq(S), NEW s \in Seq(S)
  PROVE  Matches(q, s) <=> Fits(q, s, 1, 1)
<1> DEFINE n == Len(q)
           l == Len(s)
           rest(m, i) == IF i > n THEN {l + 1}
                         ELSE IF q[i] = "*" THEN {j \in 1..(l + 1) : \E k \in m[i + 1] : j <= k}
                         ELSE {j \in 1..l : q[i] = s[j] /\ j + 1 \in m[i + 1]}
           Is(m) == m = [i \in 1..(n + 1) |-> rest(m, i)]
           h == [i \in 1..(n + 1) |-> {j \in 1..(l + 1) : Fits(q, s, i, j)}]
           m == CHOOSE f : Is(f)
<1>1. n \in Nat /\ l \in Nat /\ 1 \in 1..(n + 1) /\ 1 \in 1..(l + 1) /\ n + 1 \in 1..(n + 1)
  OBVIOUS
<1>2. Matches(q, s) <=> 1 \in m[1]
  BY DEF Matches
<1>3. ASSUME NEW i \in 1..(n + 1) PROVE h[i] = rest(h, i)
  <2>0. \A x \in 1..(n + 1) : h[x] = {j \in 1..(l + 1) : Fits(q, s, x, j)}
    OBVIOUS
  <2> HIDE DEF h
  <2>1. CASE i > n
    <3>1. i = n + 1
      BY <1>1, <2>1
    <3>2. \A j \in 1..(l + 1) : Fits(q, s, n + 1, j) <=> j > l
      BY FitsEnd
    <3>3. h[i] = {j \in 1..(l + 1) : j > l}
      BY <2>0, <3>1, <3>2
    <3>4. {j \in 1..(l + 1) : j > l} = {l + 1}
      BY <1>1
    <3> QED BY <2>1, <3>3, <3>4
  <2>2. CASE i <= n
    <3>1. i \in 1..n /\ ~(i > n) /\ i + 1 \in 1..(n + 1)
      BY <1>1, <2>2
    <3>2. h[i + 1] = {k \in 1..(l + 1) : Fits(q, s, i + 1, k)}
      BY <2>0, <3>1
    <3>3. ASSUME q[i] = "*"
          PROVE  {j \in 1..(l + 1) : Fits(q, s, i, j)} = {j \in 1..(l + 1) : \E k \in h[i + 1] : j <= k}
      <4>1. \A j \in 1..(l + 1) :
              Fits(q, s, i, j) <=> \E k \in 1..(l + 1) : Fits(q, s, i + 1, k) /\ j <= k
        BY <3>1, <3>3, FitsStar
      <4> QED BY <3>2, <4>1
    <3>4. ASSUME q[i] # "*"
          PROVE  {j \in 1..(l + 1) : Fits(q, s, i, j)} = {j \in 1..l : q[i] = s[j] /\ j + 1 \in h[i + 1]}
      <4>1. \A j \in 1..(l + 1) :
              Fits(q, s, i, j) <=> j <= l /\ q[i] = s[j] /\ Fits(q, s, i + 1, j + 1)
        BY <3>1, <3>4, FitsOther
      <4>2. \A j \in 1..l : j \in 1..(l + 1) /\ j + 1 \in 1..(l + 1) /\ j <= l
        BY <1>1
      <4>3. \A j \in 1..(l + 1) : j <= l => j \in 1..l
        BY <1>1
      <4> QED BY <3>2, <4>1, <4>2, <4>3
    <3> QED BY <2>0, <3>1, <3>3, <3>4
  <2> QED BY <1>1, <2>1, <2>2
<1> HIDE DEF rest
<1>5. Is(h)
  <2>1. h = [i \in 1..(n + 1) |-> h[i]]
    OBVIOUS
  <2> HIDE DEF h
  <2> QED BY <1>3, <2>1
<1>6. Is(m)
  <2> HIDE DEF Is
  <2> QED BY <1>5
<1> HIDE DEF m
<1>7. \A i \in 1..(n + 1) : m[i] = rest(m, i)
  BY <1>6
<1> HIDE DEF h, Is
<1> DEFINE P == {d \in 0..n : m[n + 1 - d] = h[n + 1 - d]}
<1>8. 0 \in P
  <2>1. m[n + 1] = h[n + 1]
    <3>1. n + 1 > n
      BY <1>1
    <3>2. rest(m, n + 1) = rest(h, n + 1)
      BY <3>1 DEF rest
    <3> QED BY <1>1, <1>3, <1>7, <3>2
  <2>2. n + 1 - 0 = n + 1 /\ 0 \in 0..n
    BY <1>1
  <2> QED BY <2>1, <2>2
<1>9. ASSUME NEW d \in 1..n, d - 1 \in P PROVE d \in P
  <2>1. PICK i \in 1..n : i = n + 1 - d /\ i + 1 = n + 1 - (d - 1) /\ i \in 1..(n + 1) /\ d \in 0..n
    <3>1. n + 1 - d \in 1..n /\ n + 1 - d + 1 = n + 1 - (d - 1) /\ n + 1 - d \in 1..(n + 1) /\ d \in 0..n
      BY <1>1
    <3> QED BY <3>1
  <2>2. m[i + 1] = h[i + 1]
    BY <1>9, <2>1
  <2>3. rest(m, i) = rest(h, i)
    BY <2>2 DEF rest
  <2>4. m[i] = h[i]
    BY <1>3, <1>7, <2>1, <2>3
  <2> QED BY <2>1, <2>4
<1> HIDE DEF P
<1>10. m[1] = h[1]
  <2>1. n \in 0..n /\ n + 1 - n = 1
    BY <1>1
  <2>2. n \in P
    <3>1. \A d \in 0..n : d \in P
      BY <1>1, <1>8, <1>9, Induct
    <3> QED BY <2>1, <3>1
  <2> QED BY <2>1, <2>2 DEF P
<1>11. 1 \in h[1] <=> Fits(q, s, 1, 1)
  BY <1>1 DEF h
<1> QED BY <1>2, <1>10, <1>11

PartsStep(parts, c) == IF c = "*" THEN Append(parts, <<>>)
                       ELSE Append(Front(parts), Append(Last(parts), c))
MatchStep(found, i, t, s) == IF At(t, s, i) /\ \A j \in found : i >= j + Len(t)
                             THEN found \cup {i} ELSE found
ConsumeStep(pos, m, s) ==
  LET ahead == {i \in Occurrences(m, s) : i >= pos}
  IN  IF pos = 0 \/ m = <<>> THEN pos
      ELSE IF ahead = {} THEN 0 ELSE Min(ahead) + Len(m)

\* The last part grows, or an empty one follows it.
LEMMA PartsStepTyped ==
  ASSUME NEW S, NEW parts \in Seq(Seq(S)), parts # <<>>, NEW c \in S
  PROVE  /\ PartsStep(parts, c) \in Seq(Seq(S)) \ {<<>>}
         /\ c = "*" => /\ Len(PartsStep(parts, c)) = Len(parts) + 1
                       /\ PartsStep(parts, c)[Len(parts) + 1] = <<>>
                       /\ \A m \in 1..Len(parts) : PartsStep(parts, c)[m] = parts[m]
         /\ c # "*" => /\ Len(PartsStep(parts, c)) = Len(parts)
                       /\ PartsStep(parts, c)[Len(parts)] = Append(parts[Len(parts)], c)
                       /\ \A m \in 1..(Len(parts) - 1) : PartsStep(parts, c)[m] = parts[m]
<1> DEFINE n == Len(parts)
           next == PartsStep(parts, c)
<1>1. n \in Nat /\ n >= 1 /\ \A m \in 1..n : parts[m] \in Seq(S)
  OBVIOUS
<1>2. CASE c = "*"
  <2>1. next = Append(parts, <<>>)
    BY <1>2 DEF PartsStep
  <2>2. PICK empty \in Seq(S) : empty = <<>>
    <3>1. <<>> \in Seq(S)
      OBVIOUS
    <3> QED BY <3>1
  <2>3. /\ Append(parts, empty) \in Seq(Seq(S)) /\ Len(Append(parts, empty)) = n + 1
        /\ Append(parts, empty)[n + 1] = empty
        /\ \A m \in 1..n : Append(parts, empty)[m] = parts[m]
    BY <1>1, AppendProperties
  <2>4. Append(parts, empty) # <<>>
    BY <1>1, <2>3
  <2> HIDE DEF next
  <2> QED BY <1>2, <2>1, <2>2, <2>3, <2>4 DEF next
<1>3. CASE c # "*"
  <2>1. PICK grown \in Seq(S) : grown = Append(parts[n], c)
    <3>1. parts[n] \in Seq(S)
      BY <1>1
    <3> QED BY <3>1, AppendProperties
  <2>2. PICK f : f = SubSeq(parts, 1, n - 1)
    OBVIOUS
  <2>3. f \in Seq(Seq(S)) /\ Len(f) = n - 1 /\ \A m \in 1..(n - 1) : f[m] = parts[m]
    <3>1. f = [m \in 1..(n - 1) |-> parts[m]]
      BY <1>1, <2>2
    <3>2. \A m \in 1..(n - 1) : parts[m] \in Seq(S)
      BY <1>1
    <3> QED BY <1>1, <3>1, <3>2
  <2>4. next = Append(f, grown)
    BY <1>3, <2>1, <2>2 DEF PartsStep, Front, Last
  <2>5. /\ Append(f, grown) \in Seq(Seq(S)) /\ Len(Append(f, grown)) = Len(f) + 1
        /\ Append(f, grown)[Len(f) + 1] = grown
        /\ \A m \in 1..Len(f) : Append(f, grown)[m] = f[m]
    BY <2>3, AppendProperties
  <2>6. n - 1 + 1 = n
    BY <1>1
  <2>7. Append(f, grown) # <<>>
    BY <1>1, <2>3, <2>5
  <2> HIDE DEF next
  <2> QED BY <1>3, <2>1, <2>3, <2>4, <2>5, <2>6, <2>7 DEF next
<1> QED BY <1>2, <1>3

\* An occurrence, character by character.
LEMMA AtIsStands ==
  ASSUME NEW S, NEW t \in Seq(S), NEW s \in Seq(S), NEW i \in 1..(Len(s) + 1)
  PROVE  At(t, s, i) <=> /\ i + Len(t) <= Len(s) + 1
                         /\ \A k \in 1..Len(t) : s[i + k - 1] = t[k]
<1> DEFINE n == Len(t)
           l == Len(s)
<1>1. n \in Nat /\ l \in Nat /\ i \in Nat /\ i >= 1
  OBVIOUS
<1>2. CASE i + n - 1 <= l
  <2>1. SubSeq(s, i, i + n - 1) = [k \in 1..n |-> s[i + k - 1]]
    BY <1>1, <1>2
  <2>2. t = [k \in 1..n |-> t[k]]
    OBVIOUS
  <2>3. SubSeq(s, i, i + n - 1) = t <=> \A k \in 1..n : s[i + k - 1] = t[k]
    BY <2>1, <2>2
  <2>4. i + n <= l + 1
    BY <1>1, <1>2
  <2> QED BY <1>2, <2>3, <2>4 DEF At
<1>3. CASE ~(i + n - 1 <= l)
  <2>1. ~(i + n <= l + 1)
    BY <1>1, <1>3
  <2> QED BY <1>3, <2>1 DEF At
<1> QED BY <1>2, <1>3

\* The place after a literal is one of the path, or 0.
LEMMA ConsumeStepTyped ==
  ASSUME NEW S, NEW m \in Seq(S), NEW s \in Seq(S), NEW pos \in 0..(Len(s) + 1)
  PROVE  /\ ConsumeStep(pos, m, s) \in 0..(Len(s) + 1)
         /\ ConsumeStep(pos, m, s) # 0 =>
              /\ pos # 0
              /\ \E i \in 1..(Len(s) + 1) : i >= pos /\ At(m, s, i) /\ ConsumeStep(pos, m, s) = i + Len(m)
         /\ pos # 0 => \A i \in 1..(Len(s) + 1) :
              i >= pos /\ At(m, s, i) => ConsumeStep(pos, m, s) # 0 /\ ConsumeStep(pos, m, s) <= i + Len(m)
<1> DEFINE l == Len(s)
           ahead == {i \in Occurrences(m, s) : i >= pos}
           c == ConsumeStep(pos, m, s)
<1>1. l \in Nat /\ Len(m) \in Nat /\ pos \in Nat
  OBVIOUS
<1>2. ahead = {i \in 1..(l + 1) : At(m, s, i) /\ i >= pos}
  BY DEF Occurrences
<1>3. c = IF pos = 0 \/ m = <<>> THEN pos ELSE IF ahead = {} THEN 0 ELSE Min(ahead) + Len(m)
  BY DEF ConsumeStep
<1>4. \A i \in 1..(l + 1) : At(m, s, i) => i + Len(m) <= l + 1
  BY AtIsStands
<1> HIDE DEF c, ahead
<1>5. CASE pos = 0
  BY <1>1, <1>3, <1>5 DEF c
<1>6. CASE pos # 0 /\ m = <<>>
  <2>1. c = pos /\ pos \in 1..(l + 1) /\ Len(m) = 0
    BY <1>1, <1>3, <1>6
  <2>2. At(m, s, pos)
    <3>1. pos + Len(m) <= l + 1 /\ 1..Len(m) = {}
      BY <1>1, <2>1
    <3> QED BY <2>1, <3>1, AtIsStands
  <2>3. pos + Len(m) = pos /\ pos >= pos /\ \A i \in 1..(l + 1) : i >= pos => pos <= i + Len(m)
    BY <1>1, <2>1
  <2> QED BY <1>6, <2>1, <2>2, <2>3 DEF c
<1>7. CASE pos # 0 /\ m # <<>> /\ ahead = {}
  <2>1. c = 0
    BY <1>3, <1>7
  <2> QED BY <1>1, <1>2, <1>7, <2>1 DEF c
<1>8. CASE pos # 0 /\ m # <<>> /\ ahead # {}
  <2>1. PICK x \in ahead : \A y \in ahead : x <= y
    <3>1. ahead \subseteq Nat
      BY <1>2
    <3> QED BY <1>8, <3>1, Least
  <2>2. Min(ahead) \in ahead /\ \A y \in ahead : Min(ahead) <= y
    BY <2>1 DEF Min
  <2>3. PICK i : i = Min(ahead) /\ i \in 1..(l + 1) /\ At(m, s, i) /\ i >= pos /\ c = i + Len(m)
    BY <1>2, <1>3, <1>8, <2>2
  <2>4. c \in 1..(l + 1)
    BY <1>1, <1>4, <2>3
  <2>5. ASSUME NEW j \in 1..(l + 1), j >= pos, At(m, s, j) PROVE c <= j + Len(m)
    <3>1. i <= j
      BY <1>2, <2>2, <2>3, <2>5
    <3> QED BY <1>1, <2>3, <3>1
  <2> QED BY <1>1, <1>8, <2>3, <2>4, <2>5 DEF c
<1> QED BY <1>5, <1>6, <1>7, <1>8

\* The three folds of the search, step by step: the parts of a pattern,
LEMMA PartsChain ==
  ASSUME NEW S, NEW p \in Seq(S)
  PROVE  \E r : /\ r[0] = << <<>> >> /\ r[Len(p)] = Parts(p)
                /\ \A k \in 0..Len(p) : r[k] \in (Seq(Seq(S)) \ {<<>>})
                /\ \A k \in 1..Len(p) : r[k] = PartsStep(r[k - 1], p[k])
<1> DEFINE n == Len(p)
           V == (Seq(Seq(S)) \ {<<>>})
           base == << <<>> >>
           step(v, i) == PartsStep(v, p[i])
           F == [i \in 1..n |-> [v \in V |-> step(v, i)]]
           Is(it) == it = [x \in SUBSET (1..n) |-> IF x = {} THEN base ELSE step(it[x \ {Max(x)}], Max(x))]
           h == CHOOSE it : Is(it)
<1>1. n \in Nat
  OBVIOUS
<1>0. DOMAIN p = 1..n
  OBVIOUS
<1>2. Parts(p) = h[1..n]
  BY <1>0 DEF Parts, PartsStep, FoldLeft, MapThenFoldSet
<1>3. base \in V
  <2>1. <<>> \in Seq(S)
    OBVIOUS
  <2>2. << <<>> >> \in Seq(Seq(S)) /\ << <<>> >> # <<>>
    BY <2>1
  <2> QED BY <2>2
<1>4. ASSUME NEW v \in V, NEW i \in 1..n PROVE step(v, i) \in V
  <2>1. v \in Seq(Seq(S)) /\ v # <<>> /\ p[i] \in S
    BY <1>1
  <2> QED BY <2>1, PartsStepTyped
<1> HIDE DEF n, V, base, step
<1>5. ASSUME NEW v \in V, NEW i \in 1..n PROVE F[i][v] = step(v, i) /\ F[i][v] \in V
  BY <1>4
<1> HIDE DEF F
<1>6. PICK g : /\ g \in [SUBSET (1..n) -> V] /\ g[{}] = base
               /\ \A x \in SUBSET (1..n) : x # {} => g[x] = F[Max(x)][g[x \ {Max(x)}]]
               /\ \A x \in SUBSET (1..n) : x # {} => Max(x) \in 1..n /\ x \ {Max(x)} \in SUBSET (1..n)
  <2>1. \A v \in V, i \in 1..n : F[i][v] \in V
    BY <1>5
  <2> QED BY <1>1, <1>3, <2>1, FoldExists
<1>7. Is(g)
  <2>1. ASSUME NEW x \in SUBSET (1..n), x # {} PROVE g[x] = step(g[x \ {Max(x)}], Max(x))
    <3>1. Max(x) \in 1..n /\ g[x \ {Max(x)}] \in V
      BY <1>6, <2>1
    <3> QED BY <1>5, <1>6, <2>1, <3>1
  <2> QED BY <1>6, <2>1
<1>8. Is(h)
  <2> HIDE DEF Is
  <2> QED BY <1>7
<1> HIDE DEF h
<1> DEFINE r == [k \in 0..n |-> h[1..k]]
<1>9. r[0] = base /\ r[n] = h[1..n]
  <2>1. 1..0 = {} /\ 0 \in 0..n /\ n \in 0..n
    BY <1>1
  <2>2. h[{}] = base
    BY <1>8
  <2> QED BY <2>1, <2>2
<1>10. ASSUME NEW k \in 1..n PROVE r[k] = step(r[k - 1], k)
  <2>1. k \in 0..n /\ k - 1 \in 0..n
    BY <1>1
  <2>2. h[1..k] = step(h[(1..k) \ {Max(1..k)}], Max(1..k))
    BY <1>1, <1>8, FirstNumbers
  <2>3. h[1..k] = step(h[1..(k - 1)], k)
    BY <1>1, <2>2, FirstNumbers
  <2> QED BY <2>1, <2>3
<1> HIDE DEF r
<1> DEFINE P == {k \in 0..n : r[k] \in V}
<1>11. 0 \in P
  BY <1>1, <1>3, <1>9
<1>12. ASSUME NEW k \in 1..n, k - 1 \in P PROVE k \in P
  <2>1. k \in 0..n
    BY <1>1
  <2> QED BY <1>4, <1>10, <1>12, <2>1
<1> HIDE DEF P
<1>13. \A k \in 0..n : k \in P
  BY <1>1, <1>11, <1>12, Induct
<1>14. \A k \in 0..n : r[k] \in V
  BY <1>13 DEF P
<1>15. \A k \in 1..n : r[k] = step(r[k - 1], k)
  BY <1>10
<1> QED BY <1>2, <1>9, <1>14, <1>15 DEF n, V, base, step

\* What match_indices has found after each place.
Searched(r, t, s) ==
  /\ r[0] = {} /\ r[Len(s)] = match_indices(t, s)
  /\ \A k \in 1..Len(s) : r[k] = MatchStep(r[k - 1], k, t, s)

\* what is found of the first part,
LEMMA MatchChain ==
  ASSUME NEW S, NEW t \in Seq(S), NEW s \in Seq(S)
  PROVE  \E r : Searched(r, t, s)
<1> DEFINE n == Len(s)
           V == (SUBSET Nat)
           base == {}
           step(v, i) == MatchStep(v, [j \in 1..Len(s) |-> j][i], t, s)
           F == [i \in 1..n |-> [v \in V |-> step(v, i)]]
           Is(it) == it = [x \in SUBSET (1..n) |-> IF x = {} THEN base ELSE step(it[x \ {Max(x)}], Max(x))]
           h == CHOOSE it : Is(it)
<1>1. n \in Nat
  OBVIOUS
<1>2. match_indices(t, s) = h[1..n]
  BY <1>1 DEF match_indices, MatchStep, FoldLeft, MapThenFoldSet
<1>3. base \in V
  OBVIOUS
<1>4. ASSUME NEW v \in V, NEW i \in 1..n PROVE step(v, i) \in V
  BY <1>1 DEF MatchStep
<1> HIDE DEF n, V, base, step
<1>5. ASSUME NEW v \in V, NEW i \in 1..n PROVE F[i][v] = step(v, i) /\ F[i][v] \in V
  BY <1>4
<1> HIDE DEF F
<1>6. PICK g : /\ g \in [SUBSET (1..n) -> V] /\ g[{}] = base
               /\ \A x \in SUBSET (1..n) : x # {} => g[x] = F[Max(x)][g[x \ {Max(x)}]]
               /\ \A x \in SUBSET (1..n) : x # {} => Max(x) \in 1..n /\ x \ {Max(x)} \in SUBSET (1..n)
  <2>1. \A v \in V, i \in 1..n : F[i][v] \in V
    BY <1>5
  <2> QED BY <1>1, <1>3, <2>1, FoldExists
<1>7. Is(g)
  <2>1. ASSUME NEW x \in SUBSET (1..n), x # {} PROVE g[x] = step(g[x \ {Max(x)}], Max(x))
    <3>1. Max(x) \in 1..n /\ g[x \ {Max(x)}] \in V
      BY <1>6, <2>1
    <3> QED BY <1>5, <1>6, <2>1, <3>1
  <2> QED BY <1>6, <2>1
<1>8. Is(h)
  <2> HIDE DEF Is
  <2> QED BY <1>7
<1> HIDE DEF h
<1> DEFINE r == [k \in 0..n |-> h[1..k]]
<1>9. r[0] = base /\ r[n] = h[1..n]
  <2>1. 1..0 = {} /\ 0 \in 0..n /\ n \in 0..n
    BY <1>1
  <2>2. h[{}] = base
    BY <1>8
  <2> QED BY <2>1, <2>2
<1>10. ASSUME NEW k \in 1..n PROVE r[k] = step(r[k - 1], k)
  <2>1. k \in 0..n /\ k - 1 \in 0..n
    BY <1>1
  <2>2. h[1..k] = step(h[(1..k) \ {Max(1..k)}], Max(1..k))
    BY <1>1, <1>8, FirstNumbers
  <2>3. h[1..k] = step(h[1..(k - 1)], k)
    BY <1>1, <2>2, FirstNumbers
  <2> QED BY <2>1, <2>3
<1> HIDE DEF r
<1>15. \A k \in 1..n : r[k] = step(r[k - 1], k)
  BY <1>10
<1>16. /\ r[0] = {} /\ r[Len(s)] = match_indices(t, s)
       /\ \A k \in 1..Len(s) : r[k] = MatchStep(r[k - 1], k, t, s)
  BY <1>2, <1>9, <1>15 DEF n, V, base, step
<1> QED BY <1>16 DEF Searched

\* and where each literal in turn is consumed.
LEMMA ConsumeChain ==
  ASSUME NEW S, NEW lits \in Seq(Seq(S)), NEW s \in Seq(S), NEW from \in 0..(Len(s) + 1)
  PROVE  \E r : /\ r[0] = from /\ r[Len(lits)] = Consume(lits, s, from)
                /\ \A k \in 0..Len(lits) : r[k] \in (0..(Len(s) + 1))
                /\ \A k \in 1..Len(lits) : r[k] = ConsumeStep(r[k - 1], lits[k], s)
<1> DEFINE n == Len(lits)
           V == (0..(Len(s) + 1))
           base == from
           step(v, i) == ConsumeStep(v, lits[i], s)
           F == [i \in 1..n |-> [v \in V |-> step(v, i)]]
           Is(it) == it = [x \in SUBSET (1..n) |-> IF x = {} THEN base ELSE step(it[x \ {Max(x)}], Max(x))]
           h == CHOOSE it : Is(it)
<1>1. n \in Nat
  OBVIOUS
<1>0. DOMAIN lits = 1..n
  OBVIOUS
<1>2. Consume(lits, s, from) = h[1..n]
  BY <1>0 DEF Consume, ConsumeStep, FoldLeft, MapThenFoldSet
<1>3. base \in V
  OBVIOUS
<1>4. ASSUME NEW v \in V, NEW i \in 1..n PROVE step(v, i) \in V
  <2>1. lits[i] \in Seq(S)
    BY <1>1
  <2> QED BY <2>1, ConsumeStepTyped
<1> HIDE DEF n, V, base, step
<1>5. ASSUME NEW v \in V, NEW i \in 1..n PROVE F[i][v] = step(v, i) /\ F[i][v] \in V
  BY <1>4
<1> HIDE DEF F
<1>6. PICK g : /\ g \in [SUBSET (1..n) -> V] /\ g[{}] = base
               /\ \A x \in SUBSET (1..n) : x # {} => g[x] = F[Max(x)][g[x \ {Max(x)}]]
               /\ \A x \in SUBSET (1..n) : x # {} => Max(x) \in 1..n /\ x \ {Max(x)} \in SUBSET (1..n)
  <2>1. \A v \in V, i \in 1..n : F[i][v] \in V
    BY <1>5
  <2> QED BY <1>1, <1>3, <2>1, FoldExists
<1>7. Is(g)
  <2>1. ASSUME NEW x \in SUBSET (1..n), x # {} PROVE g[x] = step(g[x \ {Max(x)}], Max(x))
    <3>1. Max(x) \in 1..n /\ g[x \ {Max(x)}] \in V
      BY <1>6, <2>1
    <3> QED BY <1>5, <1>6, <2>1, <3>1
  <2> QED BY <1>6, <2>1
<1>8. Is(h)
  <2> HIDE DEF Is
  <2> QED BY <1>7
<1> HIDE DEF h
<1> DEFINE r == [k \in 0..n |-> h[1..k]]
<1>9. r[0] = base /\ r[n] = h[1..n]
  <2>1. 1..0 = {} /\ 0 \in 0..n /\ n \in 0..n
    BY <1>1
  <2>2. h[{}] = base
    BY <1>8
  <2> QED BY <2>1, <2>2
<1>10. ASSUME NEW k \in 1..n PROVE r[k] = step(r[k - 1], k)
  <2>1. k \in 0..n /\ k - 1 \in 0..n
    BY <1>1
  <2>2. h[1..k] = step(h[(1..k) \ {Max(1..k)}], Max(1..k))
    BY <1>1, <1>8, FirstNumbers
  <2>3. h[1..k] = step(h[1..(k - 1)], k)
    BY <1>1, <2>2, FirstNumbers
  <2> QED BY <2>1, <2>3
<1> HIDE DEF r
<1> DEFINE P == {k \in 0..n : r[k] \in V}
<1>11. 0 \in P
  BY <1>1, <1>3, <1>9
<1>12. ASSUME NEW k \in 1..n, k - 1 \in P PROVE k \in P
  <2>1. k \in 0..n
    BY <1>1
  <2> QED BY <1>4, <1>10, <1>12, <2>1
<1> HIDE DEF P
<1>13. \A k \in 0..n : k \in P
  BY <1>1, <1>11, <1>12, Induct
<1>14. \A k \in 0..n : r[k] \in V
  BY <1>13 DEF P
<1>15. \A k \in 1..n : r[k] = step(r[k - 1], k)
  BY <1>10
<1> QED BY <1>2, <1>9, <1>14, <1>15 DEF n, V, base, step

\* Where the parts of a pattern stand in it: one star between any two of them,
\* none inside, and the last ends before e.
Laid(parts, st, q, e) ==
  /\ \A m \in 1..Len(parts) :
       /\ st[m] \in Nat \ {0} /\ st[m] + Len(parts[m]) <= e
       /\ \A x \in 1..Len(parts[m]) : q[st[m] + x - 1] = parts[m][x] /\ parts[m][x] # "*"
  /\ \A m \in 1..(Len(parts) - 1) :
       st[m + 1] = st[m] + Len(parts[m]) + 1 /\ q[st[m] + Len(parts[m])] = "*"
  /\ st[Len(parts)] + Len(parts[Len(parts)]) = e

\* One character more is a star, which ends a part, or is the last part's.
LEMMA LaidStep ==
  ASSUME NEW S, NEW parts \in Seq(Seq(S)), parts # <<>>, NEW q \in Seq(S), NEW k \in 1..Len(q),
         NEW st, Laid(parts, st, q, k)
  PROVE  \E w : Laid(PartsStep(parts, q[k]), w, q, k + 1) /\ w[1] = st[1]
<1> DEFINE n == Len(parts)
           next == PartsStep(parts, q[k])
<1>1. n \in Nat /\ n >= 1 /\ n \in 1..n /\ k \in Nat /\ q[k] \in S
  OBVIOUS
<1>2. \A m \in 1..n : Len(parts[m]) \in Nat /\ st[m] \in Nat \ {0}
  <2>1. \A m \in 1..n : parts[m] \in Seq(S)
    BY ElementOfSeq
  <2> QED BY <2>1 DEF Laid
<1>3. st[n] + Len(parts[n]) = k
  BY DEF Laid
<1>4. \A m \in 1..(n - 1) : st[m + 1] = st[m] + Len(parts[m]) + 1 /\ q[st[m] + Len(parts[m])] = "*"
  BY DEF Laid
<1>5. ASSUME NEW m \in 1..n
      PROVE  /\ st[m] + Len(parts[m]) <= k + 1
             /\ \A x \in 1..Len(parts[m]) : q[st[m] + x - 1] = parts[m][x] /\ parts[m][x] # "*"
  <2>1. st[m] + Len(parts[m]) <= k
    BY DEF Laid
  <2>2. st[m] + Len(parts[m]) <= k + 1
    BY <1>1, <1>2, <2>1
  <2> QED BY <2>2 DEF Laid
<1>6. CASE q[k] = "*"
  <2> DEFINE w == [m \in 1..(n + 1) |-> IF m = n + 1 THEN k + 1 ELSE st[m]]
  <2>1. /\ Len(next) = n + 1 /\ next[n + 1] = <<>> /\ \A m \in 1..n : next[m] = parts[m]
    BY <1>1, <1>6, PartsStepTyped
  <2>2. w[n + 1] = k + 1 /\ \A m \in 1..n : w[m] = st[m]
    BY <1>1
  <2> HIDE DEF w, next, n
  <2>3. ASSUME NEW m \in 1..(n + 1)
        PROVE  /\ w[m] \in Nat \ {0} /\ w[m] + Len(next[m]) <= k + 1
               /\ \A x \in 1..Len(next[m]) : q[w[m] + x - 1] = next[m][x] /\ next[m][x] # "*"
    <3>1. CASE m = n + 1
      <4>1. Len(next[m]) = 0 /\ w[m] = k + 1 /\ 1..Len(next[m]) = {}
        BY <2>1, <2>2, <3>1
      <4>2. w[m] + Len(next[m]) <= k + 1 /\ w[m] \in Nat \ {0}
        BY <1>1, <4>1
      <4> QED BY <4>1, <4>2
    <3>2. CASE m # n + 1
      <4>1. m \in 1..n
        BY <1>1, <3>2
      <4> QED BY <1>2, <1>5, <2>1, <2>2, <4>1, Zenon
    <3> QED BY <3>1, <3>2
  <2>4. ASSUME NEW m \in 1..n
        PROVE  w[m + 1] = w[m] + Len(next[m]) + 1 /\ q[w[m] + Len(next[m])] = "*"
    <3>1. w[m] = st[m] /\ next[m] = parts[m]
      BY <2>1, <2>2
    <3>2. CASE m = n
      <4>1. w[m + 1] = k + 1 /\ w[m] + Len(next[m]) = k
        BY <1>3, <2>2, <3>1, <3>2
      <4> QED BY <1>6, <4>1
    <3>3. CASE m # n
      <4>1. m \in 1..(n - 1) /\ m + 1 \in 1..n
        BY <1>1, <3>3
      <4>2. w[m + 1] = st[m + 1]
        BY <2>2, <4>1
      <4> QED BY <1>4, <3>1, <4>1, <4>2
    <3> QED BY <3>2, <3>3
  <2>5. w[n + 1] + Len(next[n + 1]) = k + 1
    <3>1. Len(next[n + 1]) = 0
      BY <2>1
    <3> QED BY <1>1, <2>2, <3>1
  <2>6. Laid(next, w, q, k + 1)
    <3>1. PICK l : l = Len(next) /\ l = n + 1 /\ l - 1 = n
      BY <1>1, <2>1
    <3>2. \A m \in 1..l :
            /\ w[m] \in Nat \ {0} /\ w[m] + Len(next[m]) <= k + 1
            /\ \A x \in 1..Len(next[m]) : q[w[m] + x - 1] = next[m][x] /\ next[m][x] # "*"
      BY <2>3, <3>1
    <3>3. \A m \in 1..(l - 1) : w[m + 1] = w[m] + Len(next[m]) + 1 /\ q[w[m] + Len(next[m])] = "*"
      BY <2>4, <3>1
    <3>4. w[l] + Len(next[l]) = k + 1
      BY <2>5, <3>1
    <3> QED BY <3>1, <3>2, <3>3, <3>4 DEF Laid
  <2>7. w[1] = st[1]
    BY <1>1, <2>2
  <2> QED BY <2>6, <2>7 DEF next
<1>7. CASE q[k] # "*"
  <2>1. /\ Len(next) = n /\ next[n] = Append(parts[n], q[k]) /\ \A m \in 1..(n - 1) : next[m] = parts[m]
    <3>1. PICK c \in S : c = q[k]
      BY <1>1
    <3>2. /\ Len(PartsStep(parts, c)) = Len(parts)
          /\ PartsStep(parts, c)[Len(parts)] = Append(parts[Len(parts)], c)
          /\ \A m \in 1..(Len(parts) - 1) : PartsStep(parts, c)[m] = parts[m]
      <4>1. c # "*" /\ parts \in Seq(Seq(S)) /\ parts # <<>>
        BY <1>7, <3>1
      <4>2. c # "*" =>
              /\ Len(PartsStep(parts, c)) = Len(parts)
              /\ PartsStep(parts, c)[Len(parts)] = Append(parts[Len(parts)], c)
              /\ \A m \in 1..(Len(parts) - 1) : PartsStep(parts, c)[m] = parts[m]
        BY PartsStepTyped
      <4> QED BY <4>1, <4>2
    <3> QED BY <3>1, <3>2
  <2>2. /\ Len(next[n]) = Len(parts[n]) + 1 /\ next[n][Len(parts[n]) + 1] = q[k]
        /\ \A x \in 1..Len(parts[n]) : next[n][x] = parts[n][x]
    <3>1. parts[n] \in Seq(S)
      BY <1>1, ElementOfSeq
    <3> QED BY <1>1, <2>1, <3>1, AppendProperties
  <2> HIDE DEF next, n
  <2>5. st[n] + Len(next[n]) = k + 1
    <3>1. PICK a, b : a = st[n] /\ b = Len(parts[n])
      OBVIOUS
    <3>2. a \in Nat /\ b \in Nat
      BY <1>1, <1>2, <3>1
    <3>3. a + b = k /\ Len(next[n]) = b + 1
      BY <1>3, <2>2, <3>1 DEF n
    <3>4. a + (b + 1) = k + 1
      BY <3>2, <3>3
    <3> QED BY <3>1, <3>3, <3>4
  <2>3. ASSUME NEW m \in 1..n
        PROVE  /\ st[m] \in Nat \ {0} /\ st[m] + Len(next[m]) <= k + 1
               /\ \A x \in 1..Len(next[m]) : q[st[m] + x - 1] = next[m][x] /\ next[m][x] # "*"
    <3>1. CASE m = n
      <4>1. st[m] + Len(next[m]) = k + 1
        BY <2>5, <3>1
      <4>2. ASSUME NEW x \in 1..Len(next[m]) PROVE q[st[m] + x - 1] = next[m][x] /\ next[m][x] # "*"
        <5>1. CASE x = Len(parts[n]) + 1
          <6>1. st[m] + x - 1 = k
            BY <1>1, <1>2, <1>3, <3>1, <5>1
          <6> QED BY <1>7, <2>2, <3>1, <5>1, <6>1
        <5>2. CASE x # Len(parts[n]) + 1
          <6>1. x \in 1..Len(parts[n])
            BY <1>1, <1>2, <2>2, <3>1, <5>2
          <6> QED BY <1>5, <2>2, <3>1, <6>1
        <5> QED BY <5>1, <5>2
      <4>3. st[m] \in Nat \ {0} /\ st[m] + Len(next[m]) <= k + 1
        BY <1>1, <1>2, <4>1
      <4> QED BY <4>2, <4>3
    <3>2. CASE m # n
      <4>1. m \in 1..(n - 1)
        BY <1>1, <3>2
      <4>2. PICK part : part = parts[m] /\ part = next[m]
        BY <2>1, <4>1
      <4>3. /\ st[m] + Len(part) <= k + 1
            /\ \A x \in 1..Len(part) : q[st[m] + x - 1] = part[x] /\ part[x] # "*"
        BY <1>5, <4>2
      <4>4. st[m] \in Nat \ {0}
        BY <1>2
      <4> QED BY <4>2, <4>3, <4>4
    <3> QED BY <3>1, <3>2
  <2>4. \A m \in 1..(n - 1) : st[m + 1] = st[m] + Len(next[m]) + 1 /\ q[st[m] + Len(next[m])] = "*"
    BY <1>4, <2>1
  <2>6. Laid(next, st, q, k + 1)
    BY <2>1, <2>3, <2>4, <2>5 DEF Laid
  <2> QED BY <2>6 DEF next
<1> QED BY <1>6, <1>7

\* So the parts of a pattern are what stands between its stars.
LEMMA PartsAreLaid ==
  ASSUME NEW S, NEW p \in Seq(S)
  PROVE  /\ Parts(p) \in Seq(Seq(S)) /\ Len(Parts(p)) \in Nat \ {0}
         /\ \E st : Laid(Parts(p), st, p, Len(p) + 1) /\ st[1] = 1
<1> DEFINE n == Len(p)
<1>1. n \in Nat
  OBVIOUS
<1>2. PICK r : /\ r[0] = << <<>> >> /\ r[n] = Parts(p)
               /\ \A k \in 0..n : r[k] \in Seq(Seq(S)) \ {<<>>}
               /\ \A k \in 1..n : r[k] = PartsStep(r[k - 1], p[k])
  BY PartsChain
<1> HIDE DEF n
<1> DEFINE P == {k \in 0..n : \E st : Laid(r[k], st, p, k + 1) /\ st[1] = 1}
<1>3. 0 \in P
  <2> DEFINE st == [m \in 1..1 |-> 1]
  <2>1. Len(r[0]) = 1 /\ r[0][1] = <<>> /\ Len(r[0][1]) = 0 /\ st[1] = 1 /\ 0 \in 0..n
    BY <1>1, <1>2
  <2> HIDE DEF st
  <2>2. 1..1 = {1} /\ 1..(1 - 1) = {} /\ 1..0 = {} /\ 1 + 0 = 0 + 1 /\ 1 + 0 <= 0 + 1
    OBVIOUS
  <2>3. Laid(r[0], st, p, 0 + 1)
    BY <2>1, <2>2 DEF Laid
  <2> QED BY <2>1, <2>3
<1>4. ASSUME NEW k \in 1..n, k - 1 \in P PROVE k \in P
  <2>1. PICK st : Laid(r[k - 1], st, p, k - 1 + 1) /\ st[1] = 1
    BY <1>4
  <2>2. k - 1 \in 0..n /\ k \in 0..n /\ k - 1 + 1 = k
    BY <1>1
  <2>3. r[k - 1] \in Seq(Seq(S)) /\ r[k - 1] # <<>> /\ r[k] = PartsStep(r[k - 1], p[k])
    BY <1>2, <2>2
  <2>4. \E w : Laid(PartsStep(r[k - 1], p[k]), w, p, k + 1) /\ w[1] = st[1]
    BY <2>1, <2>2, <2>3, LaidStep DEF n
  <2> QED BY <2>1, <2>2, <2>3, <2>4
<1> HIDE DEF P
<1>5. n \in P /\ n \in 0..n
  <2>1. \A k \in 0..n : k \in P
    BY <1>1, <1>3, <1>4, Induct
  <2> QED BY <1>1, <2>1
<1>6. Parts(p) \in Seq(Seq(S)) /\ Parts(p) # <<>>
  BY <1>2, <1>5
<1>7. Len(Parts(p)) \in Nat \ {0}
  BY <1>6
<1>8. \E st : Laid(r[n], st, p, n + 1) /\ st[1] = 1
  BY <1>5 DEF P
<1> QED BY <1>2, <1>6, <1>7, <1>8 DEF n

\* A run of characters without a star stands as it is.
LEMMA FitsRun ==
  ASSUME NEW S, NEW q \in Seq(S), NEW s \in Seq(S), NEW t \in Seq(S), NEW i \in 1..(Len(q) + 1),
         i + Len(t) <= Len(q) + 1, \A x \in 1..Len(t) : q[i + x - 1] = t[x] /\ t[x] # "*",
         NEW j \in 1..(Len(s) + 1)
  PROVE  Fits(q, s, i, j) <=> At(t, s, j) /\ Fits(q, s, i + Len(t), j + Len(t))
<1> DEFINE n == Len(t)
           l == Len(s)
           Same(d) == j + d <= l + 1 /\ \A x \in 1..d : s[j + x - 1] = t[x]
           P == {d \in 0..n : Fits(q, s, i, j) <=> Same(d) /\ Fits(q, s, i + d, j + d)}
<1>1. n \in Nat /\ l \in Nat /\ Len(q) \in Nat /\ i \in Nat /\ j \in Nat
  OBVIOUS
<1>2. 0 \in P
  <2>1. i + 0 = i /\ j + 0 = j /\ 0 \in 0..n /\ Same(0)
    BY <1>1
  <2> HIDE DEF Same
  <2> QED BY <2>1
<1>3. ASSUME NEW d \in 1..n, d - 1 \in P PROVE d \in P
  <2>1. Fits(q, s, i, j) <=> Same(d - 1) /\ Fits(q, s, i + (d - 1), j + (d - 1))
    BY <1>3
  <2>2. PICK f, g : f = i + (d - 1) /\ g = j + (d - 1) /\ f + 1 = i + d /\ g + 1 = j + d /\ f \in 1..Len(q)
    BY <1>1
  <2>3. q[f] = t[d] /\ q[f] # "*"
    <3>1. i + (d - 1) = i + d - 1
      BY <1>1
    <3> QED BY <2>2, <3>1
  <2>4. Same(d - 1) => g \in 1..(l + 1)
    BY <1>1, <2>2
  <2>5. Same(d - 1) => (Fits(q, s, f, g) <=> g <= l /\ q[f] = s[g] /\ Fits(q, s, f + 1, g + 1))
    <3> HIDE DEF Same
    <3> SUFFICES ASSUME Same(d - 1)
                 PROVE  Fits(q, s, f, g) <=> g <= l /\ q[f] = s[g] /\ Fits(q, s, f + 1, g + 1)
      OBVIOUS
    <3>1. f \in 1..Len(q) /\ g \in 1..(Len(s) + 1) /\ q[f] # "*"
      BY <2>2, <2>3, <2>4
    <3> QED BY <3>1, FitsOther
  <2>6. Same(d) <=> Same(d - 1) /\ g <= l /\ s[g] = t[d]
    <3>1. g = j + d - 1 /\ (g <= l <=> j + d <= l + 1) /\ (j + d <= l + 1 => j + (d - 1) <= l + 1)
      BY <1>1, <2>2
    <3>2. \A x \in 1..d : x = d \/ x \in 1..(d - 1)
      BY <1>1
    <3>3. d \in 1..d /\ \A x \in 1..(d - 1) : x \in 1..d
      BY <1>1
    <3> QED BY <3>1, <3>2, <3>3
  <2>7. d \in 0..n
    BY <1>1
  <2> HIDE DEF Same
  <2>8. Fits(q, s, i, j) <=> Same(d) /\ Fits(q, s, i + d, j + d)
    BY <2>1, <2>2, <2>3, <2>5, <2>6
  <2> QED BY <2>7, <2>8
<1> HIDE DEF P
<1>4. n \in P
  <2>1. \A d \in 0..n : d \in P
    BY <1>1, <1>2, <1>3, Induct
  <2> QED BY <1>1, <2>1
<1>5. Same(n) <=> At(t, s, j)
  BY AtIsStands
<1> HIDE DEF Same
<1> QED BY <1>4, <1>5 DEF P

\* Somewhere from c on the tail of q from i on fits.
Ahead(q, s, i, c) == \E k \in 1..(Len(s) + 1) : k >= c /\ Fits(q, s, i, k)

\* A part stands as it is, and after it comes a star or the end.
LEMMA PartFits ==
  ASSUME NEW S, NEW q \in Seq(S), NEW s \in Seq(S), NEW parts \in Seq(Seq(S)),
         NEW st, Laid(parts, st, q, Len(q) + 1), NEW m \in 1..Len(parts), NEW j \in 1..(Len(s) + 1)
  PROVE  Fits(q, s, st[m], j)
           <=> /\ At(parts[m], s, j)
               /\ IF m = Len(parts) THEN j + Len(parts[m]) = Len(s) + 1
                  ELSE Ahead(q, s, st[m + 1], j + Len(parts[m]))
<1> DEFINE n == Len(parts)
           l == Len(s)
<1>1. n \in Nat /\ l \in Nat /\ Len(q) \in Nat /\ parts[m] \in Seq(S)
  BY ElementOfSeq
<1>0. PICK i : i = st[m]
  OBVIOUS
<1>2. PICK t \in Seq(S) : t = parts[m] /\ i = st[m]
  BY <1>0, <1>1
<1>3. Len(t) \in Nat /\ i \in 1..(Len(q) + 1) /\ i + Len(t) <= Len(q) + 1
      /\ \A x \in 1..Len(t) : q[i + x - 1] = t[x] /\ t[x] # "*"
  <2>1. i \in Nat \ {0} /\ i + Len(t) <= Len(q) + 1
        /\ \A x \in 1..Len(t) : q[i + x - 1] = t[x] /\ t[x] # "*"
    BY <1>2 DEF Laid
  <2>2. Len(t) \in Nat
    BY <1>2
  <2> QED BY <1>1, <2>1, <2>2
<1>4. Fits(q, s, i, j) <=> At(t, s, j) /\ Fits(q, s, i + Len(t), j + Len(t))
  BY <1>3, FitsRun
<1>5. At(t, s, j) => j + Len(t) \in 1..(l + 1)
  <2>1. At(t, s, j) => j + Len(t) <= l + 1
    BY AtIsStands
  <2> QED BY <1>1, <1>3, <2>1
<1>6. CASE m = n
  <2>1. i + Len(t) = Len(q) + 1
    BY <1>2, <1>6 DEF Laid
  <2>2. At(t, s, j) => (Fits(q, s, Len(q) + 1, j + Len(t)) <=> j + Len(t) > l)
    BY <1>5, FitsEnd
  <2>3. At(t, s, j) => (j + Len(t) > l <=> j + Len(t) = l + 1)
    <3>1. PICK e : e = j + Len(t)
      OBVIOUS
    <3>2. e \in 1..(l + 1) => (e > l <=> e = l + 1)
      BY <1>1
    <3> QED BY <1>5, <3>1, <3>2
  <2> QED BY <1>2, <1>4, <1>6, <2>1, <2>2, <2>3
<1>7. CASE m # n
  <2>1. m \in 1..(n - 1)
    BY <1>1, <1>7
  <2>2. st[m + 1] = i + Len(t) + 1 /\ q[i + Len(t)] = "*"
    BY <1>2, <2>1 DEF Laid
  <2>3. PICK f : f = i + Len(t) /\ f \in 1..Len(q) /\ q[f] = "*" /\ st[m + 1] = f + 1
    <3>1. m + 1 \in 1..n
      BY <1>1, <2>1
    <3>2. st[m + 1] \in Nat /\ Len(parts[m + 1]) \in Nat /\ st[m + 1] + Len(parts[m + 1]) <= Len(q) + 1
      <4>1. parts[m + 1] \in Seq(S)
        BY <3>1, ElementOfSeq
      <4> QED BY <3>1, <4>1 DEF Laid
    <3>3. PICK a, b : a = Len(t) /\ b = Len(parts[m + 1])
      OBVIOUS
    <3>4. i + a + 1 + b <= Len(q) + 1 /\ a \in Nat /\ b \in Nat
      BY <1>3, <2>2, <3>2, <3>3
    <3>5. i + a \in 1..Len(q)
      BY <1>1, <1>3, <3>4
    <3> QED BY <2>2, <3>3, <3>5
  <2>4. ASSUME At(t, s, j) PROVE Fits(q, s, f, j + Len(t)) <=> Ahead(q, s, f + 1, j + Len(t))
    <3>1. PICK g \in 1..(l + 1) : g = j + Len(t)
      BY <1>5, <2>4
    <3>2. Fits(q, s, f, g) <=> \E k \in 1..(Len(s) + 1) : Fits(q, s, f + 1, k) /\ g <= k
      BY <2>3, FitsStar
    <3>3. \A k \in 1..(Len(s) + 1) : g <= k <=> k >= g
      BY <1>1
    <3> QED BY <3>1, <3>2, <3>3 DEF Ahead
  <2> QED BY <1>2, <1>4, <1>7, <2>3, <2>4
<1> QED BY <1>6, <1>7

\* Nothing is lost by taking a literal where it first occurs.
LEMMA ConsumeOne ==
  ASSUME NEW S, NEW q \in Seq(S), NEW s \in Seq(S), NEW parts \in Seq(Seq(S)),
         NEW st, Laid(parts, st, q, Len(q) + 1), NEW m \in 1..(Len(parts) - 1),
         NEW pos \in 1..(Len(s) + 1)
  PROVE  Ahead(q, s, st[m], pos)
           <=> /\ ConsumeStep(pos, parts[m], s) # 0
               /\ Ahead(q, s, st[m + 1], ConsumeStep(pos, parts[m], s))
<1> DEFINE l == Len(s)
<1>1. l \in Nat /\ m \in 1..Len(parts) /\ m # Len(parts)
  OBVIOUS
<1>0. PICK c : c = ConsumeStep(pos, parts[m], s)
  OBVIOUS
<1>2. PICK t \in Seq(S) : t = parts[m] /\ c = ConsumeStep(pos, parts[m], s)
  BY <1>0, <1>1, ElementOfSeq
<1>3. /\ c \in 0..(l + 1) /\ Len(t) \in Nat
      /\ c # 0 => \E i \in 1..(l + 1) : i >= pos /\ At(t, s, i) /\ c = i + Len(t)
      /\ \A i \in 1..(l + 1) : i >= pos /\ At(t, s, i) => c # 0 /\ c <= i + Len(t)
  <2>1. pos \in 0..(Len(s) + 1) /\ pos # 0
    OBVIOUS
  <2>2. /\ ConsumeStep(pos, t, s) \in 0..(Len(s) + 1)
        /\ ConsumeStep(pos, t, s) # 0 =>
             /\ pos # 0
             /\ \E i \in 1..(Len(s) + 1) : i >= pos /\ At(t, s, i) /\ ConsumeStep(pos, t, s) = i + Len(t)
        /\ pos # 0 => \A i \in 1..(Len(s) + 1) :
             i >= pos /\ At(t, s, i) => ConsumeStep(pos, t, s) # 0 /\ ConsumeStep(pos, t, s) <= i + Len(t)
    BY <2>1, ConsumeStepTyped
  <2>3. c = ConsumeStep(pos, t, s) /\ Len(t) \in Nat
    BY <1>2
  <2> QED BY <2>1, <2>2, <2>3
<1>4. \A j \in 1..(l + 1) : Fits(q, s, st[m], j) <=> At(t, s, j) /\ Ahead(q, s, st[m + 1], j + Len(t))
  BY <1>1, <1>2, PartFits
<1>5. ASSUME Ahead(q, s, st[m], pos) PROVE c # 0 /\ Ahead(q, s, st[m + 1], c)
  <2>1. PICK j \in 1..(l + 1) : j >= pos /\ Fits(q, s, st[m], j)
    BY <1>5 DEF Ahead
  <2>2. PICK k \in 1..(l + 1) : k >= j + Len(t) /\ Fits(q, s, st[m + 1], k)
    BY <1>4, <2>1 DEF Ahead
  <2>3. c # 0 /\ c <= j + Len(t)
    BY <1>3, <1>4, <2>1
  <2>4. k >= c
    BY <1>1, <1>3, <2>2, <2>3
  <2> QED BY <2>2, <2>3, <2>4 DEF Ahead
<1>6. ASSUME c # 0, Ahead(q, s, st[m + 1], c) PROVE Ahead(q, s, st[m], pos)
  <2>1. PICK i \in 1..(l + 1) : i >= pos /\ At(t, s, i) /\ c = i + Len(t)
    BY <1>3, <1>6
  <2>2. Fits(q, s, st[m], i)
    BY <1>4, <1>6, <2>1
  <2> QED BY <2>1, <2>2 DEF Ahead
<1> QED BY <1>2, <1>5, <1>6

\* Nor by all of them.
LEMMA ConsumeAll ==
  ASSUME NEW S, NEW q \in Seq(S), NEW s \in Seq(S), NEW parts \in Seq(Seq(S)), Len(parts) > 1,
         NEW st, Laid(parts, st, q, Len(q) + 1), NEW pos \in 1..(Len(s) + 1), NEW c,
         c = Consume(SubSeq(parts, 2, Len(parts) - 1), s, pos)
  PROVE  /\ c \in 0..(Len(s) + 1)
         /\ Ahead(q, s, st[2], pos) <=> c # 0 /\ Ahead(q, s, st[Len(parts)], c)
<1> DEFINE n == Len(parts)
           l == Len(s)
           lits == SubSeq(parts, 2, n - 1)
<1>1. n \in Nat /\ n >= 2 /\ n - 2 \in Nat /\ l \in Nat
  OBVIOUS
<1>2. lits \in Seq(Seq(S)) /\ Len(lits) = n - 2 /\ \A k \in 1..(n - 2) : lits[k] = parts[k + 1]
  <2>1. lits = [k \in 1..(n - 2) |-> parts[k + 1]]
    <3>1. n - 1 - 2 + 1 = n - 2 /\ \A k \in 1..(n - 2) : 2 + k - 1 = k + 1
      BY <1>1
    <3>2. lits = [k \in 1..(n - 1 - 2 + 1) |-> parts[2 + k - 1]]
      BY <1>1
    <3> HIDE DEF lits, n
    <3> QED BY <1>1, <3>1, <3>2
  <2>2. \A k \in 1..(n - 2) : parts[k + 1] \in Seq(S)
    <3>1. \A k \in 1..(n - 2) : k + 1 \in 1..n
      BY <1>1
    <3> QED BY <3>1, ElementOfSeq
  <2> HIDE DEF lits, n
  <2> QED BY <1>1, <2>1, <2>2
<1> HIDE DEF lits
<1>3. PICK r : /\ r[0] = pos /\ r[n - 2] = c
               /\ \A k \in 0..(n - 2) : r[k] \in 0..(l + 1)
               /\ \A k \in 1..(n - 2) : r[k] = ConsumeStep(r[k - 1], lits[k], s)
  <2>1. pos \in 0..(Len(s) + 1)
    OBVIOUS
  <2>2. PICK r : /\ r[0] = pos /\ r[Len(lits)] = Consume(lits, s, pos)
                 /\ \A k \in 0..Len(lits) : r[k] \in (0..(Len(s) + 1))
                 /\ \A k \in 1..Len(lits) : r[k] = ConsumeStep(r[k - 1], lits[k], s)
    <3>1. lits \in Seq(Seq(S))
      BY <1>2
    <3> QED BY <2>1, <3>1, ConsumeChain, Zenon
  <2> QED BY <1>2, <2>2 DEF lits
<1> HIDE DEF n
<1> DEFINE P == {k \in 0..(n - 2) : Ahead(q, s, st[2], pos) <=> r[k] # 0 /\ Ahead(q, s, st[k + 2], r[k])}
<1>4. 0 \in P
  <2>1. 0 + 2 = 2 /\ 0 \in 0..(n - 2) /\ pos # 0
    BY <1>1
  <2> QED BY <1>3, <2>1
<1>5. ASSUME NEW k \in 1..(n - 2), k - 1 \in P PROVE k \in P
  <2>1. Ahead(q, s, st[2], pos) <=> r[k - 1] # 0 /\ Ahead(q, s, st[k + 1], r[k - 1])
    <3>1. k - 1 + 2 = k + 1
      BY <1>1
    <3> QED BY <1>5, <3>1
  <2>2. /\ k \in 0..(n - 2) /\ k - 1 \in 0..(n - 2) /\ k + 1 \in 1..(n - 1) /\ k + 1 + 1 = k + 2
    BY <1>1
  <2>3. r[k] = ConsumeStep(r[k - 1], parts[k + 1], s) /\ r[k - 1] \in 0..(l + 1)
    BY <1>2, <1>3, <2>2
  <2>4. CASE r[k - 1] = 0
    <3>1. r[k] = 0
      BY <2>3, <2>4 DEF ConsumeStep
    <3> QED BY <2>1, <2>2, <2>4, <3>1
  <2>5. CASE r[k - 1] # 0
    <3>1. PICK m \in 1..(Len(parts) - 1), x \in 1..(Len(s) + 1) : m = k + 1 /\ x = r[k - 1]
      <4>1. k + 1 \in 1..(Len(parts) - 1)
        BY <2>2 DEF n
      <4>2. r[k - 1] \in 1..(Len(s) + 1)
        BY <1>1, <2>3, <2>5, SMTT(30)
      <4> QED BY <4>1, <4>2
    <3>2. Ahead(q, s, st[m], x) <=> /\ ConsumeStep(x, parts[m], s) # 0
                                    /\ Ahead(q, s, st[m + 1], ConsumeStep(x, parts[m], s))
      BY ConsumeOne
    <3> QED BY <2>1, <2>2, <2>3, <2>5, <3>1, <3>2
  <2> QED BY <2>4, <2>5
<1> HIDE DEF P
<1>6. n - 2 \in P
  <2>1. \A k \in 0..(n - 2) : k \in P
    BY <1>1, <1>4, <1>5, Induct
  <2> QED BY <1>1, <2>1
<1>7. Ahead(q, s, st[2], pos) <=> c # 0 /\ Ahead(q, s, st[n - 2 + 2], c)
  BY <1>3, <1>6 DEF P
<1>8. n - 2 + 2 = n /\ n - 2 \in 0..(n - 2)
  BY <1>1
<1> QED BY <1>3, <1>7, <1>8 DEF n

\* The last part has to end the path.
LEMMA LastFits ==
  ASSUME NEW S, NEW q \in Seq(S), NEW s \in Seq(S), NEW parts \in Seq(Seq(S)), Len(parts) > 0,
         NEW st, Laid(parts, st, q, Len(q) + 1), NEW pos \in 1..(Len(s) + 1)
  PROVE  Ahead(q, s, st[Len(parts)], pos) <=> EndsWith(Last(parts), s, pos)
<1> DEFINE n == Len(parts)
           l == Len(s)
<1>1. n \in 1..n /\ l \in Nat
  OBVIOUS
<1>2. PICK t \in Seq(S) : t = parts[n] /\ Last(parts) = t /\ Len(t) \in Nat
  BY <1>1, ElementOfSeq DEF Last
<1>3. ASSUME NEW j \in 1..(l + 1)
      PROVE  Fits(q, s, st[n], j) <=> At(t, s, j) /\ j + Len(t) = l + 1
  <2>1. PICK m \in 1..Len(parts) : m = n
    BY <1>1
  <2>2. Fits(q, s, st[m], j)
          <=> /\ At(parts[m], s, j)
              /\ IF m = Len(parts) THEN j + Len(parts[m]) = Len(s) + 1
                 ELSE Ahead(q, s, st[m + 1], j + Len(parts[m]))
    BY PartFits
  <2> QED BY <1>2, <2>1, <2>2
<1>4. ASSUME NEW j \in 1..(l + 1), j >= pos, Fits(q, s, st[n], j) PROVE EndsWith(t, s, pos)
  <2>1. At(t, s, j) /\ j + Len(t) = l + 1
    BY <1>3, <1>4
  <2>2. j = l + 1 - Len(t) /\ pos + Len(t) <= l + 1
    BY <1>1, <1>2, <1>4, <2>1
  <2> QED BY <2>1, <2>2 DEF EndsWith
<1>5. ASSUME EndsWith(t, s, pos) PROVE Ahead(q, s, st[n], pos)
  <2>1. pos + Len(t) <= l + 1 /\ At(t, s, l + 1 - Len(t))
    BY <1>5 DEF EndsWith
  <2>2. PICK j \in 1..(l + 1) : j = l + 1 - Len(t) /\ j >= pos /\ j + Len(t) = l + 1
    <3>1. PICK e, d : e = Len(t) /\ d = l + 1 - Len(t)
      OBVIOUS
    <3>2. e \in Nat /\ d = l + 1 - e /\ pos + e <= l + 1
      BY <1>2, <2>1, <3>1
    <3>3. d \in 1..(l + 1) /\ d >= pos /\ d + e = l + 1
      BY <1>1, <3>2
    <3> QED BY <3>1, <3>3
  <2> QED BY <1>3, <2>1, <2>2 DEF Ahead
<1> QED BY <1>2, <1>4, <1>5 DEF Ahead

\* Two facts of arithmetic the proofs below keep needing.
LEMMA FirstIsInner ==
  ASSUME NEW d \in Nat, d > 1
  PROVE  1 \in 1..d /\ 1 # d
OBVIOUS

\* What follows a part is still in the pattern.
LEMMA BetweenParts ==
  ASSUME NEW a \in Nat, NEW b \in Nat, NEW e \in Nat, 1 + a + 1 + b <= e + 1
  PROVE  1 + a \in 1..e
OBVIOUS

\* What match_indices finds are occurrences, and the leftmost is among them.
LEMMA MatchesFirst ==
  ASSUME NEW S, NEW t \in Seq(S), Len(t) > 0, NEW s \in Seq(S)
  PROVE  /\ \A i \in match_indices(t, s) : i \in 1..Len(s) /\ At(t, s, i)
         /\ \A i \in 1..(Len(s) + 1) : At(t, s, i) => \E f \in match_indices(t, s) : f <= i
<1>0. PICK r : Searched(r, t, s)
  BY MatchChain, Zenon
<1>2. /\ r[0] = {} /\ r[Len(s)] = match_indices(t, s)
      /\ \A k \in 1..Len(s) : r[k] = MatchStep(r[k - 1], k, t, s)
  BY <1>0 DEF Searched
<1> DEFINE n == Len(s)
           Occurs(k) == {i \in 1..k : At(t, s, i)}
<1>1. n \in Nat /\ Len(t) \in Nat
  OBVIOUS
<1>3. \A k, i : i \in Occurs(k) <=> i \in 1..k /\ At(t, s, i)
  OBVIOUS
<1> HIDE DEF n, Occurs
<1> DEFINE Found(k) == /\ \A i \in r[k] : i \in Occurs(k)
                       /\ \A i \in Occurs(k) : \E f \in r[k] : f <= i
           P == {k \in 0..n : Found(k)}
<1>4. 0 \in P
  <2>1. 1..0 = {} /\ 0 \in 0..n
    BY <1>1
  <2>2. \A i : i \notin Occurs(0)
    BY <1>3, <2>1
  <2> QED BY <1>2, <2>1, <2>2
<1>5. ASSUME NEW k \in 1..n, k - 1 \in P PROVE k \in P
  <2>1. /\ k \in 0..n /\ k \in 1..k /\ k \in Nat /\ k <= k
        /\ \A i \in 1..k : i = k \/ i \in 1..(k - 1)
        /\ \A i \in 1..(k - 1) : i \in 1..k /\ i <= k
    BY <1>1
  <2>2. Found(k - 1)
    BY <1>5
  <2>3. PICK was : was = r[k - 1]
    OBVIOUS
  <2>4. /\ \A i \in was : i \in 1..(k - 1) /\ At(t, s, i)
        /\ \A i \in 1..(k - 1) : At(t, s, i) => \E f \in was : f <= i
    BY <1>3, <2>2, <2>3
  <2>5. r[k] = MatchStep(was, k, t, s)
    BY <1>2, <2>3 DEF n
  <2>6. CASE At(t, s, k) /\ \A j \in was : k >= j + Len(t)
    <3>1. r[k] = was \cup {k}
      BY <2>5, <2>6 DEF MatchStep
    <3>2. \A i \in r[k] : i \in Occurs(k)
      BY <1>3, <2>1, <2>4, <2>6, <3>1
    <3>3. \A i \in Occurs(k) : \E f \in r[k] : f <= i
      BY <1>3, <2>1, <2>4, <3>1
    <3> QED BY <2>1, <3>2, <3>3
  <2>7. CASE ~(At(t, s, k) /\ \A j \in was : k >= j + Len(t))
    <3>1. r[k] = was
      BY <2>5, <2>7 DEF MatchStep
    <3>2. \A i \in r[k] : i \in Occurs(k)
      BY <1>3, <2>1, <2>4, <3>1
    <3>3. ASSUME NEW i \in Occurs(k) PROVE \E f \in r[k] : f <= i
      <4>1. i \in 1..k /\ At(t, s, i)
        BY <1>3, <3>3
      <4>2. CASE i \in 1..(k - 1)
        BY <2>4, <3>1, <4>1, <4>2
      <4>3. CASE i = k
        <5>1. PICK f \in was : ~(k >= f + Len(t))
          BY <2>7, <4>1, <4>3
        <5>2. f <= k
          BY <2>1, <2>4, <5>1
        <5> QED BY <3>1, <4>3, <5>1, <5>2
      <4> QED BY <2>1, <4>1, <4>2, <4>3
    <3> QED BY <2>1, <3>2, <3>3
  <2> QED BY <2>6, <2>7
<1> HIDE DEF P
<1>6. Found(n)
  <2>1. \A k \in 0..n : k \in P
    BY <1>1, <1>4, <1>5, Induct
  <2>2. n \in P
    BY <1>1, <2>1
  <2> QED BY <2>2 DEF P
<1>7. ASSUME NEW i \in 1..(Len(s) + 1), At(t, s, i) PROVE i \in Occurs(n)
  <2>1. i + Len(t) <= Len(s) + 1
    BY <1>7, AtIsStands
  <2>2. i \in 1..n
    BY <1>1, <2>1 DEF n
  <2> QED BY <1>3, <1>7, <2>2
<1>8. r[n] = match_indices(t, s)
  BY <1>2 DEF n
<1>9. \A i \in match_indices(t, s) : i \in 1..Len(s) /\ At(t, s, i)
  BY <1>3, <1>6, <1>8 DEF n
<1> QED BY <1>6, <1>7, <1>8, <1>9

\* With a star: the greedy search succeeds iff the pattern fits from somewhere on.
LEMMA StarsMatch ==
  ASSUME NEW S, NEW p \in Seq(S), NEW q \in Seq(S), NEW s \in Seq(S), NEW st,
         Parts(p) \in Seq(Seq(S)), Len(Parts(p)) > 1, Laid(Parts(p), st, q, Len(q) + 1)
  PROVE  GlobMatch(p, s) <=> Ahead(q, s, st[1], 1)
<1> DEFINE n == Len(Parts(p))
           l == Len(s)
           lits == SubSeq(Parts(p), 2, n - 1)
           From(i) == Consume(lits, s, i + Len(Parts(p)[1]))
<1>1. PICK parts \in Seq(Seq(S)) : parts = Parts(p)
  OBVIOUS
<1>2. n = Len(parts) /\ n \in Nat /\ n > 1 /\ l \in Nat /\ 1 \in 1..Len(parts) /\ 1 # n
  <2>1. Len(parts) \in Nat /\ Len(parts) > 1 /\ l \in Nat
    BY <1>1
  <2>2. PICK d : d = Len(parts) /\ d \in Nat /\ d > 1
    BY <2>1
  <2>3. 1 \in 1..d /\ 1 # d
    BY <2>2, FirstIsInner, Zenon
  <2> QED BY <1>1, <2>1, <2>2, <2>3
<1>3. PICK t \in Seq(S) : t = parts[1] /\ Len(t) \in Nat
  BY <1>2, ElementOfSeq
<1>4. GlobMatch(p, s) <=> \E i \in Starts(t, s) : From(i) # 0 /\ EndsWith(Last(parts), s, From(i))
  BY <1>1, <1>2, <1>3 DEF GlobMatch
<1> HIDE DEF From
<1>5. ASSUME NEW i \in 1..(l + 1), At(t, s, i)
      PROVE  From(i) # 0 /\ EndsWith(Last(parts), s, From(i)) <=> Ahead(q, s, st[2], i + Len(t))
  <2>1. i + Len(t) <= l + 1
    BY <1>5, AtIsStands
  <2>2. PICK pos \in 1..(Len(s) + 1) : pos = i + Len(t)
    BY <1>2, <1>3, <2>1
  <2>3. PICK c : c = From(i) /\ c = Consume(SubSeq(parts, 2, Len(parts) - 1), s, pos)
    BY <1>1, <1>3, <2>2 DEF From
  <2>4. Laid(parts, st, q, Len(q) + 1)
    BY <1>1
  <2>5. /\ c \in 0..(Len(s) + 1)
        /\ Ahead(q, s, st[2], pos) <=> c # 0 /\ Ahead(q, s, st[Len(parts)], c)
    <3>1. Len(parts) > 1
      BY <1>2
    <3> QED BY <2>3, <2>4, <3>1, ConsumeAll
  <2>6. c # 0 => (Ahead(q, s, st[Len(parts)], c) <=> EndsWith(Last(parts), s, c))
    <3>1. c # 0 => c \in 1..(Len(s) + 1)
      BY <1>2, <2>5
    <3>2. Len(parts) > 0
      BY <1>2
    <3> QED BY <2>4, <3>1, <3>2, LastFits
  <2> QED BY <2>2, <2>3, <2>5, <2>6
<1>6. \A j \in 1..(l + 1) : Fits(q, s, st[1], j) <=> At(t, s, j) /\ Ahead(q, s, st[2], j + Len(t))
  <2> SUFFICES ASSUME NEW j \in 1..(l + 1)
               PROVE  Fits(q, s, st[1], j) <=> At(t, s, j) /\ Ahead(q, s, st[2], j + Len(t))
    OBVIOUS
  <2>1. PICK m \in 1..Len(parts) : m = 1 /\ m # Len(parts) /\ m + 1 = 2
    BY <1>2
  <2>2. Laid(parts, st, q, Len(q) + 1)
    BY <1>1
  <2>3. Fits(q, s, st[m], j)
          <=> /\ At(parts[m], s, j)
              /\ IF m = Len(parts) THEN j + Len(parts[m]) = Len(s) + 1
                 ELSE Ahead(q, s, st[m + 1], j + Len(parts[m]))
    BY <2>2, PartFits
  <2> QED BY <1>3, <2>1, <2>3
<1>7. /\ \A i \in Starts(t, s) : i \in 1..(l + 1) /\ At(t, s, i)
      /\ \A i \in 1..(l + 1) : At(t, s, i) => \E f \in Starts(t, s) : f <= i
  <2>1. CASE t = <<>>
    <3>1. Len(t) = 0 /\ 1..Len(t) = {} /\ 1 \in 1..(l + 1) /\ 1 + Len(t) <= l + 1 /\ Starts(t, s) = {1}
      BY <1>2, <2>1 DEF Starts
    <3>2. At(t, s, 1)
      BY <3>1, AtIsStands
    <3> QED BY <1>2, <3>1, <3>2
  <2>2. CASE t # <<>>
    <3>1. Len(t) > 0 /\ Starts(t, s) = match_indices(t, s)
      BY <1>3, <2>2 DEF Starts
    <3>2. /\ \A i \in match_indices(t, s) : i \in 1..Len(s) /\ At(t, s, i)
          /\ \A i \in 1..(Len(s) + 1) : At(t, s, i) => \E f \in match_indices(t, s) : f <= i
      BY <3>1, MatchesFirst
    <3>3. \A i \in 1..l : i \in 1..(l + 1)
      BY <1>2
    <3> QED BY <3>1, <3>2, <3>3
  <2> QED BY <2>1, <2>2
<1>8. ASSUME NEW i \in Starts(t, s), From(i) # 0, EndsWith(Last(parts), s, From(i))
      PROVE  Ahead(q, s, st[1], 1)
  <2>1. i \in 1..(l + 1) /\ At(t, s, i) /\ i >= 1
    BY <1>2, <1>7
  <2>2. Fits(q, s, st[1], i)
    BY <1>5, <1>6, <1>8, <2>1
  <2> QED BY <2>1, <2>2 DEF Ahead
<1>9. ASSUME Ahead(q, s, st[1], 1)
      PROVE  \E i \in Starts(t, s) : From(i) # 0 /\ EndsWith(Last(parts), s, From(i))
  <2>1. PICK j \in 1..(l + 1) : Fits(q, s, st[1], j)
    BY <1>9 DEF Ahead
  <2>2. At(t, s, j) /\ Ahead(q, s, st[2], j + Len(t))
    BY <1>6, <2>1
  <2>3. PICK i \in Starts(t, s) : i <= j
    BY <1>7, <2>2
  <2>4. i \in 1..(l + 1) /\ At(t, s, i)
    BY <1>7
  <2>5. Ahead(q, s, st[2], i + Len(t))
    <3>1. PICK k \in 1..(l + 1) : k >= j + Len(t) /\ Fits(q, s, st[2], k)
      BY <2>2 DEF Ahead
    <3>2. k >= i + Len(t)
      BY <1>2, <1>3, <2>3, <2>4, <3>1
    <3> QED BY <3>1, <3>2 DEF Ahead
  <2> QED BY <1>5, <2>4, <2>5
<1> QED BY <1>4, <1>8, <1>9

\* A pattern after a star fits iff it fits somewhere.
LEMMA StarBefore ==
  ASSUME NEW S, NEW q \in Seq(S), Len(q) > 0, q[1] = "*", NEW s \in Seq(S)
  PROVE  Matches(q, s) <=> Ahead(q, s, 2, 1)
<1>1. 1 \in 1..Len(q) /\ 1 \in 1..(Len(s) + 1) /\ 1 + 1 = 2 /\ Len(s) \in Nat
  OBVIOUS
<1>2. PICK i \in 1..Len(q), j \in 1..(Len(s) + 1) : i = 1 /\ j = 1
  BY <1>1
<1>3. Fits(q, s, i, j) <=> \E k \in 1..(Len(s) + 1) : Fits(q, s, i + 1, k) /\ j <= k
  BY <1>2, FitsStar
<1>4. \A k \in 1..(Len(s) + 1) : (1 <= k) <=> (k >= 1)
  BY <1>1
<1>5. Matches(q, s) <=> Fits(q, s, 1, 1)
  BY MatchesIs
<1> QED BY <1>1, <1>2, <1>3, <1>4, <1>5 DEF Ahead

\* Without one the code looks for the pattern anywhere.
LEMMA PlainMatch ==
  ASSUME NEW S, NEW p \in Seq(S), NEW q \in Seq(S), NEW s \in Seq(S),
         \A x \in 1..Len(p) : p[x] # "*" /\ q[x + 1] = p[x],
         Len(q) = Len(p) + 2, q[Len(q)] = "*"
  PROVE  Ahead(q, s, 2, 1) <=> Occurrences(p, s) # {}
<1> DEFINE n == Len(p)
           l == Len(s)
<1>1. n \in Nat /\ l \in Nat /\ Len(q) = n + 2
  OBVIOUS
<1>2. ASSUME NEW j \in 1..(l + 1) PROVE Fits(q, s, 2, j) <=> At(p, s, j)
  <2>1. PICK i \in 1..(Len(q) + 1) : i = 2
    BY <1>1
  <2>2. i + Len(p) <= Len(q) + 1 /\ i + Len(p) = n + 2
    BY <1>1, <2>1
  <2>3. \A x \in 1..Len(p) : q[i + x - 1] = p[x] /\ p[x] # "*"
    <3>1. \A x \in 1..Len(p) : i + x - 1 = x + 1
      BY <2>1
    <3> QED BY <3>1
  <2>4. Fits(q, s, i, j) <=> At(p, s, j) /\ Fits(q, s, i + Len(p), j + Len(p))
    BY <2>2, <2>3, FitsRun
  <2>5. ASSUME At(p, s, j) PROVE Fits(q, s, n + 2, j + Len(p))
    <3>1. j + Len(p) <= l + 1
      BY <2>5, AtIsStands
    <3>2. PICK f \in 1..Len(q), g \in 1..(Len(s) + 1) : f = n + 2 /\ g = j + Len(p) /\ f + 1 = Len(q) + 1
      BY <1>1, <3>1
    <3>3. Fits(q, s, f, g) <=> \E k \in 1..(Len(s) + 1) : Fits(q, s, f + 1, k) /\ g <= k
      <4>1. q[f] = "*"
        BY <1>1, <3>2
      <4> QED BY <4>1, FitsStar
    <3>4. PICK e \in 1..(Len(s) + 1) : e = l + 1 /\ e > Len(s) /\ g <= e
      BY <1>1
    <3>5. Fits(q, s, Len(q) + 1, e)
      BY <3>4, FitsEnd
    <3> QED BY <3>2, <3>3, <3>4, <3>5
  <2> QED BY <2>1, <2>2, <2>4, <2>5
<1>3. \A j \in 1..(l + 1) : j >= 1
  BY <1>1
<1> QED BY <1>2, <1>3 DEF Ahead, Occurrences

\* Stars are what parts a pattern.
LEMMA PartsByStars ==
  ASSUME NEW S, NEW p \in Seq(S), NEW parts \in Seq(Seq(S)), Len(parts) > 0,
         NEW st, Laid(parts, st, p, Len(p) + 1), st[1] = 1
  PROVE  (\E x \in 1..Len(p) : p[x] = "*") <=> Len(parts) > 1
<1> DEFINE n == Len(parts)
<1>1. n \in Nat /\ Len(p) \in Nat /\ \A m \in 1..n : Len(parts[m]) \in Nat
  <2>1. \A m \in 1..n : parts[m] \in Seq(S)
    BY ElementOfSeq
  <2> QED BY <2>1
<1>2. CASE n = 1
  <2>1. Len(parts[1]) = Len(p) /\ \A x \in 1..Len(parts[1]) : p[1 + x - 1] = parts[1][x] /\ parts[1][x] # "*"
    <3>1. 1 \in 1..n /\ Len(parts[1]) \in Nat
      BY <1>1, <1>2
    <3>2. 1 + Len(parts[1]) = Len(p) + 1
      BY <1>2 DEF Laid
    <3> QED BY <1>1, <3>1, <3>2 DEF Laid
  <2>2. \A x \in 1..Len(p) : 1 + x - 1 = x
    BY <1>1
  <2>3. \A x \in 1..Len(p) : p[x] # "*"
    BY <2>1, <2>2
  <2> QED BY <1>2, <2>3
<1>3. CASE n > 1
  <2>1. 1 \in 1..(n - 1) /\ 2 \in 1..n /\ 1 \in 1..n /\ 1 + 1 = 2
    BY <1>1, <1>3
  <2>2. PICK a, b : a = Len(parts[1]) /\ b = Len(parts[2]) /\ a \in Nat /\ b \in Nat
    BY <1>1, <2>1
  <2>3. st[1 + 1] = st[1] + a + 1 /\ p[st[1] + a] = "*"
    BY <2>1, <2>2 DEF Laid
  <2>4. st[2] + b <= Len(p) + 1
    BY <2>1, <2>2 DEF Laid
  <2>5. st[2] = 1 + a + 1 /\ p[1 + a] = "*"
    BY <2>1, <2>3
  <2>6. 1 + a + 1 + b <= Len(p) + 1
    BY <2>4, <2>5
  <2>7. 1 + a \in 1..Len(p)
    <3>1. PICK e : e = Len(p) /\ e \in Nat
      BY <1>1
    <3>2. 1 + a + 1 + b <= e + 1
      BY <2>6, <3>1
    <3>3. 1 + a \in 1..e
      BY <2>2, <3>1, <3>2, BetweenParts, Zenon
    <3> QED BY <3>1, <3>3
  <2> QED BY <1>3, <2>5, <2>7
<1>4. n = 1 \/ n > 1
  <2>1. PICK d : d = n /\ d \in Nat /\ d > 0
    BY <1>1
  <2>2. d = 1 \/ d > 1
    BY <2>1
  <2> QED BY <2>1, <2>2
<1> QED BY <1>2, <1>3, <1>4

\* And a few on the places of a part and of the star behind it.
LEMMA InPart ==
  ASSUME NEW a \in Nat \ {0}, NEW b \in Nat, NEW e \in Nat, a + b <= e + 1, NEW x \in 1..b
  PROVE  a + x - 1 \in 1..e /\ a + 1 + x - 1 = (a + x - 1) + 1
OBVIOUS

\* The star after a part is before the next part.
LEMMA BeforeNext ==
  ASSUME NEW a \in Nat \ {0}, NEW b \in Nat, NEW c \in Nat, NEW e \in Nat, a + b + 1 + c <= e + 1
  PROVE  a + b \in 1..e /\ (a + 1) + b = (a + b) + 1
OBVIOUS

\* A pattern with a star in front, and one between stars.
Behind(q, p) == Len(q) = Len(p) + 1 /\ q[1] = "*" /\ \A x \in 1..Len(p) : q[x + 1] = p[x]
Between(q, p) == /\ Len(q) = Len(p) + 2 /\ q[1] = "*" /\ q[Len(p) + 2] = "*"
                 /\ \A x \in 1..Len(p) : q[x + 1] = p[x]

Placed(parts, st, p, i) == Laid(parts, st, p, Len(p) + 1) /\ st[1] = i

\* With a star in front the parts stand one place further on.
LEMMA LaidBehind ==
  ASSUME NEW S, NEW parts \in Seq(Seq(S)), NEW p \in Seq(S), NEW q \in Seq(S), Len(parts) > 0,
         Behind(q, p), NEW st, Placed(parts, st, p, 1)
  PROVE  \E w : Placed(parts, w, q, 2)
<1> DEFINE w == [m \in 1..Len(parts) |-> st[m] + 1]
<1>0. Len(parts) \in Nat /\ Len(p) \in Nat
  OBVIOUS
<1>1. PICK n, e : n = Len(parts) /\ e = Len(p) /\ n \in Nat /\ e \in Nat /\ n > 0
  BY <1>0
<1>12. e \in Nat
  BY <1>1
<1>11. Len(q) = e + 1 /\ \A x \in 1..e : q[x + 1] = p[x]
  BY <1>1 DEF Behind
<1>2. 1 \in 1..n /\ n \in 1..n /\ \A m \in 1..(n - 1) : m \in 1..n /\ m + 1 \in 1..n
  BY <1>1
<1>3. \A m \in 1..n : w[m] = st[m] + 1
  BY <1>1
<1> HIDE DEF w
<1>4. \A m \in 1..n : Len(parts[m]) \in Nat
  <2>1. \A m \in 1..n : parts[m] \in Seq(S)
    BY <1>1, ElementOfSeq
  <2> QED BY <2>1
<1>5. /\ \A m \in 1..n :
           /\ st[m] \in Nat \ {0} /\ st[m] + Len(parts[m]) <= e + 1
           /\ \A x \in 1..Len(parts[m]) : p[st[m] + x - 1] = parts[m][x] /\ parts[m][x] # "*"
      /\ \A m \in 1..(n - 1) : st[m + 1] = st[m] + Len(parts[m]) + 1 /\ p[st[m] + Len(parts[m])] = "*"
      /\ st[n] + Len(parts[n]) = e + 1
  BY <1>1 DEF Placed, Laid
<1>6. ASSUME NEW m \in 1..n
      PROVE  /\ w[m] \in Nat \ {0} /\ w[m] + Len(parts[m]) <= Len(q) + 1
             /\ \A x \in 1..Len(parts[m]) : q[w[m] + x - 1] = parts[m][x] /\ parts[m][x] # "*"
  <2>1. PICK a, b : a = st[m] /\ b = Len(parts[m]) /\ a \in Nat \ {0} /\ b \in Nat /\ a + b <= e + 1
    BY <1>4, <1>5
  <2>2. w[m] = a + 1 /\ a + 1 \in Nat \ {0} /\ a + 1 + b <= e + 1 + 1 /\ Len(q) = e + 1
    BY <1>1, <1>3, <1>11, <2>1
  <2>3. ASSUME NEW x \in 1..b PROVE q[a + 1 + x - 1] = parts[m][x] /\ parts[m][x] # "*"
    <3>1. a + x - 1 \in 1..e /\ a + 1 + x - 1 = (a + x - 1) + 1
      BY <1>1, <2>1, InPart, Zenon
    <3>2. PICK y : y = a + x - 1
      OBVIOUS
    <3>3. q[y + 1] = p[y]
      BY <1>11, <3>1, <3>2
    <3>4. p[y] = parts[m][x] /\ parts[m][x] # "*"
      BY <1>5, <2>1, <3>2
    <3> QED BY <3>1, <3>2, <3>3, <3>4
  <2> QED BY <2>1, <2>2, <2>3
<1>7. ASSUME NEW m \in 1..(n - 1)
      PROVE  w[m + 1] = w[m] + Len(parts[m]) + 1 /\ q[w[m] + Len(parts[m])] = "*"
  <2>1. PICK f : f = m + 1 /\ f \in 1..n /\ m \in 1..n
    BY <1>2
  <2>2. PICK a, b, c : a = st[m] /\ b = Len(parts[m]) /\ c = Len(parts[f])
    OBVIOUS
  <2>3. a \in Nat \ {0} /\ b \in Nat /\ c \in Nat /\ st[f] = a + b + 1 /\ p[a + b] = "*" /\ a + b + 1 + c <= e + 1
    BY <1>4, <1>5, <2>1, <2>2
  <2>4. a + b \in 1..e /\ (a + 1) + b = (a + b) + 1
    BY <1>1, <2>3, BeforeNext, Zenon
  <2>5. w[m] = a + 1 /\ w[f] = a + b + 1 + 1
    BY <1>3, <2>1, <2>2, <2>3
  <2>6. q[(a + b) + 1] = "*"
    BY <1>11, <2>3, <2>4
  <2>7. q[(a + 1) + b] = "*"
    BY <2>4, <2>6
  <2>8. a + b + 1 + 1 = a + 1 + b + 1
    BY <2>3
  <2> QED BY <2>1, <2>2, <2>5, <2>7, <2>8
<1>8. w[n] + Len(parts[n]) = Len(q) + 1
  <2>0. st[n] \in Nat \ {0} /\ Len(parts[n]) \in Nat /\ st[n] + Len(parts[n]) = e + 1
    BY <1>2, <1>4, <1>5
  <2>1. PICK a, b : a = st[n] /\ b = Len(parts[n]) /\ a \in Nat /\ b \in Nat /\ a + b = e + 1
    BY <2>0
  <2>2. a + 1 + b = e + 1 + 1
    <3>1. a \in Nat /\ b \in Nat /\ a + b = e + 1
      BY <2>1
    <3> QED BY <1>12, <3>1
  <2>3. w[n] = a + 1 /\ Len(q) = e + 1
    BY <1>2, <1>3, <1>11, <2>1
  <2> QED BY <2>1, <2>2, <2>3
<1>9. w[1] = 2
  <2>1. w[1] = st[1] + 1 /\ st[1] = 1 /\ 1 + 1 = 2
    BY <1>2, <1>3 DEF Placed
  <2> QED BY <2>1
<1>10. Laid(parts, w, q, Len(q) + 1)
  BY <1>1, <1>6, <1>7, <1>8 DEF Laid
<1> QED BY <1>9, <1>10 DEF Placed

\* A star in front puts a pattern one place further on.
LEMMA BehindStar ==
  ASSUME NEW S, "*" \in S, NEW p \in Seq(S)
  PROVE  <<"*">> \o p \in Seq(S) /\ Behind(<<"*">> \o p, p)
<1>0. <<"*">> \in Seq(S) /\ Len(<<"*">>) = 1 /\ <<"*">>[1] = "*"
  OBVIOUS
<1>1. PICK u \in Seq(S) : u = <<"*">> /\ Len(u) = 1 /\ u[1] = "*"
  BY <1>0
<1>2. Len(p) \in Nat /\ 1 \in 1..1
  OBVIOUS
<1>3. /\ u \o p \in Seq(S) /\ Len(u \o p) = 1 + Len(p)
      /\ \A i \in 1..(1 + Len(p)) : (u \o p)[i] = IF i <= 1 THEN u[i] ELSE p[i - 1]
  BY <1>1, ConcatProperties
<1>4. (u \o p)[1] = "*"
  BY <1>1, <1>2, <1>3
<1>5. ASSUME NEW x \in 1..Len(p) PROVE (u \o p)[x + 1] = p[x]
  <2>1. x + 1 \in 1..(1 + Len(p)) /\ ~(x + 1 <= 1) /\ x + 1 - 1 = x
    BY <1>2
  <2> QED BY <1>3, <2>1
<1>6. Len(u \o p) = Len(p) + 1
  BY <1>2, <1>3
<1>7. Behind(u \o p, p)
  BY <1>4, <1>5, <1>6 DEF Behind
<1> QED BY <1>1, <1>3, <1>7

\* And one after it is its last character.
LEMMA BetweenStars ==
  ASSUME NEW S, "*" \in S, NEW p \in Seq(S)
  PROVE  <<"*">> \o p \o <<"*">> \in Seq(S) /\ Between(<<"*">> \o p \o <<"*">>, p)
<1>0. <<"*">> \in Seq(S) /\ Len(<<"*">>) = 1 /\ <<"*">>[1] = "*"
  OBVIOUS
<1>1. PICK u \in Seq(S) : u = <<"*">> /\ Len(u) = 1 /\ u[1] = "*"
  BY <1>0
<1>2. PICK v \in Seq(S) : Behind(v, p) /\ v = <<"*">> \o p
  BY BehindStar, Zenon
<1>3. Len(p) \in Nat /\ Len(v) = Len(p) + 1 /\ v[1] = "*" /\ \A x \in 1..Len(p) : v[x + 1] = p[x]
  BY <1>2 DEF Behind
<1>4. /\ v \o u \in Seq(S) /\ Len(v \o u) = Len(v) + 1
      /\ \A i \in 1..(Len(v) + 1) : (v \o u)[i] = IF i <= Len(v) THEN v[i] ELSE u[i - Len(v)]
  BY <1>1, <1>2, ConcatProperties
<1>5. (v \o u)[1] = "*"
  BY <1>3, <1>4
<1>6. (v \o u)[Len(p) + 2] = "*"
  <2>1. /\ Len(p) + 2 \in 1..(Len(v) + 1) /\ ~(Len(p) + 2 <= Len(v))
        /\ Len(p) + 2 - Len(v) = 1
    BY <1>3
  <2> QED BY <1>1, <1>4, <2>1
<1>7. ASSUME NEW x \in 1..Len(p) PROVE (v \o u)[x + 1] = p[x]
  <2>1. x + 1 \in 1..(Len(v) + 1) /\ x + 1 <= Len(v)
    BY <1>3
  <2> QED BY <1>3, <1>4, <2>1
<1>8. Len(v \o u) = Len(p) + 2
  BY <1>3, <1>4
<1>9. v \o u = <<"*">> \o p \o <<"*">>
  BY <1>1, <1>2
<1>10. Between(v \o u, p)
  BY <1>5, <1>6, <1>7, <1>8 DEF Between
<1> QED BY <1>4, <1>9, <1>10

\* glob_match answers what its doc promises, whatever the pattern and the path:
\* taking the leftmost occurrence of each literal and never going back misses
\* nothing.
THEOREM GlobMatches ==
  ASSUME NEW S, NEW p \in Seq(S), NEW s \in Seq(S), "*" \in S
  PROVE  GlobMatch(p, s) <=> GlobPromise(p, s)
<1>1. PICK parts : parts = Parts(p)
  OBVIOUS
<1>2. PICK st : /\ parts \in Seq(Seq(S)) /\ Len(parts) \in Nat \ {0}
                /\ Laid(parts, st, p, Len(p) + 1) /\ st[1] = 1
  BY <1>1, PartsAreLaid
<1>3. Len(parts) > 0 /\ Len(p) \in Nat
  BY <1>2
<1>4. "*" \in ToSet(p) <=> Len(parts) > 1
  <2>1. "*" \in ToSet(p) <=> \E x \in 1..Len(p) : p[x] = "*"
    <3>1. DOMAIN p = 1..Len(p)
      OBVIOUS
    <3> QED BY <3>1 DEF ToSet
  <2>2. (\E x \in 1..Len(p) : p[x] = "*") <=> Len(parts) > 1
    BY <1>2, <1>3, PartsByStars
  <2> QED BY <2>1, <2>2
<1>5. CASE Len(parts) > 1
  <2>0. PICK q \in Seq(S) : Behind(q, p) /\ q = <<"*">> \o p
    BY BehindStar, Zenon
  <2>1. q = <<"*">> \o p /\ Len(q) = Len(p) + 1 /\ q[1] = "*" /\ \A x \in 1..Len(p) : q[x + 1] = p[x]
    BY <2>0 DEF Behind
  <2>2. PICK w : Laid(parts, w, q, Len(q) + 1) /\ w[1] = 2
    <3>1. PICK sp \in Seq(Seq(S)) : sp = parts
      BY <1>2
    <3>2. Placed(sp, st, p, 1) /\ Len(sp) > 0
      BY <1>2, <1>3, <3>1 DEF Placed
    <3>3. Behind(q, p)
      BY <2>0
    <3>4. \E w : Placed(sp, w, q, 2)
      BY <3>2, <3>3, LaidBehind, Zenon
    <3> QED BY <3>1, <3>4 DEF Placed
  <2>3. Laid(Parts(p), w, q, Len(q) + 1) /\ Len(Parts(p)) > 1 /\ Parts(p) \in Seq(Seq(S))
    BY <1>1, <1>2, <1>5, <2>2
  <2>4. GlobMatch(p, s) <=> Ahead(q, s, w[1], 1)
    BY <2>3, StarsMatch
  <2>5. Len(q) > 0
    BY <1>3, <2>1
  <2>6. Matches(q, s) <=> Ahead(q, s, 2, 1)
    BY <2>1, <2>5, StarBefore
  <2>7. GlobPromise(p, s) <=> Matches(q, s)
    BY <1>4, <1>5, <2>1 DEF GlobPromise
  <2> QED BY <2>2, <2>4, <2>6, <2>7
<1>6. CASE ~(Len(parts) > 1)
  <2>1. Len(parts) = 1
    <3>1. PICK n : n = Len(parts) /\ n \in Nat /\ n # 0 /\ ~(n > 1)
      BY <1>2, <1>6
    <3>2. n = 1
      BY <3>1
    <3> QED BY <3>1, <3>2
  <2>2. GlobMatch(p, s) <=> Occurrences(p, s) # {}
    BY <1>1, <2>1 DEF GlobMatch
  <2>0. PICK q \in Seq(S) : Between(q, p) /\ q = <<"*">> \o p \o <<"*">>
    BY BetweenStars, Zenon
  <2>3. /\ q = <<"*">> \o p \o <<"*">> /\ Len(q) = Len(p) + 2 /\ q[1] = "*"
        /\ q[Len(p) + 2] = "*" /\ \A x \in 1..Len(p) : q[x + 1] = p[x]
    BY <2>0 DEF Between
  <2>4. \A x \in 1..Len(p) : p[x] # "*"
    BY <1>2, <1>3, <1>6, PartsByStars
  <2>5. Ahead(q, s, 2, 1) <=> Occurrences(p, s) # {}
    <3>1. q[Len(q)] = "*" /\ \A x \in 1..Len(p) : p[x] # "*" /\ q[x + 1] = p[x]
      BY <2>3, <2>4
    <3> QED BY <2>3, <3>1, PlainMatch
  <2>6. Matches(q, s) <=> Ahead(q, s, 2, 1)
    <3>1. Len(q) > 0
      BY <1>3, <2>3
    <3> QED BY <2>3, <3>1, StarBefore
  <2>7. GlobPromise(p, s) <=> Matches(q, s)
    BY <1>4, <1>6, <2>3 DEF GlobPromise
  <2> QED BY <2>2, <2>5, <2>6, <2>7
<1> QED BY <1>5, <1>6

-----------------------------------------------------------------------------
(* Grep: line by line it shows what it would of the whole text.             *)

\* How many of the numbers of H are up to k, and how many of a..b are not in it.
Upto(H, k) == Cardinality({i \in H : i <= k})
Missed(H, a, b) == Cardinality((a..b) \ H)

\* One line further, a hit is one more hit up to there,
LEMMA UptoGrows ==
  ASSUME NEW n \in Nat, NEW H, H \subseteq 1..n
  PROVE  /\ Upto(H, 0) = 0
         /\ \A k \in 0..n : Upto(H, k) \in Nat
         /\ \A k \in 1..n : Upto(H, k) = IF k \in H THEN Upto(H, k - 1) + 1 ELSE Upto(H, k - 1)
         /\ Upto(H, n) = Cardinality(H)
<1> DEFINE U(k) == {i \in H : i <= k}
<1>1. \A k : IsFiniteSet(U(k)) /\ Cardinality(U(k)) \in Nat
  <2>1. IsFiniteSet(1..n)
    BY FS_Interval
  <2>2. \A k : U(k) \subseteq 1..n
    OBVIOUS
  <2>3. \A k : IsFiniteSet(U(k))
    BY <2>1, <2>2, FS_Subset
  <2> QED BY <2>3, FS_CardinalityType
<1>2. Upto(H, 0) = 0
  <2>1. U(0) = {}
    <3>1. \A i \in H : i \in Nat /\ ~(i <= 0)
      OBVIOUS
    <3> QED BY <3>1
  <2> QED BY <2>1, FS_EmptySet DEF Upto
<1>3. ASSUME NEW k \in 1..n
      PROVE  Upto(H, k) = IF k \in H THEN Upto(H, k - 1) + 1 ELSE Upto(H, k - 1)
  <2>1. CASE k \in H
    <3>1. k \notin U(k - 1) /\ U(k) = U(k - 1) \cup {k}
      <4>1. \A i \in H : i <= k <=> i = k \/ i <= k - 1
        OBVIOUS
      <4>2. ~(k <= k - 1)
        OBVIOUS
      <4> QED BY <2>1, <4>1, <4>2
    <3> HIDE DEF U
    <3>2. Cardinality(U(k - 1) \cup {k}) = Cardinality(U(k - 1)) + 1
      BY <1>1, <3>1, FS_AddElement
    <3> QED BY <2>1, <3>1, <3>2 DEF Upto, U
  <2>2. CASE k \notin H
    <3>1. U(k) = U(k - 1)
      <4>1. \A i \in H : i <= k <=> i <= k - 1
        BY <2>2
      <4> QED BY <4>1
    <3> QED BY <2>2, <3>1 DEF Upto
  <2> QED BY <2>1, <2>2
<1>4. U(n) = H
  <2>1. \A i \in H : i <= n
    OBVIOUS
  <2> QED BY <2>1
<1>5. \A k \in 0..n : Upto(H, k) \in Nat
  BY <1>1 DEF Upto
<1>6. Upto(H, n) = Cardinality(H)
  BY <1>4 DEF Upto
<1> QED BY <1>2, <1>3, <1>5, <1>6

\* and there are never fewer.
LEMMA UptoLess ==
  ASSUME NEW n \in Nat, NEW H, H \subseteq 1..n, NEW i \in 0..n, NEW k \in 0..n, i <= k
  PROVE  Upto(H, i) <= Upto(H, k)
<1> DEFINE U(x) == {j \in H : j <= x}
<1>1. IsFiniteSet(U(k))
  <2>1. IsFiniteSet(1..n)
    BY FS_Interval
  <2>2. U(k) \in SUBSET (1..n)
    OBVIOUS
  <2> HIDE DEF U
  <2> QED BY <2>1, <2>2, FS_Subset
<1>2. U(i) \subseteq U(k)
  <2>1. \A j \in H : j \in Nat
    OBVIOUS
  <2>2. \A j \in Nat : j <= i => j <= k
    OBVIOUS
  <2> QED BY <2>1, <2>2
<1> HIDE DEF U
<1>3. Cardinality(U(i)) <= Cardinality(U(k))
  BY <1>1, <1>2, FS_Subset
<1> QED BY <1>3 DEF Upto, U

\* One line further, a miss is one more miss since the hit;
LEMMA MissedGrows ==
  ASSUME NEW H, NEW a \in Nat, NEW b \in Nat, a <= b
  PROVE  /\ Missed(H, a, b) \in Nat
         /\ Missed(H, a, b + 1) = IF b + 1 \in H THEN Missed(H, a, b) ELSE Missed(H, a, b) + 1
<1> DEFINE M(x) == (a..x) \ H
<1>1. IsFiniteSet(M(b)) /\ Cardinality(M(b)) \in Nat
  <2>1. IsFiniteSet(a..b) /\ M(b) \subseteq a..b
    BY FS_Interval
  <2>2. IsFiniteSet(M(b))
    BY <2>1, FS_Subset
  <2> QED BY <2>2, FS_CardinalityType
<1>2. \A i : i \in a..(b + 1) <=> i \in a..b \/ i = b + 1
  OBVIOUS
<1>3. b + 1 \notin a..b
  OBVIOUS
<1>4. CASE b + 1 \in H
  <2>1. M(b + 1) = M(b)
    BY <1>2, <1>4
  <2> QED BY <1>1, <1>4, <2>1 DEF Missed
<1>5. CASE b + 1 \notin H
  <2>1. M(b + 1) = M(b) \cup {b + 1} /\ b + 1 \notin M(b)
    BY <1>2, <1>3, <1>5
  <2> HIDE DEF M
  <2>2. Cardinality(M(b) \cup {b + 1}) = Cardinality(M(b)) + 1
    BY <1>1, <2>1, FS_AddElement
  <2> QED BY <1>1, <1>5, <2>1, <2>2 DEF Missed, M
<1> QED BY <1>4, <1>5

\* none at the hit itself, fewer since a later one, and all lines when no hit follows.
LEMMA MissedFrom ==
  ASSUME NEW H, NEW a \in H, a \in Nat
  PROVE  /\ Missed(H, a, a) = 0
         /\ \A c \in Nat, b \in Nat : c <= a => Missed(H, a, b) <= Missed(H, c, b)
         /\ \A b \in Nat : a <= b /\ (\A i \in (a + 1)..b : i \notin H) => Missed(H, a, b) = b - a
<1>1. Missed(H, a, a) = 0
  <2>1. (a..a) \ H = {}
    OBVIOUS
  <2> QED BY <2>1, FS_EmptySet DEF Missed
<1>2. ASSUME NEW c \in Nat, NEW b \in Nat, c <= a PROVE Missed(H, a, b) <= Missed(H, c, b)
  <2>1. PICK M, N : M = (a..b) \ H /\ N = (c..b) \ H
    OBVIOUS
  <2>2. IsFiniteSet(c..b) /\ N \subseteq c..b /\ M \subseteq N
    BY <1>2, <2>1, FS_Interval
  <2>3. IsFiniteSet(N)
    BY <2>2, FS_Subset
  <2>4. Cardinality(M) <= Cardinality(N)
    BY <2>2, <2>3, FS_Subset
  <2> QED BY <2>1, <2>4 DEF Missed
<1>3. ASSUME NEW b \in Nat, a <= b, \A i \in (a + 1)..b : i \notin H
      PROVE  Missed(H, a, b) = b - a
  <2>1. (a..b) \ H = (a + 1)..b
    <3>1. \A i : i \in a..b <=> i = a \/ i \in (a + 1)..b
      BY <1>3
    <3>2. a \notin (a + 1)..b
      OBVIOUS
    <3> QED BY <1>3, <3>1, <3>2
  <2>2. Cardinality((a + 1)..b) = IF a + 1 > b THEN 0 ELSE b - (a + 1) + 1
    BY FS_Interval
  <2>3. (IF a + 1 > b THEN 0 ELSE b - (a + 1) + 1) = b - a
    BY <1>3
  <2> QED BY <2>1, <2>2, <2>3 DEF Missed
<1> QED BY <1>1, <1>2, <1>3

\* A grep with patterns of P, that keeps lines of L.
Greps(P, L) ==
  [kind : {"grep"}, pattern : P, ignore_case : BOOLEAN, invert : BOOLEAN, line_number : BOOLEAN,
   count_only : BOOLEAN, max_count : Nat, before : Nat, after : Nat,
   line_no : Nat, hits : Nat, pending_after : Nat, before_buf : Seq(Nat \X L)]

SameOptions(g, h) ==
  /\ g.pattern = h.pattern /\ g.ignore_case = h.ignore_case /\ g.invert = h.invert
  /\ g.line_number = h.line_number /\ g.count_only = h.count_only
  /\ g.max_count = h.max_count /\ g.before = h.before /\ g.after = h.after

Buffered(g) == [i \in 1..Len(g.before_buf) |-> Format(g, g.before_buf[i][1], g.before_buf[i][2])]

\* The counters after a line.
Counted(r, g, hits, pending, buf) ==
  r[1].line_no = g.line_no + 1 /\ r[1].hits = hits /\ r[1].pending_after = pending /\ r[1].before_buf = buf

\* What feed does, by its three cases: it has had its hits, it has them and
\* shows what follows the last, it is looking for more.
LEMMA FeedIs ==
  ASSUME NEW P, NEW L, NEW g \in Greps(P, L), NEW line \in L, NEW hit \in BOOLEAN,
         NEW r, r = FeedHit(g, line, hit)
  PROVE  /\ SameOptions(r[1], g) /\ r[1] \in Greps(P, L)
         /\ Stopped(g) /\ g.pending_after = 0 => r[1] = g /\ r[2] = <<>>
         /\ Stopped(g) /\ g.pending_after > 0 /\ hit =>
              Counted(r, g, g.hits, g.pending_after, g.before_buf) /\ r[2] = <<>>
         /\ (~Stopped(g) \/ (g.pending_after > 0 /\ ~hit)) =>
              /\ Counted(r, g, IF hit THEN g.hits + 1 ELSE g.hits, NextPending(g, hit),
                         NextBefore(g, g.line_no + 1, line, hit))
              /\ r[2] = IF g.count_only THEN <<>>
                        ELSE IF hit THEN Buffered(g) \o <<Format(g, g.line_no + 1, line)>>
                        ELSE IF g.pending_after > 0 THEN <<Format(g, g.line_no + 1, line)>> ELSE <<>>
<1>1. PICK n : n = g.line_no + 1 /\ n \in Nat
  BY DEF Greps
<1>2. PICK buf : buf = NextBefore(g, n, line, hit)
  OBVIOUS
<1>3. buf \in Seq(Nat \X L)
  <2>1. PICK b : b = Append(g.before_buf, <<n, line>>)
    OBVIOUS
  <2>2. g.before_buf \in Seq(Nat \X L) /\ <<n, line>> \in Nat \X L
    BY <1>1 DEF Greps
  <2>3. b \in Seq(Nat \X L) /\ b # <<>>
    BY <2>1, <2>2, AppendProperties
  <2>4. Tail(b) \in Seq(Nat \X L)
    BY <2>3
  <2>5. <<>> \in Seq(Nat \X L)
    OBVIOUS
  <2> QED BY <1>2, <2>1, <2>2, <2>3, <2>4, <2>5 DEF NextBefore
<1>4. PICK pend : pend = NextPending(g, hit)
  OBVIOUS
<1>5. pend \in Nat
  BY <1>4 DEF NextPending, Greps
<1>6. PICK more : more = IF hit THEN g.hits + 1 ELSE g.hits
  OBVIOUS
<1>7. more \in Nat /\ more = g.hits + (IF hit THEN 1 ELSE 0)
  BY <1>6 DEF Greps
<1>8. CASE Stopped(g) /\ g.pending_after = 0
  <2>1. r = <<g, <<>>>>
    BY <1>8 DEF FeedHit
  <2> QED BY <1>8, <2>1 DEF SameOptions
<1>9. CASE Stopped(g) /\ g.pending_after > 0 /\ hit
  <2>1. ~(g.pending_after = 0)
    BY <1>9
  <2>2. r = <<[g EXCEPT !.line_no = n], <<>>>>
    BY <1>1, <1>9, <2>1 DEF FeedHit
  <2>3. r[1] = [g EXCEPT !.line_no = n] /\ r[2] = <<>>
    BY <2>2
  <2>4. SameOptions(r[1], g) /\ r[1] \in Greps(P, L)
    BY <1>1, <2>3 DEF SameOptions, Greps
  <2>5. Counted(r, g, g.hits, g.pending_after, g.before_buf)
    BY <1>1, <2>3 DEF Counted, Greps
  <2> QED BY <1>9, <2>1, <2>3, <2>4, <2>5
<1>10. CASE ~Stopped(g) \/ (g.pending_after > 0 /\ ~hit)
  <2>1. PICK shown : shown = IF g.count_only THEN <<>>
                     ELSE IF hit THEN Buffered(g) \o <<Format(g, n, line)>>
                     ELSE IF g.pending_after > 0 THEN <<Format(g, n, line)>> ELSE <<>>
    OBVIOUS
  <2>2. g.pending_after > 0 => ~(g.pending_after = 0)
    BY DEF Greps
  <2>3. r = <<[[g EXCEPT !.line_no = n] EXCEPT !.hits = g.hits + (IF hit THEN 1 ELSE 0),
                        !.pending_after = pend, !.before_buf = buf], shown>>
    BY <1>1, <1>2, <1>4, <1>10, <2>1, <2>2 DEF FeedHit, Buffered, Greps
  <2>4. /\ r[1] = [[g EXCEPT !.line_no = n] EXCEPT !.hits = g.hits + (IF hit THEN 1 ELSE 0),
                        !.pending_after = pend, !.before_buf = buf]
        /\ r[2] = shown
    BY <2>3
  <2>5. r[1] = [[g EXCEPT !.line_no = n] EXCEPT !.hits = more, !.pending_after = pend, !.before_buf = buf]
    BY <1>7, <2>4
  <2>6. SameOptions(r[1], g) /\ r[1] \in Greps(P, L)
    BY <1>1, <1>3, <1>5, <1>7, <2>5 DEF SameOptions, Greps
  <2>7. Counted(r, g, more, pend, buf)
    BY <1>1, <2>5 DEF Counted, Greps
  <2> QED BY <1>1, <1>2, <1>4, <1>6, <1>10, <2>1, <2>2, <2>4, <2>6, <2>7
<1> QED BY <1>8, <1>9, <1>10 DEF Greps

\* The numbers of the lines that match, and of those among them that are taken.
HitsOf(g, lines) == {i \in 1..Len(lines) : GrepMatches(g, lines[i])}
TakenOf(g, lines) == {i \in HitsOf(g, lines) : g.max_count = 0 \/ Upto(HitsOf(g, lines), i - 1) < g.max_count}

\* What the specification selects, by hits and misses.
LEMMA SelectedIs ==
  ASSUME NEW g, NEW S, NEW lines \in Seq(S), NEW i \in 1..Len(lines)
  PROVE  i \in Selected(g, lines)
           <=> IF i \in HitsOf(g, lines) THEN i \in TakenOf(g, lines)
               ELSE \/ \E h \in TakenOf(g, lines) : h < i /\ Missed(HitsOf(g, lines), h, i) <= g.after
                    \/ \E h \in TakenOf(g, lines) : h > i /\ h - i <= g.before
<1>1. PICK H : H = HitsOf(g, lines) /\ H = {j \in 1..Len(lines) : GrepMatches(g, lines[j])}
  BY DEF HitsOf
<1>2. \A j \in H : Cardinality({x \in H : x < j}) = Upto(H, j - 1)
  <2> SUFFICES ASSUME NEW j \in H PROVE {x \in H : x < j} = {x \in H : x <= j - 1}
    BY DEF Upto
  <2>1. j \in Nat /\ \A x \in H : x \in Nat
    BY <1>1
  <2>2. \A x \in H : x < j <=> x <= j - 1
    BY <2>1
  <2> QED BY <2>2
<1>3. PICK T : T = TakenOf(g, lines)
  OBVIOUS
<1>4. T = IF g.max_count = 0 THEN H ELSE {j \in H : Cardinality({x \in H : x < j}) < g.max_count}
  BY <1>1, <1>2, <1>3 DEF TakenOf
<1>5. Selected(g, lines) = T \cup {j \in (1..Len(lines)) \ H :
                                    \/ \E h \in T : h < j /\ Cardinality((h..j) \ H) <= g.after
                                    \/ \E h \in T : h > j /\ h - j <= g.before}
  BY <1>1, <1>4 DEF Selected
<1>6. T \subseteq H
  BY <1>4
<1> QED BY <1>1, <1>3, <1>5, <1>6 DEF Missed

\* What a grep has shown once line i is decided, for each i.
ShownStep(shown, i, chosen, g, lines) ==
  IF i \in chosen THEN Append(shown, Format(g, i, lines[i])) ELSE shown
Formatted(g, lines) == {Format(g, i, lines[i]) : i \in 1..Len(lines)}
ShownBy(r, g, lines) ==
  /\ r[0] = <<>>
  /\ \A i \in 1..Len(lines) : r[i] = ShownStep(r[i - 1], i, Selected(g, lines), g, lines)
  /\ \A i \in 0..Len(lines) : r[i] \in Seq(Formatted(g, lines))

\* The batch's fold, line by line.
LEMMA BatchChain ==
  ASSUME NEW S, NEW lines \in Seq(S), NEW g, ~g.count_only
  PROVE  \E r : ShownBy(r, g, lines) /\ r[Len(lines)] = GrepBatch(g, lines)
<1> DEFINE n == Len(lines)
           V == Seq(Formatted(g, lines))
           chosen == Selected(g, lines)
           base == <<>>
           step(v, i) == ShownStep(v, [j \in 1..Len(lines) |-> j][i], chosen, g, lines)
           F == [i \in 1..n |-> [v \in V |-> step(v, i)]]
           Is(it) == it = [x \in SUBSET (1..n) |-> IF x = {} THEN base ELSE step(it[x \ {Max(x)}], Max(x))]
           h == CHOOSE it : Is(it)
<1>1. n \in Nat
  OBVIOUS
<1>2. GrepBatch(g, lines) = h[1..n]
  <2> HIDE DEF chosen
  <2>1. GrepBatch(g, lines) =
          FoldLeft(LAMBDA shown, i : IF i \in chosen THEN Append(shown, Format(g, i, lines[i])) ELSE shown,
                   <<>>, [i \in 1..Len(lines) |-> i])
    BY Zenon DEF GrepBatch, chosen
  <2> QED BY <1>1, <2>1 DEF ShownStep, FoldLeft, MapThenFoldSet
<1>3. base \in V
  OBVIOUS
<1>4. ASSUME NEW v \in V, NEW i \in 1..n PROVE step(v, i) \in V
  <2>1. PICK t : t = Format(g, i, lines[i])
    OBVIOUS
  <2>2. t \in Formatted(g, lines)
    BY <2>1 DEF Formatted
  <2>3. Append(v, t) \in V
    BY <2>2, AppendProperties
  <2>4. step(v, i) = IF i \in chosen THEN Append(v, t) ELSE v
    BY <1>1, <2>1 DEF ShownStep
  <2> QED BY <2>3, <2>4
<1> HIDE DEF n, V, base, step
<1>5. ASSUME NEW v \in V, NEW i \in 1..n PROVE F[i][v] = step(v, i) /\ F[i][v] \in V
  BY <1>4
<1> HIDE DEF F
<1>6. PICK f : /\ f \in [SUBSET (1..n) -> V] /\ f[{}] = base
               /\ \A x \in SUBSET (1..n) : x # {} => f[x] = F[Max(x)][f[x \ {Max(x)}]]
               /\ \A x \in SUBSET (1..n) : x # {} => Max(x) \in 1..n /\ x \ {Max(x)} \in SUBSET (1..n)
  <2>1. \A v \in V, i \in 1..n : F[i][v] \in V
    BY <1>5
  <2> QED BY <1>1, <1>3, <2>1, FoldExists
<1>7. Is(f)
  <2>1. ASSUME NEW x \in SUBSET (1..n), x # {} PROVE f[x] = step(f[x \ {Max(x)}], Max(x))
    <3>1. Max(x) \in 1..n /\ f[x \ {Max(x)}] \in V
      BY <1>6, <2>1
    <3> QED BY <1>5, <1>6, <2>1, <3>1
  <2> QED BY <1>6, <2>1
<1>8. Is(h)
  <2> HIDE DEF Is
  <2> QED BY <1>7
<1> HIDE DEF h
<1> DEFINE r == [k \in 0..n |-> h[1..k]]
<1>9. r[0] = base /\ r[n] = h[1..n]
  <2>1. 1..0 = {} /\ 0 \in 0..n /\ n \in 0..n
    BY <1>1
  <2>2. h[{}] = base
    BY <1>8
  <2> QED BY <2>1, <2>2
<1>10. ASSUME NEW k \in 1..n PROVE r[k] = step(r[k - 1], k)
  <2>1. k \in 0..n /\ k - 1 \in 0..n
    BY <1>1
  <2>2. h[1..k] = step(h[(1..k) \ {Max(1..k)}], Max(1..k))
    BY <1>1, <1>8, FirstNumbers
  <2>3. h[1..k] = step(h[1..(k - 1)], k)
    BY <1>1, <2>2, FirstNumbers
  <2> QED BY <2>1, <2>3
<1> HIDE DEF r
<1> DEFINE P == {k \in 0..n : r[k] \in V}
<1>11. 0 \in P
  BY <1>1, <1>3, <1>9
<1>12. ASSUME NEW k \in 1..n, k - 1 \in P PROVE k \in P
  <2>1. k \in 0..n
    BY <1>1
  <2> QED BY <1>4, <1>10, <1>12, <2>1
<1> HIDE DEF P
<1>13. \A k \in 0..n : k \in P
  BY <1>1, <1>11, <1>12, Induct
<1>14. \A k \in 0..n : r[k] \in V
  BY <1>13 DEF P
<1>15. \A k \in 1..n : r[k] = step(r[k - 1], k)
  BY <1>10
<1>16. /\ r[0] = <<>>
       /\ \A i \in 1..Len(lines) : r[i] = ShownStep(r[i - 1], i, Selected(g, lines), g, lines)
       /\ \A i \in 0..Len(lines) : r[i] \in Seq(Formatted(g, lines))
       /\ r[Len(lines)] = GrepBatch(g, lines)
  BY <1>2, <1>9, <1>14, <1>15 DEF n, V, base, step
<1> QED BY <1>16 DEF ShownBy

\* The lines from b + 1 to k, as they are shown.
Run(g, lines, b, k) == [j \in 1..(k - b) |-> Format(g, b + j, lines[b + j])]

AppendsBehind(w, u, t) == Append(w \o u, t) = w \o Append(u, t)

\* Appending, behind what is already there,
LEMMA AppendBehind ==
  ASSUME NEW V, NEW w \in Seq(V), NEW u \in Seq(V), NEW t \in V
  PROVE  AppendsBehind(w, u, t)
<1>1. w \o u \in Seq(V) /\ <<t>> \in Seq(V)
  BY ConcatProperties
<1>2. Append(w \o u, t) = (w \o u) \o <<t>>
  BY <1>1, AppendIsConcat
<1>3. PICK one \in Seq(V) : one = <<t>>
  BY <1>1
<1>4. (w \o u) \o one = w \o (u \o one)
  BY ConcatAssociative
<1>5. u \o one = Append(u, t)
  BY <1>3, AppendIsConcat
<1> QED BY <1>2, <1>3, <1>4, <1>5 DEF AppendsBehind

\* and as a function.
LEMMA AppendAs ==
  ASSUME NEW V, NEW u \in Seq(V), NEW t \in V, NEW m \in Nat, Len(u) = m
  PROVE  Append(u, t) = [j \in 1..(m + 1) |-> IF j = m + 1 THEN t ELSE u[j]]
<1>1. PICK x : x = Append(u, t)
  OBVIOUS
<1>2. x \in Seq(V) /\ Len(x) = m + 1 /\ x[m + 1] = t /\ \A j \in 1..m : x[j] = u[j]
  BY <1>1, AppendProperties
<1>3. x = [j \in 1..(m + 1) |-> x[j]]
  BY <1>2
<1>4. ASSUME NEW j \in 1..(m + 1) PROVE x[j] = IF j = m + 1 THEN t ELSE u[j]
  <2>1. j # m + 1 => j \in 1..m
    OBVIOUS
  <2> QED BY <1>2, <2>1
<1> QED BY <1>1, <1>3, <1>4

\* No lines in a row,
LEMMA RunNone ==
  ASSUME NEW lines, NEW g, NEW b \in Nat
  PROVE  Run(g, lines, b, b) = <<>>
<1>1. 1..(b - b) = {}
  OBVIOUS
<1> QED BY <1>1 DEF Run

\* one more,
LEMMA RunGrows ==
  ASSUME NEW S, NEW lines \in Seq(S), NEW g, NEW b \in 0..Len(lines), NEW k \in 0..Len(lines), b <= k
  PROVE  /\ Run(g, lines, b, k) \in Seq(Formatted(g, lines))
         /\ b = k => Run(g, lines, b, k) = <<>>
         /\ k < Len(lines) => Run(g, lines, b, k + 1) = Append(Run(g, lines, b, k), Format(g, k + 1, lines[k + 1]))
<1>1. PICK n, m : n = Len(lines) /\ m = k - b /\ n \in Nat /\ m \in Nat /\ b \in Nat /\ k = b + m
  <2>1. Len(lines) \in Nat /\ k - b \in Nat /\ b \in Nat /\ k = b + (k - b)
    OBVIOUS
  <2> QED BY <2>1
<1>2. PICK u : u = [j \in 1..m |-> Format(g, b + j, lines[b + j])] /\ u = Run(g, lines, b, k)
  BY <1>1 DEF Run
<1>3. \A j \in 1..m : u[j] \in Formatted(g, lines)
  <2>1. \A j \in 1..m : b + j \in 1..n
    BY <1>1
  <2>2. \A j \in 1..m : Format(g, b + j, lines[b + j]) \in Formatted(g, lines)
    BY <1>1, <2>1 DEF Formatted
  <2> QED BY <1>2, <2>2
<1>4. u \in Seq(Formatted(g, lines)) /\ Len(u) = m
  <2>1. \A j \in 1..m : Format(g, b + j, lines[b + j]) \in Formatted(g, lines)
    BY <1>2, <1>3
  <2> QED BY <1>1, <1>2, <2>1
<1>5. b = k => u = <<>>
  <2>1. b = k => m = 0
    BY <1>1
  <2> QED BY <1>4, <2>1
<1>6. ASSUME k < Len(lines)
      PROVE  Run(g, lines, b, k + 1) = Append(u, Format(g, k + 1, lines[k + 1]))
  <2>1. PICK t : t = Format(g, k + 1, lines[k + 1])
    OBVIOUS
  <2>2. k + 1 - b = m + 1 /\ b + (m + 1) = k + 1
    BY <1>1
  <2>3. Run(g, lines, b, k + 1) = [j \in 1..(m + 1) |-> Format(g, b + j, lines[b + j])]
    BY <2>2 DEF Run
  <2>4. Append(u, t) = [j \in 1..(m + 1) |-> IF j = m + 1 THEN t ELSE u[j]]
    <3>1. t \in Formatted(g, lines)
      BY <1>1, <1>6, <2>1 DEF Formatted
    <3> QED BY <1>1, <1>4, <3>1, AppendAs
  <2>5. ASSUME NEW j \in 1..(m + 1)
        PROVE  Format(g, b + j, lines[b + j]) = IF j = m + 1 THEN t ELSE u[j]
    <3>1. CASE j = m + 1
      BY <2>1, <2>2, <3>1
    <3>2. CASE j # m + 1
      <4>1. j \in 1..m
        BY <1>1, <3>2
      <4> QED BY <1>2, <3>2, <4>1
    <3> QED BY <3>1, <3>2
  <2> QED BY <2>1, <2>3, <2>4, <2>5
<1> QED BY <1>2, <1>4, <1>5, <1>6

\* and the same as an equation.
LEMMA RunStep ==
  ASSUME NEW S, NEW lines \in Seq(S), NEW g, NEW b \in 0..Len(lines), NEW k \in 0..Len(lines), b <= k,
         k < Len(lines)
  PROVE  Run(g, lines, b, k + 1) = Append(Run(g, lines, b, k), Format(g, k + 1, lines[k + 1]))
BY RunGrows

\* Nothing of e + 1 .. b is shown and all that follows is.
LEMMA ShownRun ==
  ASSUME NEW S, NEW lines \in Seq(S), NEW g, NEW r, ShownBy(r, g, lines),
         NEW e \in 0..Len(lines), NEW b \in 0..Len(lines), NEW k \in 0..Len(lines), e <= b, b <= k,
         \A i \in (e + 1)..b : i \notin Selected(g, lines),
         \A i \in (b + 1)..k : i \in Selected(g, lines)
  PROVE  r[k] = r[e] \o Run(g, lines, b, k)
<1>1. PICK n : n = Len(lines) /\ n \in Nat
  <2>1. Len(lines) \in Nat
    OBVIOUS
  <2> QED BY <2>1
<1>2. r[e] \in Seq(Formatted(g, lines)) /\ \A i \in 1..n : r[i] = ShownStep(r[i - 1], i, Selected(g, lines), g, lines)
  BY <1>1 DEF ShownBy
<1>3. e \in Nat /\ b \in Nat /\ k \in Nat /\ e <= n /\ b <= n /\ k <= n
  BY <1>1
<1> DEFINE P == {x \in 0..n : /\ e <= x /\ x <= b => r[x] = r[e]
                              /\ b <= x /\ x <= k => r[x] = r[e] \o Run(g, lines, b, x)}
<1>4. r[b] = r[e] => r[b] = r[e] \o Run(g, lines, b, b)
  <2>1. Run(g, lines, b, b) = <<>>
    BY <1>3, RunNone
  <2>2. r[e] \o <<>> = r[e]
    BY <1>2
  <2> QED BY <2>1, <2>2
<1>5. 0 \in P
  <2>1. 0 \in 0..n /\ (e <= 0 => e = 0) /\ (b <= 0 => b = 0 /\ e = 0)
    BY <1>1, <1>3
  <2> QED BY <1>4, <2>1
<1>6. ASSUME NEW x \in 1..n, x - 1 \in P PROVE x \in P
  <2>1. x \in 0..n /\ x \in Nat
    BY <1>1
  <2>2. ASSUME e <= x, x <= b PROVE r[x] = r[e]
    <3>1. CASE x = e
      BY <3>1
    <3>2. CASE x # e
      <4>1. e <= x - 1 /\ x - 1 <= b /\ x \in (e + 1)..b
        BY <1>3, <2>1, <2>2, <3>2
      <4>2. r[x] = r[x - 1]
        BY <1>2, <4>1 DEF ShownStep
      <4> QED BY <1>6, <4>1, <4>2
    <3> QED BY <3>1, <3>2
  <2>3. ASSUME b <= x, x <= k PROVE r[x] = r[e] \o Run(g, lines, b, x)
    <3>1. CASE x = b
      BY <1>3, <1>4, <2>2, <3>1
    <3>2. CASE x # b
      <4>1. b <= x - 1 /\ x - 1 <= k /\ x \in (b + 1)..k /\ x - 1 \in 0..n /\ x - 1 < n /\ x - 1 + 1 = x
        <5>1. x \in 1..n /\ x \in Nat /\ b < x
          BY <1>3, <2>1, <2>3, <3>2
        <5>2. b <= x - 1 /\ x - 1 <= k /\ x - 1 + 1 = x /\ x - 1 < n
          BY <1>1, <1>3, <2>3, <5>1
        <5>3. x \in (b + 1)..k /\ x - 1 \in 0..n
          BY <1>1, <1>3, <2>3, <5>1
        <5> QED BY <5>2, <5>3
      <4>2. PICK t, u : t = Format(g, x, lines[x]) /\ u = Run(g, lines, b, x - 1)
        OBVIOUS
      <4>3. r[x] = Append(r[e] \o u, t)
        <5>1. r[x - 1] = r[e] \o u
          BY <1>6, <4>1, <4>2
        <5> QED BY <1>2, <4>1, <4>2, <5>1 DEF ShownStep
      <4>4. Run(g, lines, b, x) = Append(u, t)
        <5>1. PICK y \in 0..Len(lines) : y = x - 1 /\ b <= y /\ y < Len(lines) /\ y + 1 = x
          BY <1>1, <4>1
        <5>2. Run(g, lines, b, y + 1) = Append(Run(g, lines, b, y), Format(g, y + 1, lines[y + 1]))
          BY <5>1, RunStep, Zenon
        <5> QED BY <4>2, <5>1, <5>2
      <4>5. u \in Seq(Formatted(g, lines)) /\ t \in Formatted(g, lines)
        <5>1. PICK y \in 0..Len(lines) : y = x - 1 /\ b <= y
          BY <1>1, <4>1
        <5>2. u \in Seq(Formatted(g, lines))
          BY <4>2, <5>1, RunGrows
        <5>3. t \in Formatted(g, lines)
          BY <1>1, <4>2 DEF Formatted
        <5> QED BY <5>2, <5>3
      <4>6. Append(r[e] \o u, t) = r[e] \o Append(u, t)
        <5>1. PICK W : W = Formatted(g, lines) /\ t \in W
          BY <4>5
        <5>2. PICK w \in Seq(W) : w = r[e]
          BY <1>2, <5>1
        <5>3. PICK v \in Seq(W) : v = u
          BY <4>5, <5>1
        <5>4. PICK z \in W : z = t
          BY <5>1
        <5>5. AppendsBehind(w, v, z)
          BY AppendBehind
        <5> QED BY <5>2, <5>3, <5>4, <5>5 DEF AppendsBehind
      <4> QED BY <4>3, <4>4, <4>6
    <3> QED BY <3>1, <3>2
  <2> QED BY <2>1, <2>2, <2>3
<1> HIDE DEF P
<1>7. k \in P
  <2>1. \A x \in 0..n : x \in P
    BY <1>1, <1>5, <1>6, Induct
  <2> QED BY <1>1, <2>1
<1> QED BY <1>3, <1>7 DEF P

\* A grep fed line by line: gs[k] is the grep after k lines, shown[k] what it
\* made of line k and outs[k] all it made so far.
Feeding(gs, shown, outs, g, lines) ==
  /\ gs[0] = g /\ outs[0] = <<>>
  /\ \A k \in 1..Len(lines) :
       /\ gs[k] = GrepFeed(gs[k - 1], lines[k])[1] /\ shown[k] = GrepFeed(gs[k - 1], lines[k])[2]
       /\ outs[k] = outs[k - 1] \o shown[k]

Fresh(g) == g.line_no = 0 /\ g.hits = 0 /\ g.pending_after = 0 /\ g.before_buf = <<>>

\* One line, by the three cases of FeedIs: from grep g to grep h.
Fed(g, h, out, line, hit) ==
  /\ Stopped(g) /\ g.pending_after = 0 => h = g /\ out = <<>>
  /\ Stopped(g) /\ g.pending_after > 0 /\ hit =>
       /\ h.line_no = g.line_no + 1 /\ h.hits = g.hits
       /\ h.pending_after = g.pending_after /\ h.before_buf = g.before_buf /\ out = <<>>
  /\ (~Stopped(g) \/ (g.pending_after > 0 /\ ~hit)) =>
       /\ h.line_no = g.line_no + 1 /\ h.hits = IF hit THEN g.hits + 1 ELSE g.hits
       /\ h.pending_after = NextPending(g, hit)
       /\ h.before_buf = NextBefore(g, g.line_no + 1, line, hit)
       /\ out = IF g.count_only THEN <<>>
                ELSE IF hit THEN Buffered(g) \o <<Format(g, g.line_no + 1, line)>>
                ELSE IF g.pending_after > 0 THEN <<Format(g, g.line_no + 1, line)>> ELSE <<>>

\* What Grep::feed does to a grep and returns.
LEMMA FedOnce ==
  ASSUME NEW P, NEW L, NEW g \in Greps(P, L), NEW line \in L, NEW hit \in BOOLEAN
  PROVE  /\ SameOptions(FeedHit(g, line, hit)[1], g) /\ FeedHit(g, line, hit)[1] \in Greps(P, L)
         /\ Fed(g, FeedHit(g, line, hit)[1], FeedHit(g, line, hit)[2], line, hit)
<1>1. PICK r : r = FeedHit(g, line, hit)
  OBVIOUS
<1>2. /\ SameOptions(r[1], g) /\ r[1] \in Greps(P, L)
      /\ Stopped(g) /\ g.pending_after = 0 => r[1] = g /\ r[2] = <<>>
      /\ Stopped(g) /\ g.pending_after > 0 /\ hit =>
           Counted(r, g, g.hits, g.pending_after, g.before_buf) /\ r[2] = <<>>
      /\ (~Stopped(g) \/ (g.pending_after > 0 /\ ~hit)) =>
           /\ Counted(r, g, IF hit THEN g.hits + 1 ELSE g.hits, NextPending(g, hit),
                      NextBefore(g, g.line_no + 1, line, hit))
           /\ r[2] = IF g.count_only THEN <<>>
                     ELSE IF hit THEN Buffered(g) \o <<Format(g, g.line_no + 1, line)>>
                     ELSE IF g.pending_after > 0 THEN <<Format(g, g.line_no + 1, line)>> ELSE <<>>
  BY <1>1, FeedIs
<1>3. Fed(g, r[1], r[2], line, hit)
  BY <1>2 DEF Fed, Counted
<1> QED BY <1>1, <1>2, <1>3

\* Feeding changes no option.
LEMMA SameMatch ==
  ASSUME NEW g, NEW h, SameOptions(h, g), NEW line
  PROVE  /\ GrepMatches(h, line) = GrepMatches(g, line)
         /\ \A k : Format(h, k, line) = Format(g, k, line)
BY DEF SameOptions, GrepMatches, Format

\* So every grep of a run has the options of the first.
LEMMA FedEach ==
  ASSUME NEW P, NEW L, NEW g \in Greps(P, L), NEW lines \in Seq(L), NEW gs, NEW shown, NEW outs,
         Feeding(gs, shown, outs, g, lines)
  PROVE  /\ \A k \in 0..Len(lines) : gs[k] \in Greps(P, L) /\ SameOptions(gs[k], g)
         /\ \A k \in 1..Len(lines) : Fed(gs[k - 1], gs[k], shown[k], lines[k], k \in HitsOf(g, lines))
<1>1. PICK n : n = Len(lines) /\ n \in Nat /\ \A k \in 1..n : lines[k] \in L
  <2>1. Len(lines) \in Nat /\ \A k \in 1..Len(lines) : lines[k] \in L
    OBVIOUS
  <2> QED BY <2>1
<1> DEFINE Q == {k \in 0..n : gs[k] \in Greps(P, L) /\ SameOptions(gs[k], g)}
<1>2. 0 \in Q
  <2>1. gs[0] = g /\ 0 \in 0..n
    BY <1>1 DEF Feeding
  <2> QED BY <2>1 DEF SameOptions
<1>3. ASSUME NEW k \in 1..n, gs[k - 1] \in Greps(P, L), SameOptions(gs[k - 1], g)
      PROVE  /\ gs[k] \in Greps(P, L) /\ SameOptions(gs[k], g)
             /\ Fed(gs[k - 1], gs[k], shown[k], lines[k], k \in HitsOf(g, lines))
  <2>1. PICK was \in Greps(P, L) : was = gs[k - 1]
    BY <1>3
  <2>2. PICK line \in L : line = lines[k]
    BY <1>1
  <2>3. PICK hit : hit = GrepMatches(was, line)
    OBVIOUS
  <2>4. hit \in BOOLEAN
    BY <2>1, <2>3 DEF GrepMatches, Greps
  <2>5. gs[k] = FeedHit(was, line, hit)[1] /\ shown[k] = FeedHit(was, line, hit)[2]
    BY <1>1, <2>1, <2>2, <2>3 DEF Feeding, GrepFeed
  <2>6. /\ SameOptions(FeedHit(was, line, hit)[1], was) /\ FeedHit(was, line, hit)[1] \in Greps(P, L)
        /\ Fed(was, FeedHit(was, line, hit)[1], FeedHit(was, line, hit)[2], line, hit)
    BY <2>4, FedOnce
  <2>7. hit <=> k \in HitsOf(g, lines)
    <3>1. GrepMatches(was, line) = GrepMatches(g, line)
      BY <1>3, <2>1, SameMatch
    <3> QED BY <1>1, <2>2, <2>3, <3>1 DEF HitsOf
  <2>8. hit = (k \in HitsOf(g, lines))
    BY <2>4, <2>7
  <2>9. SameOptions(gs[k], g)
    BY <1>3, <2>1, <2>5, <2>6 DEF SameOptions
  <2> QED BY <2>1, <2>2, <2>5, <2>6, <2>8, <2>9
<1>4. ASSUME NEW k \in 1..n, k - 1 \in Q PROVE k \in Q
  <2>1. k \in 0..n
    BY <1>1
  <2> QED BY <1>3, <1>4, <2>1
<1> HIDE DEF Q
<1>5. \A k \in 0..n : k \in Q
  BY <1>1, <1>2, <1>4, Induct
<1>6. \A k \in 0..n : gs[k] \in Greps(P, L) /\ SameOptions(gs[k], g)
  BY <1>5 DEF Q
<1>7. \A k \in 1..n : k - 1 \in 0..n
  BY <1>1
<1> QED BY <1>1, <1>3, <1>6, <1>7

\* What it has counted after k lines.
Counting(h, g, H, k) ==
  /\ SameOptions(h, g)
  /\ h.hits = IF g.max_count = 0 \/ Upto(H, k) < g.max_count THEN Upto(H, k) ELSE g.max_count

\* Whether it is stopped says which hits it takes.
LEMMA StoppedIs ==
  ASSUME NEW P, NEW L, NEW g \in Greps(P, L), NEW lines \in Seq(L), NEW k \in 0..Len(lines),
         NEW h, Counting(h, g, HitsOf(g, lines), k)
  PROVE  /\ Stopped(h) <=> g.max_count # 0 /\ g.max_count <= Upto(HitsOf(g, lines), k)
         /\ Stopped(h) => \A i \in TakenOf(g, lines) : i <= k
         /\ ~Stopped(h) => \A i \in HitsOf(g, lines) : i <= k + 1 => i \in TakenOf(g, lines)
<1>1. PICK H, n : H = HitsOf(g, lines) /\ n = Len(lines) /\ n \in Nat /\ H \subseteq 1..n
  <2>1. Len(lines) \in Nat /\ HitsOf(g, lines) \subseteq 1..Len(lines)
    BY DEF HitsOf
  <2> QED BY <2>1
<1>2. PICK N, u : N = g.max_count /\ u = Upto(H, k) /\ N \in Nat /\ u \in Nat
  <2>1. Upto(H, k) \in Nat
    BY <1>1, UptoGrows
  <2> QED BY <2>1 DEF Greps
<1>3. h.max_count = N /\ h.hits = IF N = 0 \/ u < N THEN u ELSE N
  BY <1>1, <1>2 DEF Counting, SameOptions
<1>4. Stopped(h) <=> N # 0 /\ N <= u
  BY <1>2, <1>3 DEF Stopped
<1>5. TakenOf(g, lines) = {i \in H : N = 0 \/ Upto(H, i - 1) < N}
  BY <1>1, <1>2 DEF TakenOf
<1>6. \A i \in H : i \in 1..n /\ i - 1 \in 0..n /\ Upto(H, i - 1) \in Nat
  <2>1. \A i \in H : i \in 1..n /\ i - 1 \in 0..n
    BY <1>1
  <2> QED BY <1>1, <2>1, UptoGrows
<1>7. ASSUME Stopped(h), NEW i \in TakenOf(g, lines) PROVE i <= k
  <2>1. i \in H /\ N # 0 /\ N <= u /\ Upto(H, i - 1) < N
    BY <1>4, <1>5, <1>7
  <2>2. ASSUME k <= i - 1 PROVE FALSE
    <3>1. Upto(H, k) <= Upto(H, i - 1)
      BY <1>1, <1>6, <2>1, <2>2, UptoLess
    <3> QED BY <1>2, <1>6, <2>1, <3>1
  <2> QED BY <1>1, <1>6, <2>1, <2>2
<1>8. ASSUME ~Stopped(h), NEW i \in H, i <= k + 1 PROVE i \in TakenOf(g, lines)
  <2>1. i - 1 <= k
    BY <1>1, <1>6, <1>8
  <2>2. Upto(H, i - 1) <= u
    BY <1>1, <1>2, <1>6, <2>1, UptoLess
  <2>3. N = 0 \/ Upto(H, i - 1) < N
    BY <1>2, <1>4, <1>6, <1>8, <2>2
  <2> QED BY <1>5, <2>3
<1> QED BY <1>1, <1>2, <1>4, <1>7, <1>8

\* After a line it has counted one line more.
LEMMA CountStep ==
  ASSUME NEW P, NEW L, NEW g \in Greps(P, L), NEW lines \in Seq(L), NEW k \in 1..Len(lines),
         NEW h \in Greps(P, L), NEW h2, Counting(h, g, HitsOf(g, lines), k - 1), SameOptions(h2, g),
         NEW out, NEW line, Fed(h, h2, out, line, k \in HitsOf(g, lines))
  PROVE  Counting(h2, g, HitsOf(g, lines), k)
<1>1. PICK H, n : H = HitsOf(g, lines) /\ n = Len(lines) /\ n \in Nat /\ H \subseteq 1..n
  <2>1. Len(lines) \in Nat /\ HitsOf(g, lines) \subseteq 1..Len(lines)
    BY DEF HitsOf
  <2> QED BY <2>1
<1>2. PICK u, v, N : u = Upto(H, k - 1) /\ v = Upto(H, k) /\ N = g.max_count
  OBVIOUS
<1>3. u \in Nat /\ v = (IF k \in H THEN u + 1 ELSE u) /\ N \in Nat
  <2>1. k \in 1..n /\ k - 1 \in 0..n
    BY <1>1
  <2>2. Upto(H, k - 1) \in Nat /\ Upto(H, k) = IF k \in H THEN Upto(H, k - 1) + 1 ELSE Upto(H, k - 1)
    <3>1. /\ \A i \in 0..n : Upto(H, i) \in Nat
          /\ \A i \in 1..n : Upto(H, i) = IF i \in H THEN Upto(H, i - 1) + 1 ELSE Upto(H, i - 1)
      <4>1. n \in Nat /\ H \subseteq 1..n
        BY <1>1
      <4> QED BY <4>1, UptoGrows, Zenon
    <3> QED BY <2>1, <3>1, Zenon
  <2> QED BY <1>2, <2>2 DEF Greps
<1>4. h.hits = (IF N = 0 \/ u < N THEN u ELSE N) /\ h.max_count = N
  BY <1>1, <1>2 DEF Counting, SameOptions
<1>5. Stopped(h) <=> N # 0 /\ N <= u
  BY <1>3, <1>4 DEF Stopped
<1>6. Stopped(h) => h2.hits = h.hits
  BY <1>1, SMTT(30) DEF Fed, Greps
<1>7. ~Stopped(h) => h2.hits = IF k \in H THEN h.hits + 1 ELSE h.hits
  BY <1>1 DEF Fed
<1>8. h2.hits = IF N = 0 \/ v < N THEN v ELSE N
  BY <1>3, <1>4, <1>5, <1>6, <1>7
<1> QED BY <1>1, <1>2, <1>8 DEF Counting

\* What follows the last hit taken: after k lines it is line last, if any.
Context(h, g, H, T, k, last) ==
  /\ last \in 0..k /\ (last # 0 => last \in T) /\ \A i \in T : i <= k => i <= last
  /\ h.pending_after = IF last # 0 /\ Missed(H, last, k) < g.after THEN g.after - Missed(H, last, k) ELSE 0
  /\ ~Stopped(h) \/ h.pending_after > 0 => h.line_no = k

\* The next line keeps what is known of the last hit taken.
LEMMA ContextStep ==
  ASSUME NEW P, NEW L, NEW g \in Greps(P, L), NEW lines \in Seq(L), NEW k \in 1..Len(lines),
         NEW h \in Greps(P, L), NEW h2 \in Greps(P, L), Counting(h, g, HitsOf(g, lines), k - 1),
         SameOptions(h2, g),
         NEW last, Context(h, g, HitsOf(g, lines), TakenOf(g, lines), k - 1, last),
         NEW out, NEW line, Fed(h, h2, out, line, k \in HitsOf(g, lines))
  PROVE  /\ k \in TakenOf(g, lines) <=> k \in HitsOf(g, lines) /\ ~Stopped(h)
         /\ Context(h2, g, HitsOf(g, lines), TakenOf(g, lines), k,
                    IF k \in TakenOf(g, lines) THEN k ELSE last)
<1>1. PICK H, T, n, j : /\ H = HitsOf(g, lines) /\ T = TakenOf(g, lines) /\ n = Len(lines) /\ n \in Nat
                        /\ H \subseteq 1..n /\ T \subseteq H /\ j = k - 1
  <2>1. Len(lines) \in Nat /\ HitsOf(g, lines) \subseteq 1..Len(lines) /\ TakenOf(g, lines) \subseteq HitsOf(g, lines)
    BY DEF HitsOf, TakenOf
  <2> QED BY <2>1
<1>2. /\ k \in Nat /\ j \in Nat /\ j + 1 = k /\ j \in 0..n /\ k \in 1..n /\ ~(k <= j)
      /\ \A i \in T : i \in Nat /\ i >= 1 /\ (i <= k => i <= j \/ i = k)
  <2>1. k \in 1..n /\ k \in Nat /\ j \in Nat /\ j + 1 = k /\ j \in 0..n /\ ~(k <= j)
    BY <1>1
  <2>2. \A i \in T : i \in 1..n
    BY <1>1
  <2>3. \A i \in 1..n : i \in Nat /\ i >= 1 /\ (i <= k => i <= j \/ i = k)
    BY <1>1, <2>1
  <2> QED BY <2>1, <2>2, <2>3
<1>3. /\ Stopped(h) => \A i \in T : i <= j
      /\ ~Stopped(h) => \A i \in H : i <= k => i \in T
  <2>1. Counting(h, g, HitsOf(g, lines), j) /\ j \in 0..Len(lines)
    BY <1>1, <1>2
  <2>2. /\ Stopped(h) => \A i \in TakenOf(g, lines) : i <= j
        /\ ~Stopped(h) => \A i \in HitsOf(g, lines) : i <= j + 1 => i \in TakenOf(g, lines)
    BY <2>1, StoppedIs
  <2> QED BY <1>1, <1>2, <2>2
<1>4. k \in T <=> k \in H /\ ~Stopped(h)
  BY <1>1, <1>2, <1>3
<1>5. PICK m, a, q, new : /\ m = Missed(H, last, j) /\ a = g.after /\ q = Missed(H, last, k)
                          /\ new = IF k \in T THEN k ELSE last
  OBVIOUS
<1>6. /\ last \in 0..j /\ (last # 0 => last \in T) /\ \A i \in T : i <= j => i <= last
      /\ h.pending_after = IF last # 0 /\ m < a THEN a - m ELSE 0
      /\ ~Stopped(h) \/ h.pending_after > 0 => h.line_no = j
  BY <1>1, <1>5 DEF Context
<1>7. a \in Nat /\ m \in Nat /\ last \in Nat /\ q = IF k \in H THEN m ELSE m + 1
  <2>1. last \in Nat /\ last <= j
    BY <1>2, <1>6
  <2>2. Missed(H, last, j) \in Nat /\ Missed(H, last, j + 1) = IF j + 1 \in H THEN Missed(H, last, j) ELSE Missed(H, last, j) + 1
    BY <1>2, <2>1, MissedGrows
  <2> QED BY <1>2, <1>5, <2>1, <2>2 DEF Greps
<1>8. new \in 0..k /\ (new # 0 => new \in T) /\ \A i \in T : i <= k => i <= new
  <2>1. CASE k \in T
    <3>1. new = k
      BY <1>5, <2>1
    <3> QED BY <1>2, <2>1, <3>1
  <2>2. CASE k \notin T
    <3>1. new = last
      BY <1>5, <2>2
    <3>2. last \in 0..k
      BY <1>2, <1>6
    <3> QED BY <1>2, <1>6, <2>2, <3>1, <3>2
  <2> QED BY <2>1, <2>2
<1>9. PICK p, p2, z : p = h.pending_after /\ p2 = h2.pending_after /\ p \in Nat /\ z = Missed(H, new, k)
  <2>1. h.pending_after \in Nat
    BY DEF Greps
  <2> QED BY <2>1
<1>10. k \notin T => new = last /\ z = q
  BY <1>5, <1>9
<1>11. k \in T => new = k /\ z = 0 /\ new # 0
  <2>1. k \in T => Missed(H, k, k) = 0
    BY <1>1, <1>2, MissedFrom
  <2> QED BY <1>2, <1>5, <1>9, <2>1
<1>12. Stopped(h) \/ Stopped(h) = FALSE
  BY DEF Stopped
<1>13. p2 = (IF new # 0 /\ z < a THEN a - z ELSE 0) /\ (~Stopped(h2) \/ p2 > 0 => h2.line_no = k)
  <2>1. CASE Stopped(h) /\ p = 0
    <3>1. h2 = h
      BY <1>9, <2>1 DEF Fed
    <3>2. k \notin T
      BY <1>4, <2>1
    <3>3. p2 = 0 /\ Stopped(h2)
      BY <1>9, <2>1, <3>1
    <3>4. ~(last # 0 /\ m < a)
      BY <1>6, <1>7, <1>9, <2>1
    <3>5. ~(new # 0 /\ z < a)
      BY <1>7, <1>10, <3>2, <3>4
    <3> QED BY <3>3, <3>5
  <2>2. CASE Stopped(h) /\ p > 0 /\ k \in H
    <3>1. h2.line_no = h.line_no + 1 /\ p2 = p
      BY <1>1, <1>9, <2>2 DEF Fed
    <3>2. k \notin T
      BY <1>4, <2>2
    <3>3. z = m /\ new = last
      BY <1>7, <1>10, <2>2, <3>2
    <3>4. h2.line_no = k
      BY <1>2, <1>6, <1>9, <2>2, <3>1
    <3> QED BY <1>6, <1>9, <3>1, <3>3, <3>4
  <2>3. CASE ~Stopped(h) /\ k \in H
    <3>1. h2.line_no = h.line_no + 1 /\ p2 = a
      BY <1>1, <1>5, <1>9, <2>3 DEF Fed, NextPending, Counting, SameOptions
    <3>2. k \in T
      BY <1>4, <2>3
    <3>3. h2.line_no = k
      BY <1>2, <1>6, <2>3, <3>1
    <3> QED BY <1>7, <1>11, <3>1, <3>2, <3>3
  <2>4. CASE (~Stopped(h) \/ p > 0) /\ k \notin H
    <3>1. h2.line_no = h.line_no + 1 /\ p2 = IF p > 0 THEN p - 1 ELSE 0
      BY <1>1, <1>9, <2>4 DEF Fed, NextPending
    <3>2. k \notin T
      BY <1>4, <2>4
    <3>3. z = m + 1 /\ new = last
      BY <1>7, <1>10, <2>4, <3>2
    <3>4. h2.line_no = k
      BY <1>2, <1>6, <1>9, <2>4, <3>1
    <3>5. p = IF last # 0 /\ m < a THEN a - m ELSE 0
      BY <1>6, <1>9
    <3>6. p2 = IF new # 0 /\ z < a THEN a - z ELSE 0
      BY <1>7, <1>9, <3>1, <3>3, <3>5
    <3> QED BY <3>4, <3>6
  <2> QED BY <1>9, <2>1, <2>2, <2>3, <2>4
<1>14. Context(h2, g, H, T, k, new)
  BY <1>5, <1>8, <1>9, <1>13 DEF Context
<1> QED BY <1>1, <1>4, <1>5, <1>14

\* While it looks for more, a line too far behind the last hit taken and too far
\* before the next one is not shown.
LEMMA Unshown ==
  ASSUME NEW P, NEW L, NEW g \in Greps(P, L), NEW lines \in Seq(L), NEW k \in 0..Len(lines),
         NEW h \in Greps(P, L), Counting(h, g, HitsOf(g, lines), k), ~Stopped(h),
         NEW last, Context(h, g, HitsOf(g, lines), TakenOf(g, lines), k, last),
         NEW i \in 1..k, last < i, last = 0 \/ i - last > g.after,
         \A t \in TakenOf(g, lines) : t > k => t - i > g.before
  PROVE  i \notin Selected(g, lines)
<1>1. PICK H, T, n : /\ H = HitsOf(g, lines) /\ T = TakenOf(g, lines) /\ n = Len(lines) /\ n \in Nat
                     /\ H \subseteq 1..n /\ T \subseteq H
  <2>1. Len(lines) \in Nat /\ HitsOf(g, lines) \subseteq 1..Len(lines) /\ TakenOf(g, lines) \subseteq HitsOf(g, lines)
    BY DEF HitsOf, TakenOf
  <2> QED BY <2>1
<1>2. k \in Nat /\ i \in 1..n /\ i \in Nat /\ i <= k /\ (\A t \in H : t \in Nat /\ t >= 1 /\ t <= n)
  <2>1. k \in Nat /\ i \in 1..n /\ i \in Nat /\ i <= k
    BY <1>1
  <2>2. \A t \in 1..n : t \in Nat /\ t >= 1 /\ t <= n
    BY <1>1
  <2> QED BY <1>1, <2>1, <2>2
<1>3. last \in Nat /\ last <= k /\ (last # 0 => last \in T) /\ \A t \in T : t <= k => t <= last
  <2>1. last \in 0..k /\ (last # 0 => last \in T) /\ \A t \in T : t <= k => t <= last
    BY <1>1 DEF Context
  <2> QED BY <1>2, <2>1
<1>4. \A t \in H : t <= k => t \in T
  <2>1. \A t \in HitsOf(g, lines) : t <= k + 1 => t \in TakenOf(g, lines)
    BY StoppedIs
  <2>2. \A t \in H : t <= k => t <= k + 1
    BY <1>2
  <2> QED BY <1>1, <2>1, <2>2
<1>5. \A t \in H : t <= k => t <= last
  BY <1>3, <1>4
<1>6. i \notin H
  <2>1. ~(i <= last)
    BY <1>2, <1>3
  <2> QED BY <1>2, <1>5, <2>1
<1>7. ASSUME NEW t \in T, t < i PROVE Missed(H, t, i) > g.after
  <2>1. t \in Nat /\ t <= k /\ t >= 1
    BY <1>1, <1>2, <1>7
  <2>2. t <= last /\ last # 0
    BY <1>3, <1>7, <2>1
  <2>3. last \in H
    BY <1>1, <1>3, <2>2
  <2>4. \A x \in (last + 1)..i : x \notin H
    <3> SUFFICES ASSUME NEW x \in (last + 1)..i, x \in H PROVE FALSE
      OBVIOUS
    <3>1. x \in Nat /\ x <= k /\ ~(x <= last)
      BY <1>2, <1>3
    <3> QED BY <1>5, <3>1
  <2>5. last <= i
    BY <1>2, <1>3
  <2>6. Missed(H, last, i) = i - last
    BY <1>2, <1>3, <2>3, <2>4, <2>5, MissedFrom
  <2>7. Missed(H, last, i) <= Missed(H, t, i)
    BY <1>2, <1>3, <2>1, <2>2, <2>3, MissedFrom
  <2>8. PICK x, y : x = Missed(H, t, i) /\ y = g.after
    OBVIOUS
  <2>9. x \in Nat /\ y \in Nat
    <3>1. t <= i
      BY <1>2, <1>7, <2>1
    <3>2. Missed(H, t, i) \in Nat
      BY <1>2, <2>1, <3>1, MissedGrows
    <3> QED BY <2>8, <3>2 DEF Greps
  <2>10. i - last > y /\ i - last <= x
    BY <2>2, <2>6, <2>7, <2>8
  <2>11. x > y
    BY <1>2, <1>3, <2>9, <2>10
  <2> QED BY <2>8, <2>11
<1>8. ASSUME NEW t \in T, t > i PROVE t - i > g.before
  <2>1. t \in Nat
    BY <1>1, <1>2
  <2>2. ~(t <= last)
    BY <1>2, <1>3, <1>8, <2>1
  <2>3. t > k
    BY <1>2, <1>3, <2>1, <2>2
  <2> QED BY <1>1, <2>3
<1>9. \A t \in T : ~(t < i /\ Missed(H, t, i) <= g.after)
  <2> SUFFICES ASSUME NEW t \in T, t < i, Missed(H, t, i) <= g.after PROVE FALSE
    OBVIOUS
  <2>1. t \in Nat /\ t <= i
    BY <1>1, <1>2
  <2>2. Missed(H, t, i) \in Nat /\ g.after \in Nat
    BY <1>2, <2>1, MissedGrows DEF Greps
  <2>3. Missed(H, t, i) > g.after
    BY <1>7
  <2>4. PICK x, y : x = Missed(H, t, i) /\ y = g.after /\ x \in Nat /\ y \in Nat /\ x > y /\ x <= y
    BY <2>2, <2>3
  <2> QED BY <2>4
<1>10. \A t \in T : ~(t > i /\ t - i <= g.before)
  <2> SUFFICES ASSUME NEW t \in T, t > i, t - i <= g.before PROVE FALSE
    OBVIOUS
  <2>1. t \in Nat /\ g.before \in Nat /\ t - i > g.before
    BY <1>1, <1>2, <1>8 DEF Greps
  <2>2. PICK y : y = g.before /\ y \in Nat /\ t - i > y /\ t - i <= y
    BY <2>1
  <2> QED BY <1>2, <2>1, <2>2
<1>11. i \in Selected(g, lines) => \/ \E t \in T : t < i /\ Missed(H, t, i) <= g.after
                                   \/ \E t \in T : t > i /\ t - i <= g.before
  BY <1>1, <1>2, <1>6, SelectedIs
<1> QED BY <1>9, <1>10, <1>11

\* The numbered lines from b + 1 to k, as they are kept for a hit to come.
KeptBack(lines, b, k) == [j \in 1..(k - b) |-> <<b + j, lines[b + j]>>]

\* Where the lines still to be decided begin when it is not stopped.
Decided(g, k, last) == IF last = 0 THEN 0 ELSE IF last + g.after < k THEN last + g.after ELSE k

\* What has been shown after k lines, and what is kept: the lines up to e are
\* decided, those from b + 1 on may still be shown.
Window(h, g, lines, k, last, r, out, e, b) ==
  /\ out = r[e] /\ h.before_buf = KeptBack(lines, b, k)
  /\ e = IF Stopped(h) THEN k ELSE Decided(g, k, last)
  /\ b \in e..k /\ (k - b = g.before \/ (b = e /\ k - b <= g.before))

\* Nothing kept back,
LEMMA KeptNone ==
  ASSUME NEW lines, NEW k \in Nat
  PROVE  KeptBack(lines, k, k) = <<>>
<1>1. 1..(k - k) = {}
  OBVIOUS
<1> QED BY <1>1 DEF KeptBack

IsKept(u, S, lines, b, k) ==
  u \in Seq(Nat \X S) /\ Len(u) = k - b /\ \A j \in 1..(k - b) : u[j] = <<b + j, lines[b + j]>>

\* and what is kept back, line by line.
LEMMA KeptIs ==
  ASSUME NEW S, NEW lines \in Seq(S), NEW b \in 0..Len(lines), NEW k \in 0..Len(lines), b <= k
  PROVE  IsKept(KeptBack(lines, b, k), S, lines, b, k)
<1>1. PICK n, m : n = Len(lines) /\ m = k - b /\ n \in Nat /\ m \in Nat /\ b \in Nat /\ k = b + m /\ k <= n
  <2>1. Len(lines) \in Nat /\ k - b \in Nat /\ b \in Nat /\ k = b + (k - b) /\ k <= Len(lines)
    OBVIOUS
  <2> QED BY <2>1
<1>2. \A j \in 1..m : b + j \in 1..k /\ b + j \in 1..n /\ b + j \in Nat
  BY <1>1
<1>3. \A i \in 1..n : lines[i] \in S
  BY <1>1
<1>4. \A j \in 1..m : <<b + j, lines[b + j]>> \in Nat \X S
  BY <1>2, <1>3
<1>5. PICK u : u = [j \in 1..m |-> <<b + j, lines[b + j]>>] /\ u = KeptBack(lines, b, k)
  BY <1>1 DEF KeptBack
<1>6. u \in Seq(Nat \X S) /\ Len(u) = m /\ \A j \in 1..m : u[j] = <<b + j, lines[b + j]>>
  BY <1>1, <1>4, <1>5
<1> QED BY <1>1, <1>5, <1>6 DEF IsKept

KeptNext(lines, b, j, k) ==
  /\ Append(KeptBack(lines, b, j), <<k, lines[k]>>) = KeptBack(lines, b, k)
  /\ Len(KeptBack(lines, b, k)) = k - b /\ Tail(KeptBack(lines, b, k)) = KeptBack(lines, b + 1, k)

\* One line more is kept, and the first is dropped when there are too many.
LEMMA KeptGrows ==
  ASSUME NEW S, NEW lines \in Seq(S), NEW b \in 0..Len(lines), NEW k \in 0..Len(lines), b <= k,
         k < Len(lines)
  PROVE  KeptNext(lines, b, k, k + 1)
<1>1. PICK n, m : n = Len(lines) /\ m = k - b /\ n \in Nat /\ m \in Nat /\ b \in Nat /\ k = b + m /\ k + 1 <= n
  <2>1. Len(lines) \in Nat /\ k - b \in Nat /\ b \in Nat /\ k = b + (k - b) /\ k + 1 <= Len(lines)
    OBVIOUS
  <2> QED BY <2>1
<1>2. PICK u, w, x : u = KeptBack(lines, b, k) /\ w = KeptBack(lines, b, k + 1) /\ x = KeptBack(lines, b + 1, k + 1)
  OBVIOUS
<1>3. u \in Seq(Nat \X S) /\ Len(u) = m /\ \A j \in 1..m : u[j] = <<b + j, lines[b + j]>>
  <2>1. IsKept(u, S, lines, b, k)
    BY <1>2, KeptIs
  <2> QED BY <1>1, <2>1 DEF IsKept
<1>4. w \in Seq(Nat \X S) /\ Len(w) = m + 1 /\ \A j \in 1..(m + 1) : w[j] = <<b + j, lines[b + j]>>
  <2>1. PICK y \in 0..Len(lines) : y = k + 1 /\ b <= y /\ y - b = m + 1
    BY <1>1
  <2>2. IsKept(KeptBack(lines, b, y), S, lines, b, y)
    BY <2>1, KeptIs
  <2> QED BY <1>2, <2>1, <2>2 DEF IsKept
<1>5. x \in Seq(Nat \X S) /\ Len(x) = m /\ \A j \in 1..m : x[j] = <<b + 1 + j, lines[b + 1 + j]>>
  <2>1. PICK y \in 0..Len(lines), c \in 0..Len(lines) : y = k + 1 /\ c = b + 1 /\ c <= y /\ y - c = m
    BY <1>1
  <2>2. IsKept(KeptBack(lines, c, y), S, lines, c, y)
    BY <2>1, KeptIs
  <2> QED BY <1>2, <2>1, <2>2 DEF IsKept
<1>6. Append(u, <<k + 1, lines[k + 1]>>) = w
  <2>1. PICK t : t = <<k + 1, lines[k + 1]>>
    OBVIOUS
  <2>2. t = w[m + 1]
    <3>1. b + (m + 1) = k + 1 /\ m + 1 \in 1..(m + 1)
      BY <1>1
    <3> QED BY <1>4, <2>1, <3>1
  <2>3. t \in Nat \X S
    <3>1. k + 1 \in Nat /\ k + 1 \in 1..n
      BY <1>1
    <3>2. lines[k + 1] \in S
      BY <1>1, <3>1
    <3> QED BY <2>1, <3>1, <3>2
  <2>4. Append(u, t) = [j \in 1..(m + 1) |-> IF j = m + 1 THEN t ELSE u[j]]
    <3>1. PICK V : V = Nat \X S
      OBVIOUS
    <3>2. u \in Seq(V) /\ t \in V /\ m \in Nat /\ Len(u) = m
      BY <1>1, <1>3, <2>3, <3>1
    <3> QED BY <3>2, AppendAs
  <2>5. w = [j \in 1..(m + 1) |-> w[j]]
    BY <1>4
  <2>6. ASSUME NEW j \in 1..(m + 1) PROVE w[j] = IF j = m + 1 THEN t ELSE u[j]
    <3>1. j # m + 1 => j \in 1..m
      BY <1>1
    <3>2. j # m + 1 => w[j] = u[j]
      BY <1>3, <1>4, <3>1
    <3> QED BY <2>2, <3>2
  <2> QED BY <2>1, <2>4, <2>5, <2>6
<1>7. Tail(w) = x
  <2>1. w # <<>> /\ Len(Tail(w)) = m /\ \A j \in 1..m : Tail(w)[j] = w[j + 1]
    BY <1>1, <1>4
  <2>2. PICK y : y = Tail(w)
    OBVIOUS
  <2>3. y \in Seq(Nat \X S)
    BY <1>1, <1>4, <2>2
  <2>4. ASSUME NEW j \in 1..m PROVE y[j] = x[j]
    <3>1. j + 1 \in 1..(m + 1) /\ b + (j + 1) = b + 1 + j
      BY <1>1
    <3>2. w[j + 1] = <<b + 1 + j, lines[b + 1 + j]>>
      BY <1>4, <3>1
    <3> QED BY <1>5, <2>1, <2>2, <3>2
  <2>5. y = [j \in 1..m |-> y[j]]
    <3>1. Len(y) = m
      BY <2>1, <2>2
    <3> QED BY <2>3, <3>1
  <2>6. x = [j \in 1..m |-> x[j]]
    BY <1>5
  <2> QED BY <2>2, <2>4, <2>5, <2>6
<1>8. k + 1 - b = m + 1
  BY <1>1
<1> QED BY <1>2, <1>4, <1>6, <1>7, <1>8, SMTT(30) DEF KeptNext

\* Lines kept are shown as they are in the text.
LEMMA BufferedIs ==
  ASSUME NEW P, NEW L, NEW g \in Greps(P, L), NEW lines \in Seq(L), NEW b \in 0..Len(lines),
         NEW k \in 0..Len(lines), b <= k, NEW h \in Greps(P, L), SameOptions(h, g),
         h.before_buf = KeptBack(lines, b, k)
  PROVE  Buffered(h) = Run(g, lines, b, k)
<1>1. PICK u, m : u = h.before_buf /\ m = k - b
  OBVIOUS
<1>2. Len(u) = m /\ \A j \in 1..m : u[j] = <<b + j, lines[b + j]>>
  <2>1. IsKept(u, L, lines, b, k)
    BY <1>1, KeptIs
  <2> QED BY <1>1, <2>1 DEF IsKept
<1>3. \A j \in 1..m : u[j][1] = b + j /\ u[j][2] = lines[b + j]
  BY <1>2
<1>4. \A j \in 1..m : Format(h, u[j][1], u[j][2]) = Format(g, b + j, lines[b + j])
  <2>1. \A n, x : Format(h, n, x) = Format(g, n, x)
    BY SameMatch
  <2> QED BY <1>3, <2>1
<1>5. Buffered(h) = [j \in 1..m |-> Format(h, u[j][1], u[j][2])]
  BY <1>1, <1>2 DEF Buffered
<1> QED BY <1>1, <1>4, <1>5 DEF Run

\* What has been counted since the last hit taken says whether line k is shown
\* when it cannot be taken.
LEMMA AfterShown ==
  ASSUME NEW P, NEW L, NEW g \in Greps(P, L), NEW lines \in Seq(L), NEW k \in 1..Len(lines),
         NEW h \in Greps(P, L), Counting(h, g, HitsOf(g, lines), k - 1),
         NEW last, Context(h, g, HitsOf(g, lines), TakenOf(g, lines), k - 1, last)
  PROVE  /\ h.pending_after > 0 /\ k \notin HitsOf(g, lines) => k \in Selected(g, lines)
         /\ Stopped(h) /\ (h.pending_after = 0 \/ k \in HitsOf(g, lines)) => k \notin Selected(g, lines)
<1>1. PICK H, T, n, j : /\ H = HitsOf(g, lines) /\ T = TakenOf(g, lines) /\ n = Len(lines) /\ n \in Nat
                        /\ H \subseteq 1..n /\ T \subseteq H /\ j = k - 1
  <2>1. Len(lines) \in Nat /\ HitsOf(g, lines) \subseteq 1..Len(lines) /\ TakenOf(g, lines) \subseteq HitsOf(g, lines)
    BY DEF HitsOf, TakenOf
  <2> QED BY <2>1
<1>2. /\ k \in Nat /\ j \in Nat /\ j + 1 = k /\ k \in 1..n /\ j \in 0..n
      /\ \A t \in H : t \in Nat /\ t >= 1
  <2>1. k \in Nat /\ j \in Nat /\ j + 1 = k /\ k \in 1..n /\ j \in 0..n
    BY <1>1
  <2>2. \A t \in 1..n : t \in Nat /\ t >= 1
    BY <1>1
  <2> QED BY <1>1, <2>1, <2>2
<1>3. PICK m, a, q : m = Missed(H, last, j) /\ a = g.after /\ q = Missed(H, last, k)
  OBVIOUS
<1>4. /\ last \in 0..j /\ (last # 0 => last \in T) /\ \A i \in T : i <= j => i <= last
      /\ h.pending_after = IF last # 0 /\ m < a THEN a - m ELSE 0
  BY <1>1, <1>3 DEF Context
<1>5. a \in Nat /\ m \in Nat /\ last \in Nat /\ q = (IF k \in H THEN m ELSE m + 1) /\ last <= j /\ last < k
  <2>1. last \in Nat /\ last <= j /\ last < k
    BY <1>2, <1>4
  <2>2. Missed(H, last, j) \in Nat /\ Missed(H, last, j + 1) = IF j + 1 \in H THEN Missed(H, last, j) ELSE Missed(H, last, j) + 1
    BY <1>2, <2>1, MissedGrows
  <2> QED BY <1>2, <1>3, <2>1, <2>2 DEF Greps
<1>6. k \in Selected(g, lines)
        <=> IF k \in H THEN k \in T
            ELSE \/ \E t \in T : t < k /\ Missed(H, t, k) <= g.after
                 \/ \E t \in T : t > k /\ t - k <= g.before
  BY <1>1, <1>2, SelectedIs
<1>7. ASSUME h.pending_after > 0, k \notin H PROVE k \in Selected(g, lines)
  <2>1. last # 0 /\ m < a
    BY <1>4, <1>7
  <2>2. q <= a
    BY <1>5, <1>7, <2>1
  <2> QED BY <1>3, <1>4, <1>5, <1>6, <1>7, <2>1, <2>2
<1>8. ASSUME Stopped(h) PROVE \A t \in T : t <= j
  <2>1. Counting(h, g, HitsOf(g, lines), j) /\ j \in 0..Len(lines)
    BY <1>1, <1>2
  <2>2. \A t \in TakenOf(g, lines) : t <= j
    BY <1>8, <2>1, StoppedIs
  <2> QED BY <1>1, <2>2
<1>9. ASSUME Stopped(h), k \in H PROVE k \notin Selected(g, lines)
  <2>1. ~(k <= j)
    BY <1>2
  <2> QED BY <1>6, <1>8, <1>9, <2>1
<1>10. ASSUME Stopped(h), h.pending_after = 0, k \notin H PROVE k \notin Selected(g, lines)
  <2>1. ASSUME NEW t \in T PROVE ~(t > k) /\ ~(Missed(H, t, k) <= g.after)
    <3>1. t \in Nat /\ t >= 1 /\ t <= j /\ t <= last
      BY <1>1, <1>2, <1>4, <1>8, <1>10
    <3>2. last # 0
      BY <1>5, <3>1
    <3>3. last \in H
      BY <1>1, <1>4, <3>2
    <3>4. q <= Missed(H, t, k)
      <4>1. \A c \in Nat, b \in Nat : c <= last => Missed(H, last, b) <= Missed(H, c, b)
        BY <1>5, <3>3, MissedFrom
      <4>2. Missed(H, last, k) <= Missed(H, t, k)
        BY <1>2, <3>1, <4>1
      <4> QED BY <1>3, <4>2
    <3>5. PICK x : x = Missed(H, t, k) /\ x \in Nat
      <4>1. t <= k
        BY <1>2, <3>1
      <4>2. Missed(H, t, k) \in Nat
        BY <1>2, <3>1, <4>1, MissedGrows
      <4> QED BY <4>2
    <3>6. ~(m < a)
      BY <1>4, <1>5, <1>10, <3>2
    <3>7. q = m + 1 /\ q <= x
      BY <1>5, <1>10, <3>4, <3>5
    <3>8. ~(x <= a)
      BY <1>5, <3>5, <3>6, <3>7
    <3>9. ~(t > k)
      BY <1>2, <3>1
    <3> QED BY <1>3, <3>5, <3>8, <3>9
  <2> QED BY <1>6, <1>10, <2>1
<1> QED BY <1>1, <1>7, <1>9, <1>10

\* While it looks for more, all lines since the last hit are misses.
LEMMA MissedSince ==
  ASSUME NEW P, NEW L, NEW g \in Greps(P, L), NEW lines \in Seq(L), NEW k \in 0..Len(lines),
         NEW h \in Greps(P, L), Counting(h, g, HitsOf(g, lines), k), ~Stopped(h),
         NEW last, Context(h, g, HitsOf(g, lines), TakenOf(g, lines), k, last), last # 0
  PROVE  Missed(HitsOf(g, lines), last, k) = k - last
<1>1. PICK H, T, n : /\ H = HitsOf(g, lines) /\ T = TakenOf(g, lines) /\ n = Len(lines) /\ n \in Nat
                     /\ H \subseteq 1..n /\ T \subseteq H
  <2>1. Len(lines) \in Nat /\ HitsOf(g, lines) \subseteq 1..Len(lines) /\ TakenOf(g, lines) \subseteq HitsOf(g, lines)
    BY DEF HitsOf, TakenOf
  <2> QED BY <2>1
<1>2. k \in Nat /\ k <= n /\ \A t \in H : t \in Nat
  BY <1>1
<1>3. last \in Nat /\ last <= k /\ last \in T /\ \A t \in T : t <= k => t <= last
  <2>1. last \in 0..k /\ last \in T /\ \A t \in T : t <= k => t <= last
    BY <1>1 DEF Context
  <2> QED BY <1>2, <2>1
<1>4. \A t \in H : t <= k => t \in T
  <2>1. \A t \in HitsOf(g, lines) : t <= k + 1 => t \in TakenOf(g, lines)
    BY StoppedIs
  <2>2. \A t \in H : t <= k => t <= k + 1
    BY <1>2
  <2> QED BY <1>1, <2>1, <2>2
<1>5. \A x \in (last + 1)..k : x \notin H
  <2> SUFFICES ASSUME NEW x \in (last + 1)..k, x \in H PROVE FALSE
    OBVIOUS
  <2>1. x \in Nat /\ x <= k /\ ~(x <= last)
    BY <1>2, <1>3
  <2> QED BY <1>3, <1>4, <2>1
<1>6. last \in H
  BY <1>1, <1>3
<1> QED BY <1>1, <1>2, <1>3, <1>5, <1>6, MissedFrom

\* The next line after the lines decided, when all of it is decided at once.
LEMMA ShowOne ==
  ASSUME NEW S, NEW lines \in Seq(S), NEW g, NEW r, ShownBy(r, g, lines), NEW k \in 1..Len(lines)
  PROVE  r[k] = r[k - 1] \o IF k \in Selected(g, lines) THEN <<Format(g, k, lines[k])>> ELSE <<>>
<1>1. PICK u, t, V : u = r[k - 1] /\ t = Format(g, k, lines[k]) /\ V = Formatted(g, lines)
  OBVIOUS
<1>2. k \in 1..Len(lines) /\ k - 1 \in 0..Len(lines)
  OBVIOUS
<1>3. u \in Seq(V) /\ t \in V
  BY <1>1, <1>2 DEF ShownBy, Formatted
<1>4. r[k] = IF k \in Selected(g, lines) THEN Append(u, t) ELSE u
  BY <1>1, <1>2 DEF ShownBy, ShownStep
<1>5. Append(u, t) = u \o <<t>>
  BY <1>3, AppendIsConcat
<1>6. u \o <<>> = u
  BY <1>3
<1> QED BY <1>1, <1>4, <1>5, <1>6

\* What is to be shown at line k by grep h, which holds the lines from b + 1 on.
Windowed(h, g, lines, k, last, r, out) == \E e, b : Window(h, g, lines, k, last, r, out, e, b)

\* When all is decided nothing is kept.
LEMMA AllDecided ==
  ASSUME NEW P, NEW L, NEW g \in Greps(P, L), NEW lines \in Seq(L), NEW k \in 0..Len(lines),
         NEW h, NEW last, NEW r, NEW out, out = r[k], h.before_buf = <<>>,
         Stopped(h) \/ Decided(g, k, last) = k
  PROVE  Windowed(h, g, lines, k, last, r, out)
<1>1. k \in Nat /\ k \in k..k /\ k - k = 0 /\ g.before \in Nat /\ 0 <= g.before
  BY DEF Greps
<1>2. h.before_buf = KeptBack(lines, k, k)
  BY <1>1, KeptNone
<1>3. Window(h, g, lines, k, last, r, out, k, k)
  BY <1>1, <1>2 DEF Window
<1> QED BY <1>3 DEF Windowed

ShowsHit(r, k, out, h, g, lines) == r[k] = out \o (Buffered(h) \o <<Format(g, k, lines[k])>>)

\* A hit taken: it is shown behind the lines kept for it, all other lines
\* since the ones decided are not.
LEMMA HitShown ==
  ASSUME NEW P, NEW L, NEW g \in Greps(P, L), NEW lines \in Seq(L), NEW k \in 1..Len(lines),
         NEW h \in Greps(P, L), Counting(h, g, HitsOf(g, lines), k - 1), ~Stopped(h),
         NEW last, Context(h, g, HitsOf(g, lines), TakenOf(g, lines), k - 1, last),
         k \in TakenOf(g, lines),
         NEW r, ShownBy(r, g, lines), NEW out, NEW e, NEW b, Window(h, g, lines, k - 1, last, r, out, e, b)
  PROVE  ShowsHit(r, k, out, h, g, lines)
<1>1. PICK H, T, n, j : /\ H = HitsOf(g, lines) /\ T = TakenOf(g, lines) /\ n = Len(lines) /\ n \in Nat
                        /\ H \subseteq 1..n /\ T \subseteq H /\ j = k - 1
  <2>1. Len(lines) \in Nat /\ HitsOf(g, lines) \subseteq 1..Len(lines) /\ TakenOf(g, lines) \subseteq HitsOf(g, lines)
    BY DEF HitsOf, TakenOf
  <2> QED BY <2>1
<1>2. /\ k \in Nat /\ j \in Nat /\ j + 1 = k /\ k \in 1..n /\ j \in 0..n /\ j < n
      /\ \A t \in H : t \in Nat /\ t >= 1
  <2>1. k \in Nat /\ j \in Nat /\ j + 1 = k /\ k \in 1..n /\ j \in 0..n /\ j < n
    BY <1>1
  <2>2. \A t \in 1..n : t \in Nat /\ t >= 1
    BY <1>1
  <2> QED BY <1>1, <2>1, <2>2
<1>3. PICK a, c : a = g.after /\ c = g.before /\ a \in Nat /\ c \in Nat
  <2>1. g.after \in Nat /\ g.before \in Nat
    BY DEF Greps
  <2> QED BY <2>1
<1>4. last \in 0..j /\ last \in Nat /\ last <= j /\ \A t \in T : t <= j => t <= last
  <2>1. last \in 0..j /\ \A t \in T : t <= j => t <= last
    BY <1>1 DEF Context
  <2> QED BY <1>2, <2>1
<1>5. e = IF last = 0 THEN 0 ELSE IF last + a < j THEN last + a ELSE j
  BY <1>1, <1>3 DEF Window, Decided
<1>6. /\ e \in Nat /\ b \in Nat /\ e <= b /\ b <= j /\ e \in 0..n /\ b \in 0..n /\ b < k
      /\ (j - b = c \/ (b = e /\ j - b <= c))
  <2>1. e \in Nat /\ e <= j
    BY <1>2, <1>3, <1>4, <1>5
  <2>2. b \in e..j /\ (j - b = c \/ (b = e /\ j - b <= c))
    BY <1>1, <1>3 DEF Window
  <2>3. b \in Nat /\ e <= b /\ b <= j
    BY <1>2, <2>1, <2>2
  <2> QED BY <1>1, <1>2, <2>1, <2>2, <2>3
<1>7. \A i \in (e + 1)..b : i \notin Selected(g, lines)
  <2> SUFFICES ASSUME NEW i \in (e + 1)..b PROVE i \notin Selected(g, lines)
    OBVIOUS
  <2>1. i \in Nat /\ e < i /\ i <= b /\ i <= j /\ i \in 1..j
    BY <1>2, <1>6
  <2>2. j - b = c
    BY <1>6, <2>1
  <2>3. last < i /\ (last = 0 \/ i - last > a)
    BY <1>2, <1>3, <1>4, <1>5, <2>1
  <2>4. ASSUME NEW t \in T, t > j PROVE t - i > c
    <3>1. t \in Nat
      BY <1>1, <1>2
    <3> QED BY <1>2, <1>3, <1>6, <2>1, <2>2, <2>4, <3>1
  <2>5. /\ j \in 0..Len(lines) /\ Counting(h, g, HitsOf(g, lines), j)
        /\ Context(h, g, HitsOf(g, lines), TakenOf(g, lines), j, last)
        /\ i \in 1..j /\ last < i /\ (last = 0 \/ i - last > g.after)
        /\ \A t \in TakenOf(g, lines) : t > j => t - i > g.before
    BY <1>1, <1>2, <1>3, <2>1, <2>3, <2>4
  <2> QED BY <2>5, Unshown
<1>8. \A i \in (b + 1)..k : i \in Selected(g, lines)
  <2> SUFFICES ASSUME NEW i \in (b + 1)..k PROVE i \in Selected(g, lines)
    OBVIOUS
  <2>1. i \in Nat /\ b < i /\ i <= k /\ i \in 1..n
    BY <1>1, <1>2, <1>6
  <2>2. CASE i = k
    BY <1>1, <1>2, <2>2, SelectedIs
  <2>3. CASE i # k
    <3>1. k > i /\ k - i <= c
      BY <1>2, <1>3, <1>6, <2>1, <2>3
    <3>2. i \notin H
      <4>1. i <= j /\ ~(i <= last)
        BY <1>2, <1>3, <1>4, <1>5, <1>6, <2>1, <2>3
      <4>2. i \in H => i \in T
        <5>1. j \in 0..Len(lines) /\ Counting(h, g, HitsOf(g, lines), j) /\ i <= j + 1
          BY <1>1, <1>2, <2>1
        <5>2. \A x \in HitsOf(g, lines) : x <= j + 1 => x \in TakenOf(g, lines)
          BY <5>1, StoppedIs
        <5> QED BY <1>1, <5>1, <5>2
      <4> QED BY <1>4, <4>1, <4>2
    <3> QED BY <1>1, <1>3, <2>1, <3>1, <3>2, SelectedIs
  <2> QED BY <2>2, <2>3
<1>9. r[k] = r[e] \o Run(g, lines, b, k)
  <2>1. e \in 0..Len(lines) /\ b \in 0..Len(lines) /\ k \in 0..Len(lines) /\ e <= b /\ b <= k
    BY <1>1, <1>2, <1>6
  <2> QED BY <1>7, <1>8, <2>1, ShownRun
<1>10. PICK u, t, V : u = Run(g, lines, b, j) /\ t = Format(g, k, lines[k]) /\ V = Formatted(g, lines)
  OBVIOUS
<1>11. j \in 0..Len(lines) /\ b \in 0..Len(lines) /\ b <= j /\ j < Len(lines)
  BY <1>1, <1>2, <1>6
<1>12. Run(g, lines, b, k) = Append(u, t)
  <2>1. Run(g, lines, b, j + 1) = Append(Run(g, lines, b, j), Format(g, j + 1, lines[j + 1]))
    BY <1>11, RunStep
  <2> QED BY <1>2, <1>10, <2>1
<1>13. u \in Seq(V) /\ t \in V
  <2>1. Run(g, lines, b, j) \in Seq(Formatted(g, lines))
    BY <1>11, RunGrows
  <2>2. Format(g, k, lines[k]) \in Formatted(g, lines)
    BY DEF Formatted
  <2> QED BY <1>10, <2>1, <2>2
<1>14. Append(u, t) = u \o <<t>>
  BY <1>13, AppendIsConcat
<1>15. Buffered(h) = u
  <2>1. SameOptions(h, g) /\ h.before_buf = KeptBack(lines, b, j)
    BY <1>1 DEF Counting, Window
  <2> QED BY <1>10, <1>11, <2>1, BufferedIs
<1>16. out = r[e]
  BY DEF Window
<1> QED BY <1>9, <1>10, <1>12, <1>14, <1>15, <1>16 DEF ShowsHit

\* The next line keeps what is known of what is shown and kept back.
LEMMA WindowStep ==
  ASSUME NEW P, NEW L, NEW g \in Greps(P, L), ~g.count_only, NEW lines \in Seq(L), NEW k \in 1..Len(lines),
         NEW h \in Greps(P, L), Counting(h, g, HitsOf(g, lines), k - 1),
         NEW h2 \in Greps(P, L), SameOptions(h2, g),
         NEW last, Context(h, g, HitsOf(g, lines), TakenOf(g, lines), k - 1, last),
         NEW r, ShownBy(r, g, lines), NEW out, Windowed(h, g, lines, k - 1, last, r, out),
         NEW add, Fed(h, h2, add, lines[k], k \in HitsOf(g, lines)),
         k \in TakenOf(g, lines) <=> k \in HitsOf(g, lines) /\ ~Stopped(h)
  PROVE  Windowed(h2, g, lines, k, IF k \in TakenOf(g, lines) THEN k ELSE last, r, out \o add)
<1>1. PICK H, T, n, j : /\ H = HitsOf(g, lines) /\ T = TakenOf(g, lines) /\ n = Len(lines) /\ n \in Nat
                        /\ j = k - 1
  <2>1. Len(lines) \in Nat
    OBVIOUS
  <2> QED BY <2>1
<1>2. k \in Nat /\ j \in Nat /\ j + 1 = k /\ k \in 1..n /\ j \in 0..n /\ k \in 0..n /\ j < n
  BY <1>1
<1>3. PICK a, c, m, p : /\ a = g.after /\ c = g.before /\ a \in Nat /\ c \in Nat
                        /\ m = Missed(H, last, j) /\ p = h.pending_after /\ p \in Nat
  <2>1. g.after \in Nat /\ g.before \in Nat /\ h.pending_after \in Nat
    BY DEF Greps
  <2> QED BY <2>1
<1>4. /\ last \in Nat /\ last <= j
      /\ p = IF last # 0 /\ m < a THEN a - m ELSE 0
      /\ ~Stopped(h) \/ p > 0 => h.line_no = j
  <2>1. /\ last \in 0..j
        /\ p = IF last # 0 /\ m < a THEN a - m ELSE 0
        /\ ~Stopped(h) \/ p > 0 => h.line_no = j
    BY <1>1, <1>3 DEF Context
  <2> QED BY <1>2, <2>1
<1>5. m \in Nat
  <2>1. Missed(H, last, j) \in Nat
    BY <1>2, <1>4, MissedGrows
  <2> QED BY <1>3, <2>1
<1>6. PICK e, b : Window(h, g, lines, j, last, r, out, e, b)
  BY <1>1 DEF Windowed
<1>7. /\ out = r[e] /\ h.before_buf = KeptBack(lines, b, j)
      /\ e = (IF Stopped(h) THEN j ELSE IF last = 0 THEN 0 ELSE IF last + a < j THEN last + a ELSE j)
      /\ b \in e..j /\ (j - b = c \/ (b = e /\ j - b <= c))
  BY <1>3, <1>6 DEF Window, Decided
<1>8. e \in Nat /\ b \in Nat /\ e <= b /\ b <= j /\ e \in 0..n /\ b \in 0..n
  <2>1. e \in Nat /\ e <= j
    BY <1>2, <1>3, <1>4, <1>7
  <2>2. b \in Nat /\ e <= b /\ b <= j
    BY <1>2, <1>7, <2>1
  <2> QED BY <1>1, <1>2, <2>1, <2>2
<1>9. \A i \in 0..n : r[i] \in Seq(Formatted(g, lines)) /\ r[i] \o <<>> = r[i]
  <2>1. \A i \in 0..n : r[i] \in Seq(Formatted(g, lines))
    BY <1>1 DEF ShownBy
  <2> QED BY <2>1
<1>10. e = j => h.before_buf = <<>>
  <2>1. e = j => b = j
    BY <1>2, <1>8
  <2> QED BY <1>2, <1>7, <2>1, KeptNone
<1>11. /\ p > 0 /\ k \notin H => k \in Selected(g, lines)
       /\ Stopped(h) /\ (p = 0 \/ k \in H) => k \notin Selected(g, lines)
  BY <1>1, <1>3, AfterShown
<1>12. r[k] = r[j] \o IF k \in Selected(g, lines) THEN <<Format(g, k, lines[k])>> ELSE <<>>
  BY <1>1, ShowOne
<1>13. SameOptions(h, g) /\ ~h.count_only /\ h.before = c /\ h.max_count = g.max_count
  BY <1>3 DEF Counting, SameOptions
<1>14. \A x : Format(h, x, lines[k]) = Format(g, x, lines[k])
  BY <1>13, SameMatch
<1>15. k \notin T => (IF k \in TakenOf(g, lines) THEN k ELSE last) = last
  BY <1>1
<1>21. k \notin H => Fed(h, h2, add, lines[k], FALSE)
  <2>1. k \notin H => (k \in HitsOf(g, lines)) = FALSE
    BY <1>1
  <2> QED BY <2>1
<1>16. CASE Stopped(h) /\ (p = 0 \/ k \in H)
  <2>1. e = j /\ b = j
    BY <1>2, <1>7, <1>8, <1>16
  <2>2. add = <<>> /\ h2.before_buf = h.before_buf /\ h2.hits = h.hits
    BY <1>1, <1>3, <1>16 DEF Fed
  <2>3. Stopped(h2)
    BY <1>13, <1>16, <2>2 DEF Stopped, SameOptions
  <2>4. out \o add = r[k]
    BY <1>7, <1>11, <1>12, <1>16, <2>1, <2>2
  <2>5. k \notin T
    BY <1>1, <1>16
  <2>6. k \in 0..Len(lines) /\ h2.before_buf = <<>>
    BY <1>1, <1>2, <1>10, <2>1, <2>2
  <2>7. Windowed(h2, g, lines, k, last, r, out \o add)
    BY <2>3, <2>4, <2>6, AllDecided
  <2> QED BY <1>15, <2>5, <2>7
<1>17. CASE ~Stopped(h) /\ k \in H
  <2>1. k \in T
    BY <1>1, <1>17
  <2>2. h.line_no + 1 = k
    BY <1>2, <1>4, <1>17
  <2>3. h2.before_buf = <<>> /\ add = Buffered(h) \o <<Format(g, k, lines[k])>>
    BY <1>1, <1>13, <1>14, <1>17, <2>2 DEF Fed, NextBefore
  <2>4. r[k] = out \o add
    <3>1. Window(h, g, lines, k - 1, last, r, out, e, b)
      BY <1>1, <1>6
    <3>2. k \in TakenOf(g, lines)
      BY <1>1, <2>1
    <3>3. ShowsHit(r, k, out, h, g, lines)
      BY <1>17, <3>1, <3>2, HitShown, Zenon
    <3> QED BY <2>3, <3>3 DEF ShowsHit
  <2>5. Decided(g, k, k) = k
    BY <1>2, <1>3 DEF Decided
  <2>6. k \in 0..Len(lines)
    BY <1>1, <1>2
  <2>7. Windowed(h2, g, lines, k, k, r, out \o add)
    BY <2>3, <2>4, <2>5, <2>6, AllDecided
  <2> QED BY <1>1, <2>1, <2>7
<1>18. ~Stopped(h) /\ last # 0 => m = j - last
  <2>1. j \in 0..Len(lines) /\ Counting(h, g, HitsOf(g, lines), j)
        /\ Context(h, g, HitsOf(g, lines), TakenOf(g, lines), j, last)
    BY <1>1, <1>2
  <2>2. ~Stopped(h) /\ last # 0 => Missed(HitsOf(g, lines), last, j) = j - last
    BY <2>1, MissedSince
  <2> QED BY <1>1, <1>3, <2>2
<1>19. CASE p > 0 /\ k \notin H
  <2>1. last # 0 /\ m < a
    BY <1>4, <1>19
  <2>2. e = j
    BY <1>2, <1>3, <1>4, <1>7, <1>18, <2>1
  <2>3. h.line_no + 1 = k
    BY <1>2, <1>4, <1>19
  <2>4. h.before_buf = <<>>
    BY <1>10, <2>2
  <2>5. NextBefore(h, h.line_no + 1, lines[k], FALSE) = h.before_buf
    <3>1. h.pending_after # 0
      BY <1>3, <1>19
    <3> QED BY <3>1 DEF NextBefore
  <2>6. /\ h2.before_buf = NextBefore(h, h.line_no + 1, lines[k], FALSE) /\ h2.hits = h.hits
        /\ add = <<Format(g, k, lines[k])>>
    <3>1. Fed(h, h2, add, lines[k], FALSE)
      BY <1>19, <1>21, Zenon
    <3>a. p > 0 /\ p # 0
      BY <1>3, <1>19
    <3>b. h.pending_after > 0 /\ h.pending_after # 0
      BY <1>3, <3>a, Zenon
    <3>2. /\ h2.before_buf = NextBefore(h, h.line_no + 1, lines[k], FALSE) /\ h2.hits = h.hits
          /\ add = <<Format(h, h.line_no + 1, lines[k])>>
      BY <1>13, <3>1, <3>b DEF Fed
    <3> QED BY <1>14, <2>3, <3>2
  <2>7. Stopped(h) => Stopped(h2)
    BY <1>13, <2>6 DEF Stopped, SameOptions
  <2>8. ~Stopped(h) => Decided(g, k, last) = k
    <3>1. ~Stopped(h) => j - last < a
      BY <1>18, <2>1
    <3>2. j - last < a => ~(last + a < k)
      BY <1>2, <1>3, <1>4
    <3> QED BY <1>3, <2>1, <3>1, <3>2 DEF Decided
  <2>9. out \o add = r[k]
    BY <1>7, <1>11, <1>12, <1>19, <2>2, <2>6
  <2>10. k \in 0..Len(lines) /\ h2.before_buf = <<>> /\ (Stopped(h2) \/ Decided(g, k, last) = k)
    BY <1>1, <1>2, <2>4, <2>5, <2>6, <2>7, <2>8
  <2>11. Windowed(h2, g, lines, k, last, r, out \o add)
    BY <2>9, <2>10, AllDecided
  <2>12. k \notin T
    BY <1>1, <1>19
  <2> QED BY <1>15, <2>11, <2>12
<1>20. CASE ~Stopped(h) /\ p = 0 /\ k \notin H
  <2>1. Decided(g, k, last) = e /\ e <= j
    <3>1. last # 0 => a <= j - last
      BY <1>3, <1>4, <1>5, <1>18, <1>20
    <3>2. last # 0 => last + a <= j /\ last + a < k
      BY <1>2, <1>3, <1>4, <3>1
    <3>3. last # 0 => e = last + a
      BY <1>2, <1>3, <1>4, <1>7, <1>20, <3>2
    <3> QED BY <1>3, <1>7, <1>8, <1>2, <1>20, <3>2, <3>3 DEF Decided
  <2>2. h.line_no + 1 = k
    BY <1>2, <1>4, <1>20
  <2>3. PICK buf : buf = NextBefore(h, k, lines[k], FALSE)
    OBVIOUS
  <2>4. h2.before_buf = buf /\ h2.hits = h.hits /\ add = <<>>
    <3>1. Fed(h, h2, add, lines[k], FALSE)
      BY <1>20, <1>21, Zenon
    <3>a. ~(p > 0)
      BY <1>20
    <3>b. ~(h.pending_after > 0)
      BY <1>3, <3>a, Zenon
    <3>2. h2.before_buf = NextBefore(h, h.line_no + 1, lines[k], FALSE) /\ h2.hits = h.hits /\ add = <<>>
      BY <1>13, <1>20, <3>1, <3>b DEF Fed
    <3> QED BY <2>2, <2>3, <3>2
  <2>5. ~Stopped(h2)
    BY <1>13, <1>20, <2>4 DEF Stopped, SameOptions
  <2>6. out \o add = r[e]
    BY <1>7, <1>8, <1>9, <2>4
  <2>7. buf = IF c = 0 THEN h.before_buf
              ELSE IF Len(Append(h.before_buf, <<k, lines[k]>>)) > c
                   THEN Tail(Append(h.before_buf, <<k, lines[k]>>))
                   ELSE Append(h.before_buf, <<k, lines[k]>>)
    <3>1. h.pending_after = 0 /\ ~h.count_only /\ h.before = c /\ (c > 0 <=> c # 0)
      BY <1>3, <1>13, <1>20
    <3>2. PICK t : t = Append(h.before_buf, <<k, lines[k]>>)
      OBVIOUS
    <3>3. buf = IF h.before > 0 THEN IF Len(t) > h.before THEN Tail(t) ELSE t ELSE h.before_buf
      BY <2>3, <3>1, <3>2 DEF NextBefore
    <3> QED BY <3>1, <3>2, <3>3
  <2>8. /\ Append(h.before_buf, <<k, lines[k]>>) = KeptBack(lines, b, k)
        /\ Len(KeptBack(lines, b, k)) = k - b /\ Tail(KeptBack(lines, b, k)) = KeptBack(lines, b + 1, k)
    <3>1. b \in 0..Len(lines) /\ j \in 0..Len(lines) /\ b <= j /\ j < Len(lines)
      BY <1>1, <1>2, <1>8
    <3>2. KeptNext(lines, b, j, j + 1)
      BY <3>1, KeptGrows
    <3>3. KeptNext(lines, b, j, k)
      BY <1>2, <3>2
    <3> QED BY <1>7, <3>3 DEF KeptNext
  <2>9. \E y : /\ buf = KeptBack(lines, y, k)
               /\ y \in e..k /\ (k - y = c \/ (y = e /\ k - y <= c))
    <3>1. CASE c = 0
      <4>1. b = j
        BY <1>2, <1>3, <1>7, <1>8, <3>1
      <4>2. buf = KeptBack(lines, k, k)
        BY <1>2, <1>7, <2>7, <3>1, <4>1, KeptNone
      <4>3. k \in e..k /\ k - k = c
        BY <1>2, <1>8, <2>1, <3>1
      <4> QED BY <4>2, <4>3
    <3>2. CASE c # 0 /\ k - b > c
      <4>1. buf = KeptBack(lines, b + 1, k)
        BY <2>7, <2>8, <3>2
      <4>2. j - b = c
        BY <1>2, <1>3, <1>7, <1>8, <3>2, SMTT(30)
      <4>3. b + 1 \in e..k /\ k - (b + 1) = c
        BY <1>2, <1>3, <1>8, <4>2
      <4> QED BY <4>1, <4>3
    <3>3. CASE c # 0 /\ ~(k - b > c)
      <4>1. buf = KeptBack(lines, b, k)
        BY <2>7, <2>8, <3>3
      <4>2. b = e /\ k - b <= c /\ b \in e..k
        BY <1>2, <1>3, <1>7, <1>8, <3>3
      <4> QED BY <4>1, <4>2
    <3> QED BY <3>1, <3>2, <3>3
  <2>10. PICK y : buf = KeptBack(lines, y, k) /\ y \in e..k /\ (k - y = c \/ (y = e /\ k - y <= c))
    BY <2>9
  <2>11. Window(h2, g, lines, k, last, r, out \o add, e, y)
    BY <1>3, <2>1, <2>4, <2>5, <2>6, <2>10 DEF Window
  <2>12. k \notin T
    BY <1>1, <1>20
  <2> QED BY <1>15, <2>11, <2>12 DEF Windowed
<1> QED BY <1>3, <1>16, <1>17, <1>19, <1>20

\* All of that holds of a grep that has seen nothing,
LEMMA AtStart ==
  ASSUME NEW P, NEW L, NEW g \in Greps(P, L), Fresh(g), NEW lines \in Seq(L)
  PROVE  /\ Counting(g, g, HitsOf(g, lines), 0)
         /\ Context(g, g, HitsOf(g, lines), TakenOf(g, lines), 0, 0)
         /\ \A r : ShownBy(r, g, lines) => Windowed(g, g, lines, 0, 0, r, <<>>)
<1>1. PICK H, n : H = HitsOf(g, lines) /\ n = Len(lines) /\ n \in Nat /\ H \subseteq 1..n
  <2>1. Len(lines) \in Nat /\ HitsOf(g, lines) \subseteq 1..Len(lines)
    BY DEF HitsOf
  <2> QED BY <2>1
<1>2. Upto(H, 0) = 0
  BY <1>1, UptoGrows
<1>3. PICK N : N = g.max_count /\ N \in Nat
  <2>1. g.max_count \in Nat
    BY DEF Greps
  <2> QED BY <2>1
<1>4. Counting(g, g, H, 0)
  <2>1. g.hits = IF N = 0 \/ 0 < N THEN 0 ELSE N
    BY <1>3 DEF Fresh
  <2> QED BY <1>2, <1>3, <2>1 DEF Counting, SameOptions
<1>5. Context(g, g, H, TakenOf(g, lines), 0, 0)
  <2>1. \A i \in TakenOf(g, lines) : i \in H
    BY <1>1 DEF TakenOf
  <2>2. \A i \in H : ~(i <= 0)
    BY <1>1
  <2>3. 0 \in 0..0
    OBVIOUS
  <2> QED BY <2>1, <2>2, <2>3 DEF Context, Fresh
<1>6. ASSUME NEW r, ShownBy(r, g, lines) PROVE Windowed(g, g, lines, 0, 0, r, <<>>)
  <2>1. 0 \in 0..Len(lines) /\ <<>> = r[0] /\ g.before_buf = <<>> /\ Decided(g, 0, 0) = 0
    BY <1>1, <1>6 DEF ShownBy, Fresh, Decided
  <2> QED BY <2>1, AllDecided
<1> QED BY <1>1, <1>4, <1>5, <1>6

\* What holds after k lines.
Reached(gs, outs, g, lines, r, k) ==
  /\ Counting(gs[k], g, HitsOf(g, lines), k)
  /\ \E last : /\ Context(gs[k], g, HitsOf(g, lines), TakenOf(g, lines), k, last)
               /\ ~g.count_only => Windowed(gs[k], g, lines, k, last, r, outs[k])
  /\ g.count_only => outs[k] = <<>>

\* and after every line.
LEMMA ReachedEach ==
  ASSUME NEW P, NEW L, NEW g \in Greps(P, L), Fresh(g), NEW lines \in Seq(L),
         NEW gs, NEW shown, NEW outs, Feeding(gs, shown, outs, g, lines),
         NEW r, ~g.count_only => ShownBy(r, g, lines)
  PROVE  \A k \in 0..Len(lines) : Reached(gs, outs, g, lines, r, k)
<1>1. PICK n : n = Len(lines) /\ n \in Nat
  <2>1. Len(lines) \in Nat
    OBVIOUS
  <2> QED BY <2>1
<1>2. /\ gs[0] = g /\ outs[0] = <<>>
      /\ \A k \in 1..n : outs[k] = outs[k - 1] \o shown[k]
  BY <1>1 DEF Feeding
<1>3. /\ \A k \in 0..n : gs[k] \in Greps(P, L) /\ SameOptions(gs[k], g)
      /\ \A k \in 1..n : Fed(gs[k - 1], gs[k], shown[k], lines[k], k \in HitsOf(g, lines))
  BY <1>1, FedEach
<1> DEFINE Q == {k \in 0..n : Reached(gs, outs, g, lines, r, k)}
<1>4. 0 \in Q
  <2>1. /\ Counting(g, g, HitsOf(g, lines), 0)
        /\ Context(g, g, HitsOf(g, lines), TakenOf(g, lines), 0, 0)
        /\ ~g.count_only => Windowed(g, g, lines, 0, 0, r, <<>>)
    BY AtStart
  <2>2. 0 \in 0..n
    BY <1>1
  <2> QED BY <1>2, <2>1, <2>2 DEF Reached
<1>5. ASSUME NEW k \in 1..n, Reached(gs, outs, g, lines, r, k - 1)
      PROVE  Reached(gs, outs, g, lines, r, k)
  <2>1. PICK h \in Greps(P, L), h2 \in Greps(P, L) : h = gs[k - 1] /\ h2 = gs[k]
    <3>1. k - 1 \in 0..n /\ k \in 0..n
      BY <1>1
    <3> QED BY <1>3, <3>1
  <2>2. PICK out, add : out = outs[k - 1] /\ add = shown[k] /\ outs[k] = out \o add
    BY <1>2
  <2>3. SameOptions(h2, g) /\ Fed(h, h2, add, lines[k], k \in HitsOf(g, lines))
    <3>1. k \in 0..n
      BY <1>1
    <3> QED BY <1>3, <2>1, <2>2, <3>1
  <2>4. Counting(h, g, HitsOf(g, lines), k - 1)
    BY <1>5, <2>1 DEF Reached
  <2>5. PICK last : /\ Context(h, g, HitsOf(g, lines), TakenOf(g, lines), k - 1, last)
                    /\ ~g.count_only => Windowed(h, g, lines, k - 1, last, r, out)
    BY <1>5, <2>1, <2>2 DEF Reached
  <2>6. k \in 1..Len(lines)
    BY <1>1
  <2>7. Counting(h2, g, HitsOf(g, lines), k)
    BY <2>3, <2>4, <2>6, CountStep
  <2>8. /\ k \in TakenOf(g, lines) <=> k \in HitsOf(g, lines) /\ ~Stopped(h)
        /\ Context(h2, g, HitsOf(g, lines), TakenOf(g, lines), k, IF k \in TakenOf(g, lines) THEN k ELSE last)
    BY <2>3, <2>4, <2>5, <2>6, ContextStep
  <2>9. ~g.count_only => Windowed(h2, g, lines, k, IF k \in TakenOf(g, lines) THEN k ELSE last, r, out \o add)
    BY <2>3, <2>4, <2>5, <2>6, <2>8, WindowStep
  <2>10. g.count_only => outs[k] = <<>>
    <3> SUFFICES ASSUME g.count_only PROVE outs[k] = <<>>
      OBVIOUS
    <3>1. out = <<>>
      BY <1>5, <2>2 DEF Reached
    <3>2. h.count_only
      BY <2>4 DEF Counting, SameOptions
    <3>3. add = <<>>
      <4>1. h.pending_after \in Nat
        BY DEF Greps
      <4> QED BY <2>3, <3>2, <4>1 DEF Fed
    <3>4. <<>> \o <<>> = <<>>
      OBVIOUS
    <3> QED BY <2>2, <3>1, <3>3, <3>4
  <2> QED BY <2>1, <2>2, <2>7, <2>8, <2>9, <2>10 DEF Reached
<1>6. ASSUME NEW k \in 1..n, k - 1 \in Q PROVE k \in Q
  <2>1. k \in 0..n
    BY <1>1
  <2> QED BY <1>5, <1>6, <2>1
<1> HIDE DEF Q
<1>7. \A k \in 0..n : k \in Q
  BY <1>1, <1>4, <1>6, Induct
<1> QED BY <1>1, <1>7 DEF Q

\* After the last line: what is not decided is not shown.
LEMMA AtEnd ==
  ASSUME NEW P, NEW L, NEW g \in Greps(P, L), NEW lines \in Seq(L), NEW h \in Greps(P, L),
         Counting(h, g, HitsOf(g, lines), Len(lines)),
         NEW last, Context(h, g, HitsOf(g, lines), TakenOf(g, lines), Len(lines), last),
         NEW r, ShownBy(r, g, lines), NEW out, Windowed(h, g, lines, Len(lines), last, r, out)
  PROVE  out = r[Len(lines)]
<1>1. PICK n, a : n = Len(lines) /\ n \in Nat /\ a = g.after /\ a \in Nat
  <2>1. Len(lines) \in Nat /\ g.after \in Nat
    BY DEF Greps
  <2> QED BY <2>1
<1>2. PICK e, b : Window(h, g, lines, n, last, r, out, e, b)
  BY <1>1 DEF Windowed
<1>3. out = r[e] /\ e = IF Stopped(h) THEN n ELSE IF last = 0 THEN 0 ELSE IF last + a < n THEN last + a ELSE n
  BY <1>1, <1>2 DEF Window, Decided
<1>4. CASE e = n
  BY <1>1, <1>3, <1>4
<1>5. CASE e # n
  <2>1. ~Stopped(h)
    BY <1>3, <1>5
  <2>2. last \in Nat /\ last <= n
    <3>1. last \in 0..n
      BY <1>1 DEF Context
    <3> QED BY <1>1, <3>1
  <2>3. e = (IF last = 0 THEN 0 ELSE last + a) /\ e \in 0..n /\ e \in Nat /\ e <= n
    BY <1>1, <1>3, <1>5, <2>1, <2>2
  <2>4. \A i \in (e + 1)..n : i \notin Selected(g, lines)
    <3> SUFFICES ASSUME NEW i \in (e + 1)..n PROVE i \notin Selected(g, lines)
      OBVIOUS
    <3>1. i \in 1..n /\ last < i /\ (last = 0 \/ i - last > a)
      BY <1>1, <2>2, <2>3
    <3>2. \A t \in TakenOf(g, lines) : ~(t > n)
      <4>1. \A t \in TakenOf(g, lines) : t \in 1..n
        BY <1>1 DEF TakenOf, HitsOf
      <4> QED BY <1>1, <4>1
    <3>3. /\ n \in 0..Len(lines) /\ Counting(h, g, HitsOf(g, lines), n)
          /\ Context(h, g, HitsOf(g, lines), TakenOf(g, lines), n, last)
          /\ last = 0 \/ i - last > g.after
          /\ \A t \in TakenOf(g, lines) : t > n => t - i > g.before
      BY <1>1, <3>1, <3>2
    <3> QED BY <2>1, <3>1, <3>3, Unshown
  <2>5. \A i \in (n + 1)..n : i \in Selected(g, lines)
    BY <1>1
  <2>6. r[n] = r[e] \o Run(g, lines, n, n)
    <3>1. e \in 0..Len(lines) /\ n \in 0..Len(lines) /\ n <= n
      BY <1>1, <2>3
    <3> QED BY <2>3, <2>4, <2>5, <3>1, ShownRun, SMTT(30)
  <2>7. r[e] \in Seq(Formatted(g, lines))
    BY <1>1, <2>3 DEF ShownBy
  <2>8. Run(g, lines, n, n) = <<>>
    BY <1>1, RunNone
  <2>9. r[e] \o <<>> = r[e]
    BY <2>7
  <2> QED BY <1>1, <1>3, <2>6, <2>8, <2>9
<1> QED BY <1>4, <1>5

\* Grep, fed line by line, shows what its specification says of all the lines at
\* once: the hits it may still take, and the lines around them, each once and in
\* order, with only `before` lines kept back.
THEOREM GrepShows ==
  ASSUME NEW P, NEW L, NEW g \in Greps(P, L), Fresh(g), NEW lines \in Seq(L),
         NEW gs, NEW shown, NEW outs, Feeding(gs, shown, outs, g, lines)
  PROVE  outs[Len(lines)] \o GrepFinish(gs[Len(lines)]) = GrepBatch(g, lines)
<1>1. PICK n : n = Len(lines) /\ n \in Nat /\ n \in 0..Len(lines)
  <2>1. Len(lines) \in Nat
    OBVIOUS
  <2> QED BY <2>1
<1>2. PICK h \in Greps(P, L) : h = gs[n] /\ SameOptions(h, g)
  <2>1. \A k \in 0..Len(lines) : gs[k] \in Greps(P, L) /\ SameOptions(gs[k], g)
    BY FedEach
  <2> QED BY <1>1, <2>1
<1>3. CASE g.count_only
  <2>1. Reached(gs, outs, g, lines, gs, n)
    BY <1>1, <1>3, ReachedEach
  <2>2. outs[n] = <<>> /\ Counting(h, g, HitsOf(g, lines), n) /\ h.count_only
    BY <1>2, <1>3, <2>1 DEF Reached, SameOptions
  <2>3. Upto(HitsOf(g, lines), n) = Cardinality(HitsOf(g, lines))
    <3>1. HitsOf(g, lines) \subseteq 1..n
      BY <1>1 DEF HitsOf
    <3> QED BY <1>1, <3>1, UptoGrows
  <2>4. PICK c, N : c = Cardinality(HitsOf(g, lines)) /\ N = g.max_count
    OBVIOUS
  <2>5. h.hits = IF N = 0 \/ c < N THEN c ELSE N
    BY <2>2, <2>3, <2>4 DEF Counting
  <2>6. GrepBatch(g, lines) = <<<<ToString(IF N = 0 \/ c < N THEN c ELSE N)>>>>
    BY <1>3, <2>4, Zenon DEF GrepBatch, HitsOf
  <2>7. GrepFinish(h) = GrepBatch(g, lines)
    BY <2>2, <2>5, <2>6 DEF GrepFinish
  <2>8. PICK x : x = <<ToString(h.hits)>> /\ GrepFinish(h) = <<x>>
    BY <2>2 DEF GrepFinish
  <2>9. <<>> \o <<x>> = <<x>>
    <3>1. <<x>> \in Seq({x})
      OBVIOUS
    <3> QED BY <3>1
  <2> QED BY <1>1, <1>2, <2>2, <2>7, <2>8, <2>9
<1>4. CASE ~g.count_only
  <2>1. PICK r : ShownBy(r, g, lines) /\ r[Len(lines)] = GrepBatch(g, lines)
    BY <1>4, BatchChain
  <2>2. Reached(gs, outs, g, lines, r, n)
    BY <1>1, <2>1, ReachedEach
  <2>3. Counting(h, g, HitsOf(g, lines), Len(lines))
    BY <1>1, <1>2, <2>2 DEF Reached
  <2>4. PICK last : /\ Context(h, g, HitsOf(g, lines), TakenOf(g, lines), Len(lines), last)
                    /\ Windowed(h, g, lines, Len(lines), last, r, outs[n])
    BY <1>1, <1>2, <1>4, <2>2 DEF Reached
  <2>5. outs[n] = r[Len(lines)]
    BY <2>1, <2>3, <2>4, AtEnd
  <2>6. GrepFinish(h) = <<>>
    BY <1>2, <1>4 DEF GrepFinish, SameOptions
  <2>7. r[n] \o <<>> = r[n]
    <3>1. r[n] \in Seq(Formatted(g, lines))
      BY <1>1, <2>1 DEF ShownBy
    <3> QED BY <3>1
  <2> QED BY <1>1, <1>2, <2>1, <2>5, <2>6, <2>7
<1> QED BY <1>3, <1>4

\* The subsets a fold over one or no element goes through.
LEMMA OneElement ==
  /\ SUBSET (1..1) = {{}, {1}} /\ {1} # {} /\ Max({1}) = 1 /\ {1} \ {Max({1})} = {} /\ 1..1 = {1}
  /\ SUBSET (1..0) = {{}} /\ 1..0 = {}
<1>1. 1..1 = {1} /\ 1..0 = {}
  OBVIOUS
<1>2. Max({1}) = 1
  BY <1>1, MaxOf
<1>3. SUBSET {1} = {{}, {1}}
  OBVIOUS
<1> QED BY <1>1, <1>2, <1>3

\* A stage that is given one line, and one that is given none.
StageStart(acc, s) == [st |-> acc.stages[s], out |-> <<>>, written |-> <<>>]

\* One line through a stage,
LEMMA ThroughOne ==
  ASSUME NEW acc, NEW line, NEW s, NEW last
  PROVE  Through(acc, <<line>>, s, last) =
           Passed(acc, Given(StageStart(acc, s), StageFeed(StageStart(acc, s).st, line)), <<line>>, s, last)
<1> DEFINE base == StageStart(acc, s)
           step(a, i) == Given(a, StageFeed(a.st, <<line>>[i]))
           Is(it) == it = [x \in SUBSET (1..1) |-> IF x = {} THEN base ELSE step(it[x \ {Max(x)}], Max(x))]
           h == CHOOSE it : Is(it)
           f == [x \in SUBSET (1..1) |-> IF x = {} THEN base ELSE step(base, 1)]
<1>1. Through(acc, <<line>>, s, last) = Passed(acc, h[1..1], <<line>>, s, last)
  <2>1. DOMAIN <<line>> = 1..1
    OBVIOUS
  <2> QED BY <2>1 DEF Through, StageStart, FoldLeft, MapThenFoldSet
<1>2. <<line>>[1] = line
  OBVIOUS
<1> HIDE DEF base, step
<1>3. Is(f)
  <2>1. ASSUME NEW x \in SUBSET (1..1), x # {} PROVE step(base, 1) = step(f[x \ {Max(x)}], Max(x))
    <3>1. x = {1} /\ Max(x) = 1 /\ x \ {Max(x)} = {}
      BY <2>1, OneElement
    <3>2. f[{}] = base
      OBVIOUS
    <3> QED BY <3>1, <3>2
  <2> QED BY <2>1
<1>4. Is(h)
  <2> HIDE DEF Is
  <2> QED BY <1>3
<1> HIDE DEF h
<1>5. h[1..1] = step(base, 1)
  <2>1. h[{}] = base
    BY <1>4
  <2>2. h[{1}] = step(h[{1} \ {Max({1})}], Max({1}))
    <3>1. \A x \in SUBSET (1..1) : x # {} => h[x] = step(h[x \ {Max(x)}], Max(x))
      BY <1>4
    <3>2. {1} \in SUBSET (1..1) /\ {1} # {}
      OBVIOUS
    <3> QED BY <3>1, <3>2
  <2> QED BY <2>1, <2>2, OneElement
<1> QED BY <1>1, <1>2, <1>5 DEF base, step

\* and none, at the end of the text.
LEMMA ThroughNone ==
  ASSUME NEW acc, NEW s, NEW last
  PROVE  Through(acc, <<>>, s, last) = Passed(acc, StageStart(acc, s), <<>>, s, last)
<1> DEFINE base == StageStart(acc, s)
           step(a, i) == Given(a, StageFeed(a.st, <<>>[i]))
           Is(it) == it = [x \in SUBSET (1..0) |-> IF x = {} THEN base ELSE step(it[x \ {Max(x)}], Max(x))]
           h == CHOOSE it : Is(it)
           f == [x \in SUBSET (1..0) |-> base]
<1>1. Through(acc, <<>>, s, last) = Passed(acc, h[1..0], <<>>, s, last)
  <2>1. DOMAIN <<>> = 1..0
    OBVIOUS
  <2> QED BY <2>1 DEF Through, StageStart, FoldLeft, MapThenFoldSet
<1> HIDE DEF base, step
<1>3. Is(f)
  BY OneElement
<1>4. Is(h)
  <2> HIDE DEF Is
  <2> QED BY <1>3
<1> HIDE DEF h
<1>5. h[1..0] = base
  BY <1>4, OneElement
<1> QED BY <1>1, <1>5 DEF base

\* A cascade of one stage.
CascadeStart(p, lines) == [stages |-> p.stages, lines |-> lines, files |-> p.files]

\* With one stage, the cascade is that stage.
LEMMA CascadeOne ==
  ASSUME NEW p, Len(p.stages) = 1, NEW lines, NEW last
  PROVE  Cascade(p, lines, last) =
           Emitted(p, Through(CascadeStart(p, lines), CascadeStart(p, lines).lines, 1, last))
<1> DEFINE base == CascadeStart(p, lines)
           step(a, i) == Through(a, a.lines, [s \in 1..1 |-> s][i], last)
           Is(it) == it = [x \in SUBSET (1..1) |-> IF x = {} THEN base ELSE step(it[x \ {Max(x)}], Max(x))]
           h == CHOOSE it : Is(it)
           f == [x \in SUBSET (1..1) |-> IF x = {} THEN base ELSE step(base, 1)]
<1>1. Cascade(p, lines, last) = Emitted(p, h[1..1])
  <2>1. Cascade(p, lines, last) =
          Emitted(p, FoldLeft(LAMBDA a, s : Through(a, a.lines, s, last), base, [s \in 1..1 |-> s]))
    BY DEF Cascade, CascadeStart
  <2> HIDE DEF base
  <2> QED BY <2>1 DEF FoldLeft, MapThenFoldSet
<1>2. [s \in 1..1 |-> s][1] = 1
  OBVIOUS
<1> HIDE DEF base, step
<1>3. Is(f)
  <2>1. ASSUME NEW x \in SUBSET (1..1), x # {} PROVE step(base, 1) = step(f[x \ {Max(x)}], Max(x))
    <3>1. x = {1} /\ Max(x) = 1 /\ x \ {Max(x)} = {}
      BY <2>1, OneElement
    <3>2. f[{}] = base
      OBVIOUS
    <3> QED BY <3>1, <3>2
  <2> QED BY <2>1
<1>4. Is(h)
  <2> HIDE DEF Is
  <2> QED BY <1>3
<1> HIDE DEF h
<1>5. h[1..1] = step(base, 1)
  <2>1. h[{}] = base
    BY <1>4
  <2>2. h[{1}] = step(h[{1} \ {Max({1})}], Max({1}))
    <3>1. \A x \in SUBSET (1..1) : x # {} => h[x] = step(h[x \ {Max(x)}], Max(x))
      BY <1>4
    <3>2. {1} \in SUBSET (1..1) /\ {1} # {}
      OBVIOUS
    <3> QED BY <3>1, <3>2
  <2> QED BY <2>1, <2>2, OneElement
<1> QED BY <1>1, <1>2, <1>5 DEF base, step

\* A pipeline of one grep, that has shown `inner`, and all that a grep can show.
PipeOf(inner, g) == [inner |-> inner, stages |-> <<g>>, buf |-> <<>>, files |-> <<>>]
Formats(P, L) == {Format(g, n, x) : g \in Greps(P, L), n \in Nat, x \in L}

\* What a feed returns, by its types.
LEMMA FeedTyped ==
  ASSUME NEW P, NEW L, NEW g \in Greps(P, L), NEW line \in L
  PROVE  /\ GrepFeed(g, line) = <<GrepFeed(g, line)[1], GrepFeed(g, line)[2]>>
         /\ GrepFeed(g, line)[1] \in Greps(P, L) /\ GrepFeed(g, line)[2] \in Seq(Formats(P, L))
<1>1. PICK hit : hit = GrepMatches(g, line) /\ hit \in BOOLEAN
  <2>1. GrepMatches(g, line) \in BOOLEAN
    BY DEF GrepMatches, Greps
  <2> QED BY <2>1
<1>2. PICK r : r = FeedHit(g, line, hit)
  OBVIOUS
<1>3. r = GrepFeed(g, line)
  BY <1>1, <1>2 DEF GrepFeed
<1>4. r = <<r[1], r[2]>>
  <2>1. \E a, b : r = <<a, b>>
    BY <1>2, Zenon DEF FeedHit
  <2> QED BY <2>1
<1>5. /\ r[1] \in Greps(P, L)
      /\ Stopped(g) /\ g.pending_after = 0 => r[2] = <<>>
      /\ Stopped(g) /\ g.pending_after > 0 /\ hit => r[2] = <<>>
      /\ (~Stopped(g) \/ (g.pending_after > 0 /\ ~hit)) =>
           r[2] = IF g.count_only THEN <<>>
                  ELSE IF hit THEN Buffered(g) \o <<Format(g, g.line_no + 1, line)>>
                  ELSE IF g.pending_after > 0 THEN <<Format(g, g.line_no + 1, line)>> ELSE <<>>
  BY <1>1, <1>2, FeedIs
<1>6. PICK F : F = Formats(P, L)
  OBVIOUS
<1>7. PICK t : t = Format(g, g.line_no + 1, line)
  OBVIOUS
<1>8. t \in F
  <2>1. g.line_no + 1 \in Nat
    BY DEF Greps
  <2> QED BY <1>6, <1>7, <2>1 DEF Formats
<1>9. PICK u : u = Buffered(g)
  OBVIOUS
<1>10. u \in Seq(F)
  <2>1. PICK b : b = g.before_buf /\ b \in Seq(Nat \X L)
    <3>1. g.before_buf \in Seq(Nat \X L)
      BY DEF Greps
    <3> QED BY <3>1
  <2>2. Len(b) \in Nat /\ \A i \in 1..Len(b) : b[i] \in Nat \X L
    BY <2>1
  <2>3. \A i \in 1..Len(b) : Format(g, b[i][1], b[i][2]) \in F
    <3>1. \A i \in 1..Len(b) : b[i][1] \in Nat /\ b[i][2] \in L
      BY <2>2
    <3> QED BY <1>6, <3>1 DEF Formats
  <2>4. u = [i \in 1..Len(b) |-> Format(g, b[i][1], b[i][2])]
    BY <1>9, <2>1 DEF Buffered
  <2> QED BY <2>2, <2>3, <2>4
<1>11. <<t>> \in Seq(F) /\ <<>> \in Seq(F) /\ u \o <<t>> \in Seq(F)
  <2>1. <<t>> \in Seq(F) /\ <<>> \in Seq(F)
    BY <1>8
  <2> QED BY <1>10, <2>1, ConcatProperties
<1>12. g.pending_after \in Nat
  BY DEF Greps
<1>13. \/ (Stopped(g) /\ g.pending_after = 0) \/ (Stopped(g) /\ g.pending_after > 0 /\ hit)
       \/ ~Stopped(g) \/ (g.pending_after > 0 /\ ~hit)
  BY <1>1, <1>12
<1>14. r[2] \in Seq(F)
  BY <1>5, <1>7, <1>9, <1>11, <1>13
<1> QED BY <1>3, <1>4, <1>5, <1>6, <1>14

\* The first two of three.
LEMMA Triple ==
  ASSUME NEW a, NEW b, NEW c
  PROVE  (<<a, b>> \o <<c>>)[1] = a /\ (<<a, b>> \o <<c>>)[2] = b
<1>1. <<a, b>> \in Seq({a, b, c}) /\ <<c>> \in Seq({a, b, c}) /\ Len(<<a, b>>) = 2 /\ Len(<<c>>) = 1
  OBVIOUS
<1>2. PICK x, y : x = <<a, b>> /\ y = <<c>> /\ x \in Seq({a, b, c}) /\ y \in Seq({a, b, c}) /\ Len(x) = 2
  BY <1>1
<1>3. \A i \in 1..Len(x) : (x \o y)[i] = x[i]
  BY <1>2, ConcatProperties
<1>4. (x \o y)[1] = x[1] /\ (x \o y)[2] = x[2]
  BY <1>2, <1>3
<1> QED BY <1>2, <1>4

\* A line through a pipeline of one grep is a line fed to it,
LEMMA EmitOne ==
  ASSUME NEW P, NEW L, NEW g \in Greps(P, L), NEW line \in L, NEW inner \in Seq(Formats(P, L))
  PROVE  /\ emit_line(PipeOf(inner, g), line) = PipeOf(inner \o GrepFeed(g, line)[2], GrepFeed(g, line)[1])
         /\ inner \o GrepFeed(g, line)[2] \in Seq(Formats(P, L))
<1>1. PICK a, b, F : /\ a = GrepFeed(g, line)[1] /\ b = GrepFeed(g, line)[2] /\ GrepFeed(g, line) = <<a, b>>
                     /\ F = Formats(P, L) /\ a \in Greps(P, L) /\ b \in Seq(F)
  BY FeedTyped
<1>2. PICK p : p = PipeOf(inner, g)
  OBVIOUS
<1>3. PICK c : c = CascadeStart(p, <<line>>)
  OBVIOUS
<1>4. c = [stages |-> <<g>>, lines |-> <<line>>, files |-> <<>>]
  BY <1>2, <1>3 DEF CascadeStart, PipeOf
<1>5. Len(p.stages) = 1
  BY <1>2 DEF PipeOf
<1>6. emit_line(p, line) = Emitted(p, Through(c, <<line>>, 1, FALSE))
  <2>1. Cascade(p, <<line>>, FALSE) = Emitted(p, Through(CascadeStart(p, <<line>>), CascadeStart(p, <<line>>).lines, 1, FALSE))
    BY <1>5, CascadeOne
  <2>2. c.lines = <<line>>
    BY <1>4
  <2> QED BY <1>3, <2>1, <2>2 DEF emit_line
<1>7. PICK start : start = StageStart(c, 1)
  OBVIOUS
<1>8. start = [st |-> g, out |-> <<>>, written |-> <<>>]
  BY <1>4, <1>7 DEF StageStart
<1>9. PICK x : x = StageFeed(g, line)
  OBVIOUS
<1>10. x[1] = a /\ x[2] = b
  <2>1. g.kind = "grep"
    BY DEF Greps
  <2>2. x = <<a, b>> \o << <<>> >>
    BY <1>1, <1>9, <2>1 DEF StageFeed
  <2> QED BY <2>2, Triple
<1>11. PICK fed : fed = Given(start, x)
  OBVIOUS
<1>12. fed.st = a /\ fed.out = b
  <2>1. <<>> \o b = b
    BY <1>1
  <2>2. fed.st = x[1] /\ fed.out = start.out \o x[2]
    BY <1>11 DEF Given
  <2> QED BY <1>8, <1>10, <2>1, <2>2
<1>13. Through(c, <<line>>, 1, FALSE) = Passed(c, fed, <<line>>, 1, FALSE)
  <2>1. Through(c, <<line>>, 1, FALSE) =
          Passed(c, Given(StageStart(c, 1), StageFeed(StageStart(c, 1).st, line)), <<line>>, 1, FALSE)
    BY ThroughOne
  <2>2. start.st = g
    BY <1>8
  <2> QED BY <1>7, <1>9, <1>11, <2>1, <2>2
<1>14. Passed(c, fed, <<line>>, 1, FALSE) = [stages |-> <<a>>, lines |-> b, files |-> <<>>]
  <2>1. a.kind # "tee"
    BY <1>1 DEF Greps
  <2>2. fed.out \o Closing(fed.st, <<line>>, FALSE) = b
    <3>1. b \o <<>> = b
      BY <1>1
    <3> QED BY <1>12, <3>1 DEF Closing
  <2>3. [<<g>> EXCEPT ![1] = a] = <<a>>
    OBVIOUS
  <2>4. Passed(c, fed, <<line>>, 1, FALSE) = [c EXCEPT !.stages[1] = a, !.lines = b, !.files = @]
    BY <1>12, <2>1, <2>2 DEF Passed
  <2>5. PICK one, two : one = <<g>> /\ two = <<a>> /\ [one EXCEPT ![1] = a] = two
    BY <2>3
  <2>6. c = [stages |-> one, lines |-> <<line>>, files |-> <<>>]
    BY <1>4, <2>5
  <2>7. Passed(c, fed, <<line>>, 1, FALSE) = [stages |-> two, lines |-> b, files |-> <<>>]
    BY <2>4, <2>5, <2>6
  <2> QED BY <2>5, <2>7
<1>15. PICK now : now = inner \o b
  OBVIOUS
<1>16. Emitted(p, [stages |-> <<a>>, lines |-> b, files |-> <<>>]) = PipeOf(now, a)
  <2>1. PICK acc, two, none : two = <<a>> /\ none = <<>> /\ acc = [stages |-> two, lines |-> b, files |-> none]
    OBVIOUS
  <2>2. PICK one : one = <<g>> /\ p = [inner |-> inner, stages |-> one, buf |-> none, files |-> none]
    BY <1>2, <2>1 DEF PipeOf
  <2>3. acc.stages = two /\ acc.lines = b /\ acc.files = none /\ p.inner = inner
    BY <2>1, <2>2
  <2>4. Emitted(p, acc) = [p EXCEPT !.stages = two, !.files = none, !.inner = now]
    BY <1>15, <2>3 DEF Emitted
  <2>5. Emitted(p, acc) = [inner |-> now, stages |-> two, buf |-> none, files |-> none]
    BY <2>2, <2>4
  <2> QED BY <2>1, <2>5 DEF PipeOf
<1>17. now \in Seq(F)
  BY <1>1, <1>15, ConcatProperties
<1> QED BY <1>1, <1>2, <1>6, <1>13, <1>14, <1>15, <1>16, <1>17

\* and at the end the grep's own finish.
LEMMA FinishOne ==
  ASSUME NEW P, NEW L, NEW g \in Greps(P, L), NEW inner
  PROVE  PipelineFinish(PipeOf(inner, g)).inner = inner \o GrepFinish(g)
<1>1. PICK p : p = PipeOf(inner, g)
  OBVIOUS
<1>2. p.buf = <<>> /\ Len(p.stages) = 1 /\ p.inner = inner
  BY <1>1 DEF PipeOf
<1>3. PICK c : c = CascadeStart(p, <<>>)
  OBVIOUS
<1>4. c = [stages |-> <<g>>, lines |-> <<>>, files |-> <<>>] /\ c.lines = <<>>
  BY <1>1, <1>3 DEF CascadeStart, PipeOf
<1>5. PipelineFinish(p) = Emitted(p, Through(c, <<>>, 1, TRUE))
  <2>1. PipelineFinish(p) = Cascade(p, <<>>, TRUE)
    BY <1>2 DEF PipelineFinish
  <2>2. Cascade(p, <<>>, TRUE) = Emitted(p, Through(CascadeStart(p, <<>>), CascadeStart(p, <<>>).lines, 1, TRUE))
    BY <1>2, CascadeOne
  <2> QED BY <1>3, <1>4, <2>1, <2>2
<1>6. PICK start : start = StageStart(c, 1)
  OBVIOUS
<1>7. start.st = g /\ start.out = <<>>
  BY <1>4, <1>6 DEF StageStart
<1>8. Through(c, <<>>, 1, TRUE) = Passed(c, start, <<>>, 1, TRUE)
  BY <1>6, ThroughNone
<1>9. PICK f : f = GrepFinish(g) /\ <<>> \o f = f
  <2>1. GrepFinish(g) \in Seq({<<ToString(g.hits)>>})
    <3>1. PICK t : t = <<ToString(g.hits)>>
      OBVIOUS
    <3>2. <<t>> \in Seq({t}) /\ <<>> \in Seq({t})
      OBVIOUS
    <3> QED BY <3>1, <3>2 DEF GrepFinish
  <2> QED BY <2>1
<1>10. start.out \o Closing(start.st, <<>>, TRUE) = f
  <2>1. g.kind = "grep"
    BY DEF Greps
  <2>2. Closing(g, <<>>, TRUE) = f
    BY <1>9, <2>1 DEF Closing, StageFinish
  <2> QED BY <1>7, <1>9, <2>2
<1>11. PICK acc : acc = Passed(c, start, <<>>, 1, TRUE)
  OBVIOUS
<1>12. acc.lines = f
  <2>1. acc = [c EXCEPT !.stages[1] = start.st, !.lines = f,
                        !.files = IF start.st.kind = "tee"
                                  THEN [@ EXCEPT ![start.st.path] = @ \o start.written] ELSE @]
    BY <1>10, <1>11 DEF Passed
  <2> QED BY <1>4, <2>1
<1>13. Emitted(p, acc).inner = p.inner \o acc.lines
  <2>1. "inner" \in DOMAIN p
    BY <1>1 DEF PipeOf
  <2> QED BY <2>1 DEF Emitted
<1> QED BY <1>1, <1>2, <1>5, <1>8, <1>9, <1>11, <1>12, <1>13

\* Line by line, the pipeline is its grep and what that has shown.
LEMMA EmitEach ==
  ASSUME NEW P, NEW L, NEW g \in Greps(P, L), NEW lines \in Seq(L)
  PROVE  \E gs, shown, outs : /\ Feeding(gs, shown, outs, g, lines)
                              /\ FoldLeft(emit_line, PipeOf(<<>>, g), lines) = PipeOf(outs[Len(lines)], gs[Len(lines)])
<1> DEFINE n == Len(lines)
           W == Seq(Formats(P, L))
           V == {PipeOf(w, h) : w \in W, h \in Greps(P, L)}
           base == PipeOf(<<>>, g)
           step(v, i) == emit_line(v, lines[i])
           F == [i \in 1..n |-> [v \in V |-> step(v, i)]]
           Is(it) == it = [x \in SUBSET (1..n) |-> IF x = {} THEN base ELSE step(it[x \ {Max(x)}], Max(x))]
           h == CHOOSE it : Is(it)
<1>1. n \in Nat /\ \A i \in 1..n : lines[i] \in L
  OBVIOUS
<1>2. FoldLeft(emit_line, PipeOf(<<>>, g), lines) = h[1..n]
  <2>1. DOMAIN lines = 1..n
    OBVIOUS
  <2> HIDE DEF n
  <2> QED BY <2>1 DEF FoldLeft, MapThenFoldSet
<1>3. base \in V
  <2>0. <<>> \in W
    OBVIOUS
  <2>1. PICK w \in W : w = <<>>
    BY <2>0, Zenon
  <2>2. PipeOf(w, g) \in V
    OBVIOUS
  <2> QED BY <2>1, <2>2
<1>4. ASSUME NEW v \in V, NEW i \in 1..n
      PROVE  /\ step(v, i) \in V
             /\ \E w \in W, k \in Greps(P, L) :
                  /\ v = PipeOf(w, k)
                  /\ step(v, i) = PipeOf(w \o GrepFeed(k, lines[i])[2], GrepFeed(k, lines[i])[1])
  <2>1. PICK w \in W, k \in Greps(P, L) : v = PipeOf(w, k)
    OBVIOUS
  <2>2. PICK line \in L : line = lines[i]
    BY <1>1
  <2>3. /\ emit_line(PipeOf(w, k), line) = PipeOf(w \o GrepFeed(k, line)[2], GrepFeed(k, line)[1])
        /\ w \o GrepFeed(k, line)[2] \in W
    BY EmitOne
  <2>4. GrepFeed(k, line)[1] \in Greps(P, L)
    BY FeedTyped
  <2>5. \A a \in W, b \in Greps(P, L) : PipeOf(a, b) \in V
    OBVIOUS
  <2>6. step(v, i) = PipeOf(w \o GrepFeed(k, line)[2], GrepFeed(k, line)[1])
    BY <2>1, <2>2, <2>3
  <2> HIDE DEF V, W, step
  <2>7. PipeOf(w \o GrepFeed(k, line)[2], GrepFeed(k, line)[1]) \in V
    BY <2>3, <2>4, <2>5, Zenon
  <2> QED BY <2>1, <2>2, <2>6, <2>7
<1> HIDE DEF n, V, base, step
<1>5. ASSUME NEW v \in V, NEW i \in 1..n PROVE F[i][v] = step(v, i) /\ F[i][v] \in V
  BY <1>4
<1> HIDE DEF F
<1>6. PICK f : /\ f \in [SUBSET (1..n) -> V] /\ f[{}] = base
               /\ \A x \in SUBSET (1..n) : x # {} => f[x] = F[Max(x)][f[x \ {Max(x)}]]
               /\ \A x \in SUBSET (1..n) : x # {} => Max(x) \in 1..n /\ x \ {Max(x)} \in SUBSET (1..n)
  <2>1. \A v \in V, i \in 1..n : F[i][v] \in V
    BY <1>5
  <2> QED BY <1>1, <1>3, <2>1, FoldExists
<1>7. Is(f)
  <2>1. ASSUME NEW x \in SUBSET (1..n), x # {} PROVE f[x] = step(f[x \ {Max(x)}], Max(x))
    <3>1. Max(x) \in 1..n /\ f[x \ {Max(x)}] \in V
      BY <1>6, <2>1
    <3> QED BY <1>5, <1>6, <2>1, <3>1
  <2> QED BY <1>6, <2>1
<1>8. Is(h)
  <2> HIDE DEF Is
  <2> QED BY <1>7
<1> HIDE DEF h
<1> DEFINE t == [k \in 0..n |-> h[1..k]]
<1>9. t[0] = base /\ t[n] = h[1..n]
  <2>1. 1..0 = {} /\ 0 \in 0..n /\ n \in 0..n
    BY <1>1
  <2>2. h[{}] = base
    BY <1>8
  <2> QED BY <2>1, <2>2
<1>10. ASSUME NEW k \in 1..n PROVE t[k] = step(t[k - 1], k)
  <2>1. k \in 0..n /\ k - 1 \in 0..n
    BY <1>1
  <2>2. h[1..k] = step(h[(1..k) \ {Max(1..k)}], Max(1..k))
    BY <1>1, <1>8, FirstNumbers
  <2>3. h[1..k] = step(h[1..(k - 1)], k)
    BY <1>1, <2>2, FirstNumbers
  <2> QED BY <2>1, <2>3
<1> HIDE DEF t
<1> DEFINE Q == {k \in 0..n : t[k] \in V}
<1>11. 0 \in Q
  BY <1>1, <1>3, <1>9
<1>12. ASSUME NEW k \in 1..n, k - 1 \in Q PROVE k \in Q
  <2>1. k \in 0..n
    BY <1>1
  <2> QED BY <1>4, <1>10, <1>12, <2>1
<1> HIDE DEF Q
<1>13. \A k \in 0..n : k \in Q
  BY <1>1, <1>11, <1>12, Induct
<1>14. \A k \in 0..n : t[k] \in V
  BY <1>13 DEF Q
<1> DEFINE gs == [k \in 0..n |-> t[k].stages[1]]
           outs == [k \in 0..n |-> t[k].inner]
           shown == [k \in 1..n |-> GrepFeed(gs[k - 1], lines[k])[2]]
<1>15. \A w, k : PipeOf(w, k).inner = w /\ PipeOf(w, k).stages[1] = k
  BY DEF PipeOf
<1>16. \A k \in 0..n : gs[k] = t[k].stages[1] /\ outs[k] = t[k].inner
  OBVIOUS
<1>17. \A k \in 1..n : shown[k] = GrepFeed(gs[k - 1], lines[k])[2]
  OBVIOUS
<1> HIDE DEF gs, outs, shown
<1>18. gs[0] = g /\ outs[0] = <<>>
  <2>1. 0 \in 0..n /\ t[0] = PipeOf(<<>>, g)
    BY <1>1, <1>9 DEF base
  <2> QED BY <1>15, <1>16, <2>1
<1>19. ASSUME NEW k \in 1..n
       PROVE  /\ gs[k] = GrepFeed(gs[k - 1], lines[k])[1]
              /\ outs[k] = outs[k - 1] \o shown[k]
  <2>1. k \in 0..n /\ k - 1 \in 0..n
    BY <1>1
  <2>2. PICK v \in V : v = t[k - 1]
    BY <1>14, <2>1
  <2>3. PICK w \in W, j \in Greps(P, L) :
          /\ v = PipeOf(w, j)
          /\ step(v, k) = PipeOf(w \o GrepFeed(j, lines[k])[2], GrepFeed(j, lines[k])[1])
    BY <1>4
  <2>4. t[k] = PipeOf(w \o GrepFeed(j, lines[k])[2], GrepFeed(j, lines[k])[1])
    BY <1>10, <2>2, <2>3
  <2>5. gs[k - 1] = j /\ outs[k - 1] = w
    <3>1. v.inner = w /\ v.stages[1] = j
      BY <1>15, <2>3
    <3> QED BY <1>16, <2>1, <2>2, <3>1
  <2>6. PICK a, b : a = w \o GrepFeed(j, lines[k])[2] /\ b = GrepFeed(j, lines[k])[1] /\ t[k] = PipeOf(a, b)
    BY <2>4
  <2>7. gs[k] = b /\ outs[k] = a
    <3>1. t[k].inner = a /\ t[k].stages[1] = b
      <4>1. PipeOf(a, b).inner = a /\ PipeOf(a, b).stages[1] = b
        BY <1>15
      <4> QED BY <2>6, <4>1, Zenon
    <3> QED BY <1>16, <2>1, <3>1
  <2> QED BY <1>17, <2>5, <2>6, <2>7
<1>20. t[n] = PipeOf(outs[n], gs[n])
  <2>1. n \in 0..n
    BY <1>1
  <2>2. PICK w, j : t[n] = PipeOf(w, j)
    BY <1>14, <2>1 DEF V
  <2> QED BY <1>15, <1>16, <2>1, <2>2
<1>21. Feeding(gs, shown, outs, g, lines)
  BY <1>17, <1>18, <1>19 DEF Feeding, n
<1> QED BY <1>2, <1>9, <1>20, <1>21 DEF n

\* A pipeline whose one filter is a grep gives, line by line and in the end,
\* what the grep's specification says of all the lines at once.
THEOREM PipelineGreps ==
  ASSUME NEW P, NEW L, NEW g \in Greps(P, L), Fresh(g), NEW lines \in Seq(L)
  PROVE  PipelineFinish(FoldLeft(emit_line, PipeOf(<<>>, g), lines)).inner = GrepBatch(g, lines)
<1>1. PICK gs, shown, outs :
        /\ Feeding(gs, shown, outs, g, lines)
        /\ FoldLeft(emit_line, PipeOf(<<>>, g), lines) = PipeOf(outs[Len(lines)], gs[Len(lines)])
  BY EmitEach
<1>2. gs[Len(lines)] \in Greps(P, L)
  <2>1. \A k \in 0..Len(lines) : gs[k] \in Greps(P, L)
    BY <1>1, FedEach
  <2>2. Len(lines) \in 0..Len(lines)
    OBVIOUS
  <2> QED BY <2>1, <2>2
<1>3. PICK out, h : h \in Greps(P, L) /\ out = outs[Len(lines)] /\ h = gs[Len(lines)]
  BY <1>2
<1>4. PipelineFinish(PipeOf(out, h)).inner = out \o GrepFinish(h)
  BY <1>3, FinishOne
<1>5. out \o GrepFinish(h) = GrepBatch(g, lines)
  BY <1>1, <1>3, GrepShows
<1> QED BY <1>1, <1>3, <1>4, <1>5

\* The folds of the parser, step by step: over the tokens of a grep,
LEMMA ParseChain ==
  ASSUME NEW S, NEW xs \in Seq(S), NEW start
  PROVE  \E t : /\ t[0] = start /\ \A k \in 1..Len(xs) : t[k] = ParseToken(t[k - 1], xs[k])
               /\ FoldLeft(ParseToken, start, xs) = t[Len(xs)]
<1> DEFINE n == Len(xs)
           step(v, i) == ParseToken(v, xs[i])
           On(it, k) == it = [x \in SUBSET (1..k) |-> IF x = {} THEN start ELSE step(it[x \ {Max(x)}], Max(x))]
           h == CHOOSE it : On(it, n)
<1>1. n \in Nat
  OBVIOUS
<1>2. FoldLeft(ParseToken, start, xs) = h[1..n]
  <2>1. DOMAIN xs = 1..n
    OBVIOUS
  <2> HIDE DEF n
  <2> QED BY <2>1 DEF FoldLeft, MapThenFoldSet
<1> HIDE DEF n, step
<1>3. \E f : On(f, 0)
  <2>1. On([x \in SUBSET (1..0) |-> start], 0)
    BY OneElement
  <2> HIDE DEF On
  <2> QED BY <2>1
<1>4. ASSUME NEW k \in 1..n, NEW f, On(f, k - 1) PROVE \E e : On(e, k)
  <2> DEFINE e == [x \in SUBSET (1..k) |-> IF k \in x THEN step(f[x \ {k}], k) ELSE f[x]]
  <2>1. \A x \in SUBSET (1..k) : k \notin x => x \in SUBSET (1..(k - 1))
    BY <1>1
  <2>2. \A x \in SUBSET (1..(k - 1)) : f[x] = IF x = {} THEN start ELSE step(f[x \ {Max(x)}], Max(x))
    BY <1>4
  <2>3. \A x \in SUBSET (1..k) : k \notin x => e[x] = f[x]
    OBVIOUS
  <2>4. \A x \in SUBSET (1..k) : k \in x => e[x] = step(f[x \ {k}], k)
    OBVIOUS
  <2>5. e = [x \in SUBSET (1..k) |-> e[x]]
    OBVIOUS
  <2> HIDE DEF e
  <2>6. ASSUME NEW x \in SUBSET (1..k) PROVE e[x] = IF x = {} THEN start ELSE step(e[x \ {Max(x)}], Max(x))
    <3>1. CASE k \in x
      <4>1. Max(x) = k
        <5>1. k \in Nat /\ x \subseteq 1..k
          BY <1>1
        <5> QED BY <3>1, <5>1, MaxOf
      <4>2. x \ {k} \in SUBSET (1..k) /\ k \notin x \ {k} /\ x # {}
        BY <3>1
      <4>3. e[x \ {k}] = f[x \ {k}]
        BY <2>3, <4>2
      <4> QED BY <2>4, <3>1, <4>1, <4>2, <4>3
    <3>2. CASE k \notin x
      <4>1. e[x] = f[x] /\ x \in SUBSET (1..(k - 1))
        BY <2>1, <2>3, <3>2
      <4>2. x \ {Max(x)} \in SUBSET (1..k) /\ k \notin x \ {Max(x)}
        BY <3>2
      <4>3. e[x \ {Max(x)}] = f[x \ {Max(x)}]
        BY <2>3, <4>2
      <4> QED BY <2>2, <4>1, <4>3
    <3> QED BY <3>1, <3>2
  <2>7. On(e, k)
    BY <2>5, <2>6
  <2> HIDE DEF On
  <2> QED BY <2>7
<1> DEFINE Q == {k \in 0..n : \E f : On(f, k)}
<1>5. \A k \in 0..n : k \in Q
  <2> HIDE DEF On
  <2>1. 0 \in Q
    BY <1>1, <1>3
  <2>2. ASSUME NEW k \in 1..n, k - 1 \in Q PROVE k \in Q
    <3>1. k \in 0..n
      BY <1>1
    <3> QED BY <1>4, <2>2, <3>1
  <2> HIDE DEF Q
  <2> QED BY <1>1, <2>1, <2>2, Induct
<1>6. On(h, n)
  <2> HIDE DEF On
  <2>1. n \in 0..n
    BY <1>1
  <2>2. \E f : On(f, n)
    BY <1>5, <2>1
  <2> QED BY <2>2
<1> HIDE DEF h, Q
<1> DEFINE t == [k \in 0..n |-> h[1..k]]
<1>7. t[0] = start /\ t[n] = h[1..n]
  <2>1. 1..0 = {} /\ 0 \in 0..n /\ n \in 0..n
    BY <1>1
  <2>2. h[{}] = start
    BY <1>6
  <2> QED BY <2>1, <2>2
<1>8. ASSUME NEW k \in 1..n PROVE t[k] = step(t[k - 1], k)
  <2>1. k \in 0..n /\ k - 1 \in 0..n
    BY <1>1
  <2>2. h[1..k] = step(h[(1..k) \ {Max(1..k)}], Max(1..k))
    BY <1>1, <1>6, FirstNumbers
  <2>3. h[1..k] = step(h[1..(k - 1)], k)
    BY <1>1, <2>2, FirstNumbers
  <2> QED BY <2>1, <2>3
<1> HIDE DEF t
<1>9. \A k \in 1..n : t[k] = step(t[k - 1], k)
  BY <1>8
<1> QED BY <1>2, <1>7, <1>9 DEF n, step

\* and over the switches that are spelt in one token.
LEMMA SwitchChain ==
  ASSUME NEW S, NEW xs \in Seq(S), NEW start
  PROVE  \E t : /\ t[0] = start /\ \A k \in 1..Len(xs) : t[k] = Switch(t[k - 1], xs[k])
               /\ FoldLeft(Switch, start, xs) = t[Len(xs)]
<1> DEFINE n == Len(xs)
           step(v, i) == Switch(v, xs[i])
           On(it, k) == it = [x \in SUBSET (1..k) |-> IF x = {} THEN start ELSE step(it[x \ {Max(x)}], Max(x))]
           h == CHOOSE it : On(it, n)
<1>1. n \in Nat
  OBVIOUS
<1>2. FoldLeft(Switch, start, xs) = h[1..n]
  <2>1. DOMAIN xs = 1..n
    OBVIOUS
  <2> HIDE DEF n
  <2> QED BY <2>1 DEF FoldLeft, MapThenFoldSet
<1> HIDE DEF n, step
<1>3. \E f : On(f, 0)
  <2>1. On([x \in SUBSET (1..0) |-> start], 0)
    BY OneElement
  <2> HIDE DEF On
  <2> QED BY <2>1
<1>4. ASSUME NEW k \in 1..n, NEW f, On(f, k - 1) PROVE \E e : On(e, k)
  <2> DEFINE e == [x \in SUBSET (1..k) |-> IF k \in x THEN step(f[x \ {k}], k) ELSE f[x]]
  <2>1. \A x \in SUBSET (1..k) : k \notin x => x \in SUBSET (1..(k - 1))
    BY <1>1
  <2>2. \A x \in SUBSET (1..(k - 1)) : f[x] = IF x = {} THEN start ELSE step(f[x \ {Max(x)}], Max(x))
    BY <1>4
  <2>3. \A x \in SUBSET (1..k) : k \notin x => e[x] = f[x]
    OBVIOUS
  <2>4. \A x \in SUBSET (1..k) : k \in x => e[x] = step(f[x \ {k}], k)
    OBVIOUS
  <2>5. e = [x \in SUBSET (1..k) |-> e[x]]
    OBVIOUS
  <2> HIDE DEF e
  <2>6. ASSUME NEW x \in SUBSET (1..k) PROVE e[x] = IF x = {} THEN start ELSE step(e[x \ {Max(x)}], Max(x))
    <3>1. CASE k \in x
      <4>1. Max(x) = k
        <5>1. k \in Nat /\ x \subseteq 1..k
          BY <1>1
        <5> QED BY <3>1, <5>1, MaxOf
      <4>2. x \ {k} \in SUBSET (1..k) /\ k \notin x \ {k} /\ x # {}
        BY <3>1
      <4>3. e[x \ {k}] = f[x \ {k}]
        BY <2>3, <4>2
      <4> QED BY <2>4, <3>1, <4>1, <4>2, <4>3
    <3>2. CASE k \notin x
      <4>1. e[x] = f[x] /\ x \in SUBSET (1..(k - 1))
        BY <2>1, <2>3, <3>2
      <4>2. x \ {Max(x)} \in SUBSET (1..k) /\ k \notin x \ {Max(x)}
        BY <3>2
      <4>3. e[x \ {Max(x)}] = f[x \ {Max(x)}]
        BY <2>3, <4>2
      <4> QED BY <2>2, <4>1, <4>3
    <3> QED BY <3>1, <3>2
  <2>7. On(e, k)
    BY <2>5, <2>6
  <2> HIDE DEF On
  <2> QED BY <2>7
<1> DEFINE Q == {k \in 0..n : \E f : On(f, k)}
<1>5. \A k \in 0..n : k \in Q
  <2> HIDE DEF On
  <2>1. 0 \in Q
    BY <1>1, <1>3
  <2>2. ASSUME NEW k \in 1..n, k - 1 \in Q PROVE k \in Q
    <3>1. k \in 0..n
      BY <1>1
    <3> QED BY <1>4, <2>2, <3>1
  <2> HIDE DEF Q
  <2> QED BY <1>1, <2>1, <2>2, Induct
<1>6. On(h, n)
  <2> HIDE DEF On
  <2>1. n \in 0..n
    BY <1>1
  <2>2. \E f : On(f, n)
    BY <1>5, <2>1
  <2> QED BY <2>2
<1> HIDE DEF h, Q
<1> DEFINE t == [k \in 0..n |-> h[1..k]]
<1>7. t[0] = start /\ t[n] = h[1..n]
  <2>1. 1..0 = {} /\ 0 \in 0..n /\ n \in 0..n
    BY <1>1
  <2>2. h[{}] = start
    BY <1>6
  <2> QED BY <2>1, <2>2
<1>8. ASSUME NEW k \in 1..n PROVE t[k] = step(t[k - 1], k)
  <2>1. k \in 0..n /\ k - 1 \in 0..n
    BY <1>1
  <2>2. h[1..k] = step(h[(1..k) \ {Max(1..k)}], Max(1..k))
    BY <1>1, <1>6, FirstNumbers
  <2>3. h[1..k] = step(h[1..(k - 1)], k)
    BY <1>1, <2>2, FirstNumbers
  <2> QED BY <2>1, <2>3
<1> HIDE DEF t
<1>9. \A k \in 1..n : t[k] = step(t[k - 1], k)
  BY <1>8
<1> QED BY <1>2, <1>7, <1>9 DEF n, step

\* Where a parse is: the grep so far, what takes the next token, the bar.
Parsing(g, want, bar) == [g |-> g, want |-> want, bar |-> bar]
\* A grep asked for: `m` hits, `a` and `b` lines of context, and switches.
AskFor(text, inv, number, cnt, m, b, a) ==
  [kind |-> "grep", pattern |-> text, ignore_case |-> FALSE, invert |-> inv, line_number |-> number,
   count_only |-> cnt, max_count |-> m, before |-> b, after |-> a,
   line_no |-> 0, hits |-> 0, pending_after |-> 0, before_buf |-> <<>>]

\* The words of the parse are different words.
LEMMA StringsApart ==
  /\ "none" # "next" /\ "none" # "done" /\ "next" # "done" /\ 0 # 1 /\ 0 # 2 /\ 1 # 2
  /\ "max-count" # "" /\ "before-context" # "" /\ "after-context" # "" /\ "invert-match" # ""
  /\ "count" # "" /\ "line-number" # ""
  /\ "invert-match" \notin Valued /\ "count" \notin Valued /\ "line-number" \notin Valued
  /\ "max-count" \in Valued /\ "before-context" \in Valued /\ "after-context" \in Valued
BY DEF Valued

\* A grep is not an error.
LEMMA AskedNotFailed ==
  ASSUME NEW g, g.kind = "grep" PROVE g # Failed
<1>1. Failed.kind = "err" /\ "err" # "grep"
  BY DEF Failed
<1> QED BY <1>1

AtEdits(acc, g, want, bar, x, y) ==
  /\ [acc EXCEPT !.g = x] = Parsing(x, want, bar) /\ [acc EXCEPT !.want = x] = Parsing(g, x, bar)
  /\ [acc EXCEPT !.bar = x, !.g = y] = Parsing(y, want, x)

\* Where the parse is after an assignment.
LEMMA AtEdited ==
  ASSUME NEW g, NEW want, NEW bar, NEW acc, acc = Parsing(g, want, bar), NEW x, NEW y
  PROVE  AtEdits(acc, g, want, bar, x, y)
<1>1. acc = [g |-> g, want |-> want, bar |-> bar]
  BY DEF Parsing
<1>3. [acc EXCEPT !.g = x] = [g |-> x, want |-> want, bar |-> bar]
  BY <1>1
<1>4. [acc EXCEPT !.want = x] = [g |-> g, want |-> x, bar |-> bar]
  BY <1>1
<1>5. [acc EXCEPT !.bar = x] = [g |-> g, want |-> want, bar |-> x]
  BY <1>1
<1>6. [acc EXCEPT !.bar = x, !.g = y] = [g |-> y, want |-> want, bar |-> x]
  <2>1. PICK mid : mid = [acc EXCEPT !.bar = x]
    OBVIOUS
  <2>2. mid = [g |-> g, want |-> want, bar |-> x]
    BY <1>5, <2>1
  <2>3. [acc EXCEPT !.bar = x, !.g = y] = [mid EXCEPT !.g = y]
    BY <2>1
  <2>4. [mid EXCEPT !.g = y] = [g |-> y, want |-> want, bar |-> x]
    BY <2>2
  <2> QED BY <2>3, <2>4
<1> QED BY <1>3, <1>4, <1>6 DEF Parsing, AtEdits

\* What a token does to the parse, by its kind.
LEMMA ValueToken ==
  ASSUME NEW g, g.kind = "grep", NEW want, want # "", NEW x, NEW number
  PROVE  ParseToken(Parsing(g, want, "none"), Word(x, number)) = Parsing(SetTo(g, want, number), "", "none")
<1>1. PICK acc, t : acc = Parsing(g, want, "none") /\ t = Word(x, number)
  BY Zenon
<1>2. acc.g = g /\ acc.want = want /\ acc.bar = "none" /\ t.dash = 0 /\ t.num = number /\ g # Failed
  BY <1>1, AskedNotFailed, Zenon DEF Parsing, Word
<1>3. ParseToken(acc, t) = [acc EXCEPT !.g = SetTo(@, acc.want, t.num), !.want = ""]
  BY <1>2, StringsApart, Zenon DEF ParseToken
<1>4. PICK s : s = SetTo(g, want, number)
  BY Zenon
<1>5. ParseToken(acc, t) = [acc EXCEPT !.g = s, !.want = ""]
  BY <1>2, <1>3, <1>4, Zenon
<1> QED BY <1>1, <1>4, <1>5, Zenon DEF Parsing

\* A word where no value is awaited is the pattern, the first of them.
LEMMA PatternToken ==
  ASSUME NEW g, g.kind = "grep", NEW x, NEW number, NEW p, p = IF g.pattern = <<>> THEN x ELSE g.pattern
  PROVE  /\ ParseToken(Parsing(g, "", "none"), Word(x, number)) = Parsing([g EXCEPT !.pattern = p], "", "none")
         /\ ParseToken(Parsing(g, "", "next"), Word(x, number)) = Parsing([g EXCEPT !.pattern = p], "", "done")
<1>1. g # Failed
  BY AskedNotFailed
<1>2. PICK t : t = Word(x, number) /\ t.dash = 0 /\ t.text = x
  <2>1. Word(x, number).dash = 0 /\ Word(x, number).text = x
    BY DEF Word
  <2> QED BY <2>1
<1>3. PICK now : now = [g EXCEPT !.pattern = p]
  OBVIOUS
<1>4. ParseToken(Parsing(g, "", "none"), t) = Parsing(now, "", "none")
  <2>1. PICK acc : acc = Parsing(g, "", "none")
    BY Zenon
  <2>2. acc.g = g /\ acc.want = "" /\ acc.bar = "none"
    BY <2>1, Zenon DEF Parsing
  <2>3. ParseToken(acc, t) = [acc EXCEPT !.g.pattern = IF @ = <<>> THEN t.text ELSE @]
    BY <1>1, <1>2, <2>2, StringsApart, Zenon DEF ParseToken
  <2>4. [acc EXCEPT !.g.pattern = IF @ = <<>> THEN t.text ELSE @] = [acc EXCEPT !.g = now]
    <3>1. PICK q : q = IF acc.g.pattern = <<>> THEN t.text ELSE acc.g.pattern
      OBVIOUS
    <3>2. q = p
      BY <1>2, <2>2, <3>1, Zenon
    <3>3. [acc EXCEPT !.g.pattern = IF @ = <<>> THEN t.text ELSE @] = [acc EXCEPT !.g.pattern = q]
      BY <3>1
    <3>4. [acc EXCEPT !.g.pattern = q] = [acc EXCEPT !.g = [acc.g EXCEPT !.pattern = q]]
      OBVIOUS
    <3> QED BY <1>3, <2>2, <3>2, <3>3, <3>4, Zenon
  <2>5. [acc EXCEPT !.g = now] = Parsing(now, "", "none")
    <3>1. AtEdits(acc, g, "", "none", now, now)
      BY <2>1, AtEdited, Zenon
    <3> QED BY <3>1, Zenon DEF AtEdits
  <2> QED BY <2>1, <2>3, <2>4, <2>5, Zenon
<1>5. ParseToken(Parsing(g, "", "next"), t) = Parsing(now, "", "done")
  <2>1. PICK acc : acc = Parsing(g, "", "next")
    BY Zenon
  <2>2. acc.g = g /\ acc.want = "" /\ acc.bar = "next"
    BY <2>1, Zenon DEF Parsing
  <2>3. ParseToken(acc, t) = [acc EXCEPT !.bar = "done", !.g.pattern = IF @ = <<>> THEN t.text ELSE @]
    BY <1>1, <1>2, <2>2, StringsApart, Zenon DEF ParseToken
  <2>4. [acc EXCEPT !.bar = "done", !.g.pattern = IF @ = <<>> THEN t.text ELSE @] = [acc EXCEPT !.bar = "done", !.g = now]
    <3>1. PICK q : q = IF acc.g.pattern = <<>> THEN t.text ELSE acc.g.pattern
      OBVIOUS
    <3>2. q = p
      BY <1>2, <2>2, <3>1, Zenon
    <3>3. [acc EXCEPT !.bar = "done", !.g.pattern = IF @ = <<>> THEN t.text ELSE @] = [acc EXCEPT !.bar = "done", !.g.pattern = q]
      BY <3>1
    <3>4. [acc EXCEPT !.bar = "done", !.g.pattern = q] = [acc EXCEPT !.bar = "done", !.g = [acc.g EXCEPT !.pattern = q]]
      OBVIOUS
    <3> QED BY <1>3, <2>2, <3>2, <3>3, <3>4, Zenon
  <2>5. [acc EXCEPT !.bar = "done", !.g = now] = Parsing(now, "", "done")
    <3>1. AtEdits(acc, g, "", "next", "done", now)
      BY <2>1, AtEdited, Zenon
    <3> QED BY <3>1, Zenon DEF AtEdits
  <2> QED BY <2>1, <2>3, <2>4, <2>5, Zenon
<1> QED BY <1>2, <1>3, <1>4, <1>5, Zenon

\* A long option switches, or awaits its value.
LEMMA LongToken ==
  ASSUME NEW g, g.kind = "grep", NEW name, name # ""
  PROVE  ParseToken(Parsing(g, "", "none"), Long(name)) =
           IF name \in Valued THEN Parsing(g, name, "none") ELSE Parsing(Switch(g, name), "", "none")
<1>1. PICK acc, t : acc = Parsing(g, "", "none") /\ t = Long(name)
  BY Zenon
<1>2. acc.g = g /\ acc.want = "" /\ acc.bar = "none" /\ t.dash = 2 /\ t.text = name /\ g # Failed
  BY <1>1, AskedNotFailed, Zenon DEF Parsing, Long
<1>3. ParseToken(acc, t) = IF t.text \in Valued THEN [acc EXCEPT !.want = t.text]
                           ELSE [acc EXCEPT !.g = Switch(@, t.text)]
  BY <1>2, StringsApart, Zenon DEF ParseToken
<1>4. PICK s : s = Switch(g, name)
  BY Zenon
<1>5. ParseToken(acc, t) = IF name \in Valued THEN [acc EXCEPT !.want = name] ELSE [acc EXCEPT !.g = s]
  BY <1>2, <1>3, <1>4, Zenon
<1>6. [acc EXCEPT !.want = name] = Parsing(g, name, "none") /\ [acc EXCEPT !.g = s] = Parsing(s, "", "none")
  <2>1. AtEdits(acc, g, "", "none", name, s) /\ AtEdits(acc, g, "", "none", s, s)
    BY <1>1, AtEdited, Zenon
  <2> QED BY <2>1, Zenon DEF AtEdits
<1> QED BY <1>1, <1>4, <1>5, <1>6, Zenon

\* `--` announces the pattern.
LEMMA BarToken ==
  ASSUME NEW g, g.kind = "grep"
  PROVE  ParseToken(Parsing(g, "", "none"), Long("")) = Parsing(g, "", "next")
<1>1. PICK acc, t : acc = Parsing(g, "", "none") /\ t = Long("")
  BY Zenon
<1>2. acc.g = g /\ acc.want = "" /\ acc.bar = "none" /\ t.dash = 2 /\ t.text = "" /\ g # Failed
  BY <1>1, AskedNotFailed, Zenon DEF Parsing, Long
<1>3. ParseToken(acc, t) = [acc EXCEPT !.bar = "next"]
  BY <1>2, StringsApart, Zenon DEF ParseToken
<1> QED BY <1>1, <1>3, Zenon DEF Parsing

\* Short options are letters.
LEMMA ShortToken ==
  ASSUME NEW g, g.kind = "grep", NEW letters, NEW number
  PROVE  ParseToken(Parsing(g, "", "none"), Short(letters, number)) = Letters(Parsing(g, "", "none"), Short(letters, number))
<1>1. PICK acc, t : acc = Parsing(g, "", "none") /\ t = Short(letters, number)
  BY Zenon
<1>2. acc.g = g /\ acc.want = "" /\ acc.bar = "none" /\ t.dash = 1 /\ g # Failed
  BY <1>1, AskedNotFailed, Zenon DEF Parsing, Short
<1>3. ParseToken(acc, t) = Letters(acc, t)
  BY <1>2, StringsApart, Zenon DEF ParseToken
<1> QED BY <1>1, <1>3, Zenon

GrepOf(k, p, i, v, n, c, m, b, a, l, h, w, f) ==
  [kind |-> k, pattern |-> p, ignore_case |-> i, invert |-> v, line_number |-> n,
   count_only |-> c, max_count |-> m, before |-> b, after |-> a,
   line_no |-> l, hits |-> h, pending_after |-> w, before_buf |-> f]

GrepEdits(g, k, p, i, v, n, c, m, b, a, l, h, w, f, x) ==
  /\ [g EXCEPT !.pattern = x] = GrepOf(k, x, i, v, n, c, m, b, a, l, h, w, f)
  /\ [g EXCEPT !.invert = x] = GrepOf(k, p, i, x, n, c, m, b, a, l, h, w, f)
  /\ [g EXCEPT !.line_number = x] = GrepOf(k, p, i, v, x, c, m, b, a, l, h, w, f)
  /\ [g EXCEPT !.count_only = x] = GrepOf(k, p, i, v, n, x, m, b, a, l, h, w, f)
  /\ [g EXCEPT !.max_count = x] = GrepOf(k, p, i, v, n, c, x, b, a, l, h, w, f)
  /\ [g EXCEPT !.before = x] = GrepOf(k, p, i, v, n, c, m, x, a, l, h, w, f)
  /\ [g EXCEPT !.after = x] = GrepOf(k, p, i, v, n, c, m, b, x, l, h, w, f)

\* An assignment to one field leaves the others.
LEMMA Edited ==
  ASSUME NEW k, NEW p, NEW i, NEW v, NEW n, NEW c, NEW m, NEW b, NEW a, NEW l, NEW h, NEW w, NEW f, NEW x,
         NEW g, g = GrepOf(k, p, i, v, n, c, m, b, a, l, h, w, f)
  PROVE  GrepEdits(g, k, p, i, v, n, c, m, b, a, l, h, w, f, x)
<1>1. [g EXCEPT !.pattern = x] = GrepOf(k, x, i, v, n, c, m, b, a, l, h, w, f)
  BY DEF GrepOf
<1>2. [g EXCEPT !.invert = x] = GrepOf(k, p, i, x, n, c, m, b, a, l, h, w, f)
  BY DEF GrepOf
<1>3. [g EXCEPT !.line_number = x] = GrepOf(k, p, i, v, x, c, m, b, a, l, h, w, f)
  BY DEF GrepOf
<1>4. [g EXCEPT !.count_only = x] = GrepOf(k, p, i, v, n, x, m, b, a, l, h, w, f)
  BY DEF GrepOf
<1>5. [g EXCEPT !.max_count = x] = GrepOf(k, p, i, v, n, c, x, b, a, l, h, w, f)
  BY DEF GrepOf
<1>6. [g EXCEPT !.before = x] = GrepOf(k, p, i, v, n, c, m, x, a, l, h, w, f)
  BY DEF GrepOf
<1>7. [g EXCEPT !.after = x] = GrepOf(k, p, i, v, n, c, m, b, x, l, h, w, f)
  BY DEF GrepOf
<1> QED BY <1>1, <1>2, <1>3, <1>4, <1>5, <1>6, <1>7 DEF GrepEdits

\* The same of a grep asked for.
AskEdits(g, p, v, n, c, m, b, a, x) ==
  /\ [g EXCEPT !.pattern = x] = AskFor(x, v, n, c, m, b, a)
  /\ [g EXCEPT !.invert = x] = AskFor(p, x, n, c, m, b, a)
  /\ [g EXCEPT !.line_number = x] = AskFor(p, v, x, c, m, b, a)
  /\ [g EXCEPT !.count_only = x] = AskFor(p, v, n, x, m, b, a)
  /\ [g EXCEPT !.max_count = x] = AskFor(p, v, n, c, x, b, a)
  /\ [g EXCEPT !.before = x] = AskFor(p, v, n, c, m, x, a)
  /\ [g EXCEPT !.after = x] = AskFor(p, v, n, c, m, b, x)

\* As above, by the options asked for.
LEMMA AskEdited ==
  ASSUME NEW p, NEW v, NEW n, NEW c, NEW m, NEW b, NEW a, NEW x, NEW g, g = AskFor(p, v, n, c, m, b, a)
  PROVE  AskEdits(g, p, v, n, c, m, b, a, x)
<1>1. PICK k, i, z, e : k = "grep" /\ i = FALSE /\ z = 0 /\ e = <<>>
  OBVIOUS
<1>2. \A p1, v1, n1, c1, m1, b1, a1 : AskFor(p1, v1, n1, c1, m1, b1, a1)
                                        = GrepOf(k, p1, i, v1, n1, c1, m1, b1, a1, z, z, z, e)
  BY <1>1, Zenon DEF AskFor, GrepOf
<1>3. g = GrepOf(k, p, i, v, n, c, m, b, a, z, z, z, e)
  BY <1>2
<1>4. GrepEdits(g, k, p, i, v, n, c, m, b, a, z, z, z, e, x)
  BY <1>3, Edited
<1> QED BY <1>2, <1>4, Zenon DEF GrepEdits, AskEdits

\* What a value sets,
LEMMA SetFields ==
  ASSUME NEW p, NEW v, NEW n, NEW c, NEW m, NEW b, NEW a, NEW x \in Nat
  PROVE  /\ SetTo(AskFor(p, v, n, c, m, b, a), "max-count", x) = AskFor(p, v, n, c, x, b, a)
         /\ SetTo(AskFor(p, v, n, c, m, b, a), "before-context", x) = AskFor(p, v, n, c, m, x, a)
         /\ SetTo(AskFor(p, v, n, c, m, b, a), "after-context", x) = AskFor(p, v, n, c, m, b, x)
<1>1. x # -1
  OBVIOUS
<1>2. PICK g : g = AskFor(p, v, n, c, m, b, a)
  OBVIOUS
<1>3. /\ SetTo(g, "max-count", x) = [g EXCEPT !.max_count = x]
      /\ SetTo(g, "before-context", x) = [g EXCEPT !.before = x]
      /\ SetTo(g, "after-context", x) = [g EXCEPT !.after = x]
  BY <1>1 DEF SetTo
<1>4. /\ [g EXCEPT !.max_count = x] = AskFor(p, v, n, c, x, b, a)
      /\ [g EXCEPT !.before = x] = AskFor(p, v, n, c, m, x, a)
      /\ [g EXCEPT !.after = x] = AskFor(p, v, n, c, m, b, x)
  <2>1. AskEdits(g, p, v, n, c, m, b, a, x)
    BY <1>2, AskEdited
  <2> QED BY <2>1, Zenon DEF AskEdits
<1> QED BY <1>2, <1>3, <1>4, Zenon

\* What a grep starts with and what its switches set, as names.
On == TRUE
Off == FALSE
Zero == 0
NoText == <<>>

\* and what a switch does.
LEMMA SwitchFields ==
  ASSUME NEW p, NEW v, NEW n, NEW c, NEW m, NEW b, NEW a
  PROVE  /\ Switch(AskFor(p, v, n, c, m, b, a), "invert-match") = AskFor(p, On, n, c, m, b, a)
         /\ Switch(AskFor(p, v, n, c, m, b, a), "line-number") = AskFor(p, v, On, c, m, b, a)
         /\ Switch(AskFor(p, v, n, c, m, b, a), "count") = AskFor(p, v, n, On, m, b, a)
<1>1. PICK g : g = AskFor(p, v, n, c, m, b, a)
  OBVIOUS
<1>2. g # Failed
  <2>1. g.kind = "grep"
    BY <1>1 DEF AskFor
  <2> QED BY <2>1, AskedNotFailed
<1>3. /\ Switch(g, "invert-match") = [g EXCEPT !.invert = TRUE]
      /\ Switch(g, "line-number") = [g EXCEPT !.line_number = TRUE]
      /\ Switch(g, "count") = [g EXCEPT !.count_only = TRUE]
  BY <1>2 DEF Switch
<1>4. /\ Switch(g, "invert-match") = [g EXCEPT !.invert = On]
      /\ Switch(g, "line-number") = [g EXCEPT !.line_number = On]
      /\ Switch(g, "count") = [g EXCEPT !.count_only = On]
  BY <1>3, Zenon DEF On
<1>5. AskEdits(g, p, v, n, c, m, b, a, On)
  BY <1>1, AskEdited
<1> QED BY <1>1, <1>4, <1>5, Zenon DEF AskEdits

\* The names that letters stand for.
NamesOf(letters) ==
  [i \in 1..Len(letters) |-> IF letters[i] \in DOMAIN LongName THEN LongName[letters[i]] ELSE ""]

\* What is made of the names, cut at the first that takes a value.
CutAt(acc, name, cut, g, number) ==
  IF g = Failed \/ cut > Len(name) THEN [acc EXCEPT !.g = g]
  ELSE IF cut < Len(name) THEN [acc EXCEPT !.g = SetTo(g, name[cut], -1)]
  ELSE IF number # -1 THEN [acc EXCEPT !.g = SetTo(g, name[cut], number)]
  ELSE [acc EXCEPT !.g = g, !.want = name[cut]]
Named(acc, name, cut, number) == CutAt(acc, name, cut, FoldLeft(Switch, acc.g, SubSeq(name, 1, cut - 1)), number)
CutOf(name) == Min({Len(name) + 1} \cup {i \in 1..Len(name) : name[i] \in Valued})

LettersDo(g, letters, number, sw, name) ==
  Letters(Parsing(g, "", "none"), Short(letters, number)) =
    IF number # -1 THEN Parsing(SetTo(sw, name, number), "", "none") ELSE Parsing(sw, name, "none")

\* Switches and, last, an option that takes a value: glued or in the next token.
LEMMA LettersAre ==
  ASSUME NEW S, NEW letters \in Seq(S), NEW number, NEW g, NEW k \in Nat, k = Len(letters), k >= 1,
         NEW names, names = NamesOf(letters), names[k] \in Valued,
         \A i \in 1..(k - 1) : names[i] \notin Valued,
         NEW sw, sw = FoldLeft(Switch, g, SubSeq(names, 1, k - 1)), sw # Failed
  PROVE  LettersDo(g, letters, number, sw, names[k])
<1>1. PICK acc, t : acc = Parsing(g, "", "none") /\ t = Short(letters, number)
  BY Zenon
<1>2. acc.g = g /\ t.text = letters /\ t.num = number
  BY <1>1, Zenon DEF Parsing, Short
<1>3. names = [i \in 1..Len(t.text) |-> IF t.text[i] \in DOMAIN LongName THEN LongName[t.text[i]] ELSE ""]
  BY <1>2, Zenon DEF NamesOf
<1>4. Len(names) = k
  <2>1. names = [i \in 1..k |-> IF letters[i] \in DOMAIN LongName THEN LongName[letters[i]] ELSE ""]
    BY Zenon DEF NamesOf
  <2>2. PICK e : e = [i \in 1..k |-> IF letters[i] \in DOMAIN LongName THEN LongName[letters[i]] ELSE ""]
    BY Zenon
  <2>3. DOMAIN e = 1..k
    BY <2>2, Zenon
  <2>4. names \in Seq({names[i] : i \in 1..k}) /\ DOMAIN names = 1..k
    <3>1. names = e
      BY <2>1, <2>2, Zenon
    <3>2. e = [i \in 1..k |-> e[i]]
      BY <2>2, Zenon
    <3> QED BY <2>3, <3>1, <3>2
  <2> QED BY <2>4
<1>5. Min({k + 1} \cup {i \in 1..k : names[i] \in Valued}) = k
  <2>1. {k + 1} \cup {i \in 1..k : names[i] \in Valued} = {k, k + 1}
    <3>1. \A i \in 1..k : names[i] \in Valued => i = k
      <4>1. \A i \in 1..k : i # k => i \in 1..(k - 1)
        OBVIOUS
      <4> QED BY <4>1
    <3>2. k \in 1..k
      OBVIOUS
    <3> QED BY <3>1, <3>2
  <2>2. PICK T : T = {k, k + 1}
    OBVIOUS
  <2>3. Min(T) = k
    <3>1. k \in T /\ \A y \in T : k <= y
      BY <2>2
    <3>2. Min(T) \in T /\ \A y \in T : Min(T) <= y
      BY <3>1 DEF Min
    <3> QED BY <2>2, <3>1, <3>2
  <2> QED BY <2>1, <2>2, <2>3
<1>6. PICK new : new = SetTo(sw, names[k], number)
  OBVIOUS
<1>7. Letters(acc, t) = IF number # -1 THEN [acc EXCEPT !.g = new] ELSE [acc EXCEPT !.g = sw, !.want = names[k]]
  <2>1. PICK cut : cut = k
    OBVIOUS
  <2>2. cut = CutOf(names)
    BY <1>4, <1>5, <2>1 DEF CutOf
  <2>3. sw = FoldLeft(Switch, acc.g, SubSeq(names, 1, cut - 1))
    BY <1>2, <2>1
  <2>4. ~(cut > Len(names)) /\ ~(cut < Len(names))
    BY <1>4, <2>1
  <2>5. Letters(acc, t) = Named(acc, NamesOf(t.text), CutOf(NamesOf(t.text)), t.num)
    BY Zenon DEF Letters, Named, CutAt, CutOf, NamesOf
  <2>6. NamesOf(t.text) = names
    BY <1>2
  <2>7. Letters(acc, t) = CutAt(acc, names, cut, sw, number)
    <3>1. Letters(acc, t) = Named(acc, names, cut, number)
      BY <1>2, <2>2, <2>5, <2>6
    <3> QED BY <2>3, <3>1 DEF Named
  <2> QED BY <1>6, <2>1, <2>4, <2>7 DEF CutAt
<1>8. [acc EXCEPT !.g = new] = Parsing(new, "", "none")
  <2>1. AtEdits(acc, g, "", "none", new, new)
    BY <1>1, AtEdited, Zenon
  <2> QED BY <2>1, Zenon DEF AtEdits
<1>9. [acc EXCEPT !.g = sw, !.want = names[k]] = Parsing(sw, names[k], "none")
  <2>1. PICK w, y, z : w = names[k] /\ y = "" /\ z = "none"
    BY Zenon
  <2>2. acc = [g |-> g, want |-> y, bar |-> z]
    BY <1>1, <2>1, Zenon DEF Parsing
  <2>3. PICK mid : mid = [acc EXCEPT !.g = sw]
    OBVIOUS
  <2>4. mid = [g |-> sw, want |-> y, bar |-> z]
    BY <2>2, <2>3
  <2>5. [acc EXCEPT !.g = sw, !.want = w] = [mid EXCEPT !.want = w]
    BY <2>3
  <2>6. [mid EXCEPT !.want = w] = [g |-> sw, want |-> w, bar |-> z]
    BY <2>4
  <2> QED BY <2>1, <2>5, <2>6, Zenon DEF Parsing
<1> QED BY <1>1, <1>6, <1>7, <1>8, <1>9, Zenon DEF LettersDo

\* No switches, and two.
LEMMA SwitchFew ==
  ASSUME NEW S, NEW xs \in Seq(S), NEW g
  PROVE  /\ Len(xs) = 0 => FoldLeft(Switch, g, xs) = g
         /\ Len(xs) = 2 => FoldLeft(Switch, g, xs) = Switch(Switch(g, xs[1]), xs[2])
<1>1. PICK t : /\ t[0] = g /\ \A k \in 1..Len(xs) : t[k] = Switch(t[k - 1], xs[k])
               /\ FoldLeft(Switch, g, xs) = t[Len(xs)]
  BY SwitchChain
<1>2. CASE Len(xs) = 0
  BY <1>1, <1>2
<1>3. CASE Len(xs) = 2
  <2>1. t[1] = Switch(t[0], xs[1]) /\ t[2] = Switch(t[1], xs[2])
    <3>1. 1 \in 1..Len(xs) /\ 2 \in 1..Len(xs) /\ 1 - 1 = 0 /\ 2 - 1 = 1
      BY <1>3
    <3>2. t[1] = Switch(t[1 - 1], xs[1]) /\ t[2] = Switch(t[2 - 1], xs[2])
      BY <1>1, <3>1
    <3> QED BY <3>1, <3>2
  <2> QED BY <1>1, <1>3, <2>1
<1> QED BY <1>2, <1>3

\* There are as many names as letters.
LEMMA NamesTyped ==
  ASSUME NEW S, NEW letters \in Seq(S)
  PROVE  \E T : NamesOf(letters) \in Seq(T) /\ Len(NamesOf(letters)) = Len(letters)
<1>1. PICK n \in Nat : n = Len(letters)
  OBVIOUS
<1>2. NamesOf(letters) = [i \in 1..n |-> IF letters[i] \in DOMAIN LongName THEN LongName[letters[i]] ELSE ""]
  BY <1>1 DEF NamesOf
<1>3. PICK e : e = [i \in 1..n |-> IF letters[i] \in DOMAIN LongName THEN LongName[letters[i]] ELSE ""]
  BY Zenon
<1>4. DOMAIN e = 1..n /\ e = [i \in 1..n |-> e[i]]
  BY <1>3, Zenon
<1>5. e \in Seq({e[i] : i \in 1..n}) /\ Len(e) = n
  BY <1>4
<1> QED BY <1>1, <1>2, <1>3, <1>5, Zenon

\* The letters that are used, and what they stand for.
LEMMA LettersMean ==
  /\ "m" \in DOMAIN LongName /\ LongName["m"] = "max-count"
  /\ "B" \in DOMAIN LongName /\ LongName["B"] = "before-context"
  /\ "A" \in DOMAIN LongName /\ LongName["A"] = "after-context"
  /\ "v" \in DOMAIN LongName /\ LongName["v"] = "invert-match"
  /\ "n" \in DOMAIN LongName /\ LongName["n"] = "line-number"
  /\ "c" \in DOMAIN LongName /\ LongName["c"] = "count"
BY DEF LongName

\* The name of each letter.
LEMMA NameAt ==
  ASSUME NEW S, NEW letters \in Seq(S), NEW i \in 1..Len(letters), NEW l, l = letters[i], l \in DOMAIN LongName
  PROVE  NamesOf(letters)[i] = LongName[l]
<1>1. NamesOf(letters)[i] = IF letters[i] \in DOMAIN LongName THEN LongName[letters[i]] ELSE ""
  BY DEF NamesOf
<1> QED BY <1>1

OneDoes(g, l, name, number) ==
  ParseToken(Parsing(g, "", "none"), Short(<<l>>, number)) =
    IF number # -1 THEN Parsing(SetTo(g, name, number), "", "none") ELSE Parsing(g, name, "none")
ThreeDo(g, l1, l2, l3, sw, name, number) ==
  ParseToken(Parsing(g, "", "none"), Short(<<l1, l2, l3>>, number)) = Parsing(SetTo(sw, name, number), "", "none")

\* One letter, an option that takes a value.
LEMMA OneLetter ==
  ASSUME NEW g, g.kind = "grep", NEW l, l \in DOMAIN LongName, NEW name, name = LongName[l], name \in Valued, NEW number
  PROVE  OneDoes(g, l, name, number)
<1>1. PICK letters : letters = <<l>>
  OBVIOUS
<1>2. letters \in Seq({l}) /\ Len(letters) = 1 /\ letters[1] = l
  BY <1>1
<1>3. PICK T, names : names = NamesOf(letters) /\ names \in Seq(T) /\ Len(names) = 1
  BY <1>2, NamesTyped
<1>4. names[1] = name
  <2>1. 1 \in 1..Len(letters)
    BY <1>2
  <2> QED BY <1>2, <1>3, <2>1, NameAt
<1>5. PICK k \in Nat : k = 1
  OBVIOUS
<1>6. g = FoldLeft(Switch, g, SubSeq(names, 1, k - 1))
  <2>1. PICK s : s = SubSeq(names, 1, k - 1)
    OBVIOUS
  <2>2. s \in Seq(T) /\ Len(s) = 0
    BY <1>3, <1>5, <2>1
  <2> QED BY <2>1, <2>2, SwitchFew
<1>7. g # Failed
  BY AskedNotFailed
<1>8. LettersDo(g, letters, number, g, names[k])
  <2>1. k = Len(letters) /\ k >= 1 /\ names[k] \in Valued /\ \A i \in 1..(k - 1) : names[i] \notin Valued
    <3>1. k = Len(letters) /\ k >= 1 /\ 1..(k - 1) = {}
      BY <1>2, <1>5
    <3> QED BY <1>4, <1>5, <3>1
  <2> QED BY <1>2, <1>3, <1>6, <1>7, <2>1, LettersAre
<1> QED BY <1>1, <1>4, <1>5, <1>8, ShortToken, Zenon DEF LettersDo, OneDoes

\* Two switches and then an option that takes a value.
LEMMA ThreeLetters ==
  ASSUME NEW g, g.kind = "grep", NEW l1, NEW l2, NEW l3, NEW n1, NEW n2, NEW n3, NEW number,
         l1 \in DOMAIN LongName, l2 \in DOMAIN LongName, l3 \in DOMAIN LongName,
         n1 = LongName[l1], n2 = LongName[l2], n3 = LongName[l3],
         n1 \notin Valued, n2 \notin Valued, n3 \in Valued, number # -1,
         NEW sw, sw = Switch(Switch(g, n1), n2), sw.kind = "grep"
  PROVE  ThreeDo(g, l1, l2, l3, sw, n3, number)
<1>1. PICK letters : letters = <<l1, l2, l3>>
  OBVIOUS
<1>2. letters \in Seq({l1, l2, l3}) /\ Len(letters) = 3 /\ letters[1] = l1 /\ letters[2] = l2 /\ letters[3] = l3
  BY <1>1
<1>3. PICK T, names : names = NamesOf(letters) /\ names \in Seq(T) /\ Len(names) = 3
  BY <1>2, NamesTyped
<1>4. names[1] = n1 /\ names[2] = n2 /\ names[3] = n3
  <2>1. 1 \in 1..Len(letters) /\ 2 \in 1..Len(letters) /\ 3 \in 1..Len(letters)
    BY <1>2
  <2>2. names[1] = n1
    BY <1>2, <1>3, <2>1, NameAt
  <2>3. names[2] = n2
    BY <1>2, <1>3, <2>1, NameAt
  <2>4. names[3] = n3
    BY <1>2, <1>3, <2>1, NameAt
  <2> QED BY <2>2, <2>3, <2>4
<1>5. PICK k \in Nat : k = 3
  OBVIOUS
<1>6. sw = FoldLeft(Switch, g, SubSeq(names, 1, k - 1))
  <2>1. PICK s : s = SubSeq(names, 1, k - 1)
    OBVIOUS
  <2>2. s \in Seq(T) /\ Len(s) = 2 /\ s[1] = n1 /\ s[2] = n2
    <3>1. k - 1 = 2
      BY <1>5
    <3>2. s = SubSeq(names, 1, 2)
      BY <2>1, <3>1
    <3>3. PICK one, two : /\ one = 1 /\ two = 2 /\ one \in 1..Len(names) /\ two \in 1..Len(names)
                          /\ two \in Nat /\ two = two - one + 1
      BY <1>3
    <3>4. /\ SubSeq(names, one, two) \in Seq(T) /\ Len(SubSeq(names, one, two)) = two
          /\ \A i \in 1..two : SubSeq(names, one, two)[i] = names[one + i - 1]
      BY <1>3, <3>3, Slice, SMTT(30)
    <3>5. s \in Seq(T) /\ Len(s) = two /\ \A i \in 1..two : s[i] = names[one + i - 1]
      BY <3>2, <3>3, <3>4
    <3>6. Len(s) = 2 /\ s[1] = names[1] /\ s[2] = names[2]
      BY <3>3, <3>5
    <3> QED BY <1>4, <3>5, <3>6
  <2>3. FoldLeft(Switch, g, s) = Switch(Switch(g, s[1]), s[2])
    BY <2>2, SwitchFew
  <2> QED BY <2>1, <2>2, <2>3
<1>7. sw # Failed
  BY AskedNotFailed
<1>8. LettersDo(g, letters, number, sw, names[k])
  <2>1. k = Len(letters) /\ k >= 1 /\ names[k] \in Valued /\ \A i \in 1..(k - 1) : names[i] \notin Valued
    <3>1. k = Len(letters) /\ k >= 1 /\ \A i \in 1..(k - 1) : i = 1 \/ i = 2
      BY <1>2, <1>5
    <3> QED BY <1>4, <1>5, <3>1
  <2> QED BY <1>2, <1>3, <1>6, <1>7, <2>1, LettersAre
<1> QED BY <1>1, <1>4, <1>5, <1>8, ShortToken, Zenon DEF LettersDo, ThreeDo

ParsesTo(start, tokens, acc) == FoldLeft(ParseToken, start, tokens) = acc
FiveTokens(t1, t2, t3, t4, t5) == <<t1, t2, t3, t4>> \o <<t5>>
TenTokens(t1, t2, t3, t4, t5, t6, t7, t8, t9, t10) == <<t1, t2, t3, t4, t5, t6, t7, t8, t9, t10>>
PatternX == <<"x">>

\* The tokens of a line, one after the other.
LEMMA FiveTokensParse ==
  ASSUME NEW t1, NEW t2, NEW t3, NEW t4, NEW t5, NEW a0, NEW a1, NEW a2, NEW a3, NEW a4, NEW a5,
         a1 = ParseToken(a0, t1),
         a2 = ParseToken(a1, t2),
         a3 = ParseToken(a2, t3),
         a4 = ParseToken(a3, t4),
         a5 = ParseToken(a4, t5)
  PROVE  ParsesTo(a0, FiveTokens(t1, t2, t3, t4, t5), a5)
<1>1. PICK s : s = <<t1, t2, t3, t4>> \o <<t5>>
  OBVIOUS
<1>2. s \in Seq({t1, t2, t3, t4, t5}) /\ Len(s) = 5
  BY <1>1
<1>3. s[1] = t1 /\ s[2] = t2 /\ s[3] = t3 /\ s[4] = t4 /\ s[5] = t5
  BY <1>1
<1>4. PICK t : /\ t[0] = a0 /\ \A k \in 1..Len(s) : t[k] = ParseToken(t[k - 1], s[k])
               /\ FoldLeft(ParseToken, a0, s) = t[Len(s)]
  BY <1>2, ParseChain
<1>5. t[1] = a1
  <2>1. 1 \in 1..Len(s) /\ 1 - 1 = 0
    BY <1>2
  <2>2. t[1] = ParseToken(t[1 - 1], s[1])
    BY <1>4, <2>1
  <2> QED BY <1>3, <1>4, <2>1, <2>2
<1>6. t[2] = a2
  <2>1. 2 \in 1..Len(s) /\ 2 - 1 = 1
    BY <1>2
  <2>2. t[2] = ParseToken(t[2 - 1], s[2])
    BY <1>4, <2>1
  <2> QED BY <1>3, <1>5, <2>1, <2>2
<1>7. t[3] = a3
  <2>1. 3 \in 1..Len(s) /\ 3 - 1 = 2
    BY <1>2
  <2>2. t[3] = ParseToken(t[3 - 1], s[3])
    BY <1>4, <2>1
  <2> QED BY <1>3, <1>6, <2>1, <2>2
<1>8. t[4] = a4
  <2>1. 4 \in 1..Len(s) /\ 4 - 1 = 3
    BY <1>2
  <2>2. t[4] = ParseToken(t[4 - 1], s[4])
    BY <1>4, <2>1
  <2> QED BY <1>3, <1>7, <2>1, <2>2
<1>9. t[5] = a5
  <2>1. 5 \in 1..Len(s) /\ 5 - 1 = 4
    BY <1>2
  <2>2. t[5] = ParseToken(t[5 - 1], s[5])
    BY <1>4, <2>1
  <2> QED BY <1>3, <1>8, <2>1, <2>2
<1> QED BY <1>1, <1>2, <1>4, <1>9 DEF ParsesTo, FiveTokens

\* The same of ten.
LEMMA TenTokensParse ==
  ASSUME NEW t1, NEW t2, NEW t3, NEW t4, NEW t5, NEW t6, NEW t7, NEW t8, NEW t9, NEW t10,
         NEW a0, NEW a1, NEW a2, NEW a3, NEW a4, NEW a5, NEW a6, NEW a7, NEW a8, NEW a9, NEW a10,
         a1 = ParseToken(a0, t1),
         a2 = ParseToken(a1, t2),
         a3 = ParseToken(a2, t3),
         a4 = ParseToken(a3, t4),
         a5 = ParseToken(a4, t5),
         a6 = ParseToken(a5, t6),
         a7 = ParseToken(a6, t7),
         a8 = ParseToken(a7, t8),
         a9 = ParseToken(a8, t9),
         a10 = ParseToken(a9, t10)
  PROVE  ParsesTo(a0, TenTokens(t1, t2, t3, t4, t5, t6, t7, t8, t9, t10), a10)
<1>1. PICK s : s = <<t1, t2, t3, t4, t5, t6, t7, t8, t9, t10>>
  OBVIOUS
<1>2. s \in Seq({t1, t2, t3, t4, t5, t6, t7, t8, t9, t10}) /\ Len(s) = 10
  BY <1>1
<1>3. s[1] = t1 /\ s[2] = t2 /\ s[3] = t3 /\ s[4] = t4 /\ s[5] = t5
      /\ s[6] = t6 /\ s[7] = t7 /\ s[8] = t8 /\ s[9] = t9 /\ s[10] = t10
  BY <1>1
<1>4. PICK t : /\ t[0] = a0 /\ \A k \in 1..Len(s) : t[k] = ParseToken(t[k - 1], s[k])
               /\ FoldLeft(ParseToken, a0, s) = t[Len(s)]
  BY <1>2, ParseChain
<1>5. t[1] = a1
  <2>1. 1 \in 1..Len(s) /\ 1 - 1 = 0
    BY <1>2
  <2>2. t[1] = ParseToken(t[1 - 1], s[1])
    BY <1>4, <2>1
  <2> QED BY <1>3, <1>4, <2>1, <2>2
<1>6. t[2] = a2
  <2>1. 2 \in 1..Len(s) /\ 2 - 1 = 1
    BY <1>2
  <2>2. t[2] = ParseToken(t[2 - 1], s[2])
    BY <1>4, <2>1
  <2> QED BY <1>3, <1>5, <2>1, <2>2
<1>7. t[3] = a3
  <2>1. 3 \in 1..Len(s) /\ 3 - 1 = 2
    BY <1>2
  <2>2. t[3] = ParseToken(t[3 - 1], s[3])
    BY <1>4, <2>1
  <2> QED BY <1>3, <1>6, <2>1, <2>2
<1>8. t[4] = a4
  <2>1. 4 \in 1..Len(s) /\ 4 - 1 = 3
    BY <1>2
  <2>2. t[4] = ParseToken(t[4 - 1], s[4])
    BY <1>4, <2>1
  <2> QED BY <1>3, <1>7, <2>1, <2>2
<1>9. t[5] = a5
  <2>1. 5 \in 1..Len(s) /\ 5 - 1 = 4
    BY <1>2
  <2>2. t[5] = ParseToken(t[5 - 1], s[5])
    BY <1>4, <2>1
  <2> QED BY <1>3, <1>8, <2>1, <2>2
<1>10. t[6] = a6
  <2>1. 6 \in 1..Len(s) /\ 6 - 1 = 5
    BY <1>2
  <2>2. t[6] = ParseToken(t[6 - 1], s[6])
    BY <1>4, <2>1
  <2> QED BY <1>3, <1>9, <2>1, <2>2
<1>11. t[7] = a7
  <2>1. 7 \in 1..Len(s) /\ 7 - 1 = 6
    BY <1>2
  <2>2. t[7] = ParseToken(t[7 - 1], s[7])
    BY <1>4, <2>1
  <2> QED BY <1>3, <1>10, <2>1, <2>2
<1>12. t[8] = a8
  <2>1. 8 \in 1..Len(s) /\ 8 - 1 = 7
    BY <1>2
  <2>2. t[8] = ParseToken(t[8 - 1], s[8])
    BY <1>4, <2>1
  <2> QED BY <1>3, <1>11, <2>1, <2>2
<1>13. t[9] = a9
  <2>1. 9 \in 1..Len(s) /\ 9 - 1 = 8
    BY <1>2
  <2>2. t[9] = ParseToken(t[9 - 1], s[9])
    BY <1>4, <2>1
  <2> QED BY <1>3, <1>12, <2>1, <2>2
<1>14. t[10] = a10
  <2>1. 10 \in 1..Len(s) /\ 10 - 1 = 9
    BY <1>2
  <2>2. t[10] = ParseToken(t[10 - 1], s[10])
    BY <1>4, <2>1
  <2> QED BY <1>3, <1>13, <2>1, <2>2
<1> QED BY <1>1, <1>2, <1>4, <1>14 DEF ParsesTo, TenTokens

\* What a parse that asked for a pattern and for no more values returns.
LEMMA ParseReturns ==
  ASSUME NEW tokens, NEW g, NEW bar, g.kind = "grep", g.pattern # <<>>,
         ParsesTo(Parsing(Blank, "", "none"), tokens, Parsing(g, "", bar))
  PROVE  GrepParse(tokens) = g
<1>1. PICK acc : acc = FoldLeft(ParseToken, Parsing(Blank, "", "none"), tokens)
  BY Zenon
<1>2. acc.g = g /\ acc.want = ""
  <2>1. acc = Parsing(g, "", bar)
    BY <1>1, Zenon DEF ParsesTo
  <2> QED BY <2>1, Zenon DEF Parsing
<1>3. g # Failed
  BY AskedNotFailed, Zenon
<1>4. GrepParse(tokens) = LET h == IF acc.g # Failed /\ acc.want # "" THEN SetTo(acc.g, acc.want, -1) ELSE acc.g
                          IN  IF h = Failed \/ h.pattern = <<>> THEN Failed ELSE h
  BY <1>1, Zenon DEF GrepParse, Parsing
<1> QED BY <1>2, <1>3, <1>4, Zenon

\* The fields that decide whether the parse went well.
LEMMA AskParts ==
  ASSUME NEW p, NEW v, NEW n, NEW c, NEW m, NEW b, NEW a
  PROVE  AskFor(p, v, n, c, m, b, a).kind = "grep" /\ AskFor(p, v, n, c, m, b, a).pattern = p
BY DEF AskFor

\* The first grep asks for nothing.
LEMMA BlankAsks == Blank = AskFor(NoText, Off, Off, Off, Zero, Zero, Zero)
BY Zenon DEF Blank, AskFor, NoText, Off, Zero

\* The same with another pattern.
LEMMA AskPattern ==
  ASSUME NEW p, NEW v, NEW n, NEW c, NEW m, NEW b, NEW a, NEW x, NEW g, g = AskFor(p, v, n, c, m, b, a)
  PROVE  [g EXCEPT !.pattern = x] = AskFor(x, v, n, c, m, b, a)
<1>1. AskEdits(g, p, v, n, c, m, b, a, x)
  BY AskEdited
<1> QED BY <1>1, Zenon DEF AskEdits

\* The pattern comes once: the first word that is not a value.
LEMMA PatternGiven ==
  ASSUME NEW v, NEW n, NEW c, NEW m, NEW b, NEW a
  PROVE  /\ ParseToken(Parsing(AskFor(NoText, v, n, c, m, b, a), "", "none"), TokX)
              = Parsing(AskFor(PatternX, v, n, c, m, b, a), "", "none")
         /\ ParseToken(Parsing(AskFor(NoText, v, n, c, m, b, a), "", "next"), TokX)
              = Parsing(AskFor(PatternX, v, n, c, m, b, a), "", "done")
<1>1. PICK g, p, number : p = PatternX /\ number = -1 /\ g = AskFor(NoText, v, n, c, m, b, a)
  OBVIOUS
<1>2. g.kind = "grep" /\ g.pattern = <<>>
  BY <1>1, AskParts DEF NoText
<1>3. [g EXCEPT !.pattern = p] = AskFor(p, v, n, c, m, b, a)
  BY <1>1, AskPattern
<1>4. p = IF g.pattern = <<>> THEN p ELSE g.pattern
  BY <1>2
<1>5. PICK y : y = [g EXCEPT !.pattern = p]
  BY Zenon
<1>6. /\ ParseToken(Parsing(g, "", "none"), Word(p, number)) = Parsing(y, "", "none")
      /\ ParseToken(Parsing(g, "", "next"), Word(p, number)) = Parsing(y, "", "done")
  BY <1>2, <1>4, <1>5, PatternToken, Zenon
<1>7. TokX = Word(p, number)
  BY <1>1 DEF TokX, PatternX
<1>8. y = AskFor(PatternX, v, n, c, m, b, a)
  BY <1>1, <1>3, <1>5
<1> QED BY <1>1, <1>6, <1>7, <1>8, Zenon

\* The pattern is not empty.
LEMMA PatternIsThere == PatternX # <<>>
BY DEF PatternX

\* The letters that ask for the line numbers or for the count alone.
LetterOf(c) == IF c THEN "c" ELSE "n"
OptionOf(c) == IF c THEN "count" ELSE "line-number"

\* The letter and the long name of the last switch mean the same.
LEMMA OptionMeans ==
  ASSUME NEW c \in BOOLEAN
  PROVE  /\ LetterOf(c) \in DOMAIN LongName /\ LongName[LetterOf(c)] = OptionOf(c)
         /\ OptionOf(c) \notin Valued /\ OptionOf(c) # ""
<1>1. CASE c
  BY <1>1, LettersMean, StringsApart DEF LetterOf, OptionOf
<1>2. CASE ~c
  BY <1>2, LettersMean, StringsApart DEF LetterOf, OptionOf
<1> QED BY <1>1, <1>2, Zenon

\* Turned round, and then the numbers or the count.
LEMMA TwoSwitches ==
  ASSUME NEW p, NEW c \in BOOLEAN, NEW m, NEW b, NEW a, NEW nc, nc = ~c
  PROVE  /\ Switch(AskFor(p, Off, Off, Off, m, b, a), "invert-match") = AskFor(p, On, Off, Off, m, b, a)
         /\ Switch(AskFor(p, On, Off, Off, m, b, a), OptionOf(c)) = AskFor(p, On, nc, c, m, b, a)
<1>1. Switch(AskFor(p, Off, Off, Off, m, b, a), "invert-match") = AskFor(p, On, Off, Off, m, b, a)
  BY SwitchFields
<1>2. CASE c
  <2>1. Switch(AskFor(p, On, Off, Off, m, b, a), "count") = AskFor(p, On, Off, On, m, b, a)
    BY SwitchFields
  <2>2. OptionOf(c) = "count" /\ c = On /\ nc = Off
    BY <1>2, Zenon DEF OptionOf, On, Off
  <2> QED BY <1>1, <2>1, <2>2, Zenon
<1>3. CASE ~c
  <2>1. Switch(AskFor(p, On, Off, Off, m, b, a), "line-number") = AskFor(p, On, On, Off, m, b, a)
    BY SwitchFields
  <2>2. OptionOf(c) = "line-number" /\ c = Off /\ nc = On
    BY <1>3 DEF OptionOf, On, Off
  <2> QED BY <1>1, <2>1, <2>2, Zenon
<1> QED BY <1>2, <1>3

\* `-m1 x -B 2 -vcA3` asks for what it says,
LEMMA ShortAsks ==
  ASSUME NEW o, NEW m \in Nat, NEW b \in Nat, NEW a \in Nat, NEW c \in BOOLEAN, NEW nc, nc = ~c,
         o.m = m, o.b = b, o.a = a, o.c = c
  PROVE  GrepParse(ShortForm(o)) = AskFor(PatternX, On, nc, c, m, b, a)
<1>1. PICK t1, t2, t3, t4, t5 :
        /\ t1 = Short(<<"m">>, m) /\ t2 = TokX /\ t3 = Short(<<"B">>, -1) /\ t4 = Word(<<"9">>, b)
        /\ t5 = Short(<<"v", LetterOf(c), "A">>, a)
  OBVIOUS
<1>2. ShortForm(o) = FiveTokens(t1, t2, t3, t4, t5)
  <2>1. <<"v", LetterOf(c), "A">> = IF c THEN <<"v", "c", "A">> ELSE <<"v", "n", "A">>
    <3>1. CASE c
      BY <3>1 DEF LetterOf
    <3>2. CASE ~c
      BY <3>2 DEF LetterOf
    <3> QED BY <3>1, <3>2
  <2>2. PICK l : l = <<"v", LetterOf(c), "A">>
    OBVIOUS
  <2>3. t5 = Short(IF o.c THEN <<"v", "c", "A">> ELSE <<"v", "n", "A">>, o.a)
    BY <1>1, <2>1
  <2>4. t1 = Short(<<"m">>, o.m) /\ t4 = Number(o.b)
    BY <1>1 DEF Number
  <2> QED BY <1>1, <2>3, <2>4, Zenon DEF ShortForm, FiveTokens
<1>3. m # -1 /\ b # -1 /\ a # -1
  OBVIOUS
<1> DEFINE p == PatternX
           g1 == AskFor(NoText, Off, Off, Off, m, Zero, Zero)
           g2 == AskFor(p, Off, Off, Off, m, Zero, Zero)
           g4 == AskFor(p, Off, Off, Off, m, b, Zero)
           g5 == AskFor(p, On, nc, c, m, b, a)
<1>4. ParseToken(Parsing(Blank, "", "none"), t1) = Parsing(g1, "", "none")
  <2>1. Blank.kind = "grep"
    BY BlankAsks, AskParts
  <2>2. PICK l, name : /\ l = "m" /\ name = "max-count" /\ l \in DOMAIN LongName
                       /\ name = LongName[l] /\ name \in Valued
    BY LettersMean, StringsApart
  <2>3. OneDoes(Blank, l, name, m)
    BY <2>1, <2>2, OneLetter
  <2>4. SetTo(Blank, "max-count", m) = g1
    BY BlankAsks, SetFields
  <2> QED BY <1>1, <1>3, <2>2, <2>3, <2>4, Zenon DEF OneDoes
<1>5. ParseToken(Parsing(g1, "", "none"), t2) = Parsing(g2, "", "none")
  BY <1>1, PatternGiven, Zenon
<1>6. ParseToken(Parsing(g2, "", "none"), t3) = Parsing(g2, "before-context", "none")
  <2>1. g2.kind = "grep"
    BY AskParts
  <2>2. PICK number : number = -1
    OBVIOUS
  <2> HIDE DEF g2
  <2>3. PICK l, name : /\ l = "B" /\ name = "before-context" /\ l \in DOMAIN LongName
                       /\ name = LongName[l] /\ name \in Valued
    BY LettersMean, StringsApart
  <2>4. OneDoes(g2, l, name, number)
    BY <2>1, <2>3, OneLetter
  <2> QED BY <1>1, <2>2, <2>3, <2>4, Zenon DEF OneDoes
<1>7. ParseToken(Parsing(g2, "before-context", "none"), t4) = Parsing(g4, "", "none")
  <2>1. g2.kind = "grep"
    BY AskParts
  <2>2. SetTo(g2, "before-context", b) = g4
    BY SetFields
  <2> HIDE DEF g2, g4
  <2>3. ParseToken(Parsing(g2, "before-context", "none"), Word(<<"9">>, b)) = Parsing(SetTo(g2, "before-context", b), "", "none")
    BY <2>1, StringsApart, ValueToken, Zenon
  <2> QED BY <1>1, <2>2, <2>3, Zenon
<1>8. ParseToken(Parsing(g4, "", "none"), t5) = Parsing(g5, "", "none")
  <2>1. PICK sw : sw = AskFor(p, On, nc, c, m, b, Zero)
    OBVIOUS
  <2>2. sw = Switch(Switch(g4, "invert-match"), OptionOf(c))
    BY <2>1, TwoSwitches
  <2>3. g4.kind = "grep" /\ sw.kind = "grep"
    BY <2>1, AskParts
  <2>4. SetTo(sw, "after-context", a) = g5
    BY <2>1, SetFields
  <2> HIDE DEF g4, g5
  <2>5. PICK l, n2 : l = LetterOf(c) /\ n2 = OptionOf(c)
    OBVIOUS
  <2>6. l \in DOMAIN LongName /\ n2 = LongName[l] /\ n2 \notin Valued
    BY <2>5, OptionMeans, Zenon
  <2>7. PICK l1, n1 : l1 = "v" /\ n1 = "invert-match" /\ l1 \in DOMAIN LongName /\ n1 = LongName[l1] /\ n1 \notin Valued
    BY LettersMean, StringsApart
  <2>8. PICK l3, n3 : l3 = "A" /\ n3 = "after-context" /\ l3 \in DOMAIN LongName /\ n3 = LongName[l3] /\ n3 \in Valued
    BY LettersMean, StringsApart
  <2>9. sw = Switch(Switch(g4, n1), n2)
    BY <2>2, <2>5, <2>7
  <2>10. ThreeDo(g4, l1, l, l3, sw, n3, a)
    BY <1>3, <2>3, <2>6, <2>7, <2>8, <2>9, ThreeLetters
  <2> QED BY <1>1, <2>4, <2>5, <2>7, <2>8, <2>10, Zenon DEF ThreeDo
<1>9. g5.kind = "grep" /\ g5.pattern # <<>>
  BY AskParts, PatternIsThere
<1> HIDE DEF p, g1, g2, g4, g5
<1>10. ParsesTo(Parsing(Blank, "", "none"), FiveTokens(t1, t2, t3, t4, t5), Parsing(g5, "", "none"))
  BY <1>4, <1>5, <1>6, <1>7, <1>8, FiveTokensParse, Zenon
<1>11. GrepParse(FiveTokens(t1, t2, t3, t4, t5)) = g5
  BY <1>9, <1>10, ParseReturns, Zenon
<1> QED BY <1>2, <1>11 DEF g5, p

\* and `--before-context 2 ... -- x` for the same.
LEMMA LongAsks ==
  ASSUME NEW o, NEW m \in Nat, NEW b \in Nat, NEW a \in Nat, NEW c \in BOOLEAN, NEW nc, nc = ~c,
         o.m = m, o.b = b, o.a = a, o.c = c
  PROVE  GrepParse(LongForm(o)) = AskFor(PatternX, On, nc, c, m, b, a)
<1>1. PICK t1, t2, t3, t4, t5, t6, t7, t8, t9, t10 :
        /\ t1 = Long("before-context") /\ t2 = Number(b) /\ t3 = Long("invert-match")
        /\ t4 = Long("after-context") /\ t5 = Number(a) /\ t6 = Long(OptionOf(c))
        /\ t7 = Long("max-count") /\ t8 = Number(m) /\ t9 = Long("") /\ t10 = TokX
  BY Zenon
<1>2. LongForm(o) = TenTokens(t1, t2, t3, t4, t5, t6, t7, t8, t9, t10)
  <2>1. t6 = Long(IF o.c THEN "count" ELSE "line-number")
    BY <1>1, Zenon DEF OptionOf
  <2>2. t2 = Number(o.b) /\ t5 = Number(o.a) /\ t8 = Number(o.m)
    BY <1>1, Zenon
  <2> QED BY <1>1, <2>1, <2>2, Zenon DEF LongForm, TenTokens
<1> DEFINE p == PatternX
           g2 == AskFor(NoText, Off, Off, Off, Zero, b, Zero)
           g3 == AskFor(NoText, On, Off, Off, Zero, b, Zero)
           g5 == AskFor(NoText, On, Off, Off, Zero, b, a)
           g6 == AskFor(NoText, On, nc, c, Zero, b, a)
           g8 == AskFor(NoText, On, nc, c, m, b, a)
           g10 == AskFor(p, On, nc, c, m, b, a)
<1>3. Blank.kind = "grep" /\ g2.kind = "grep" /\ g3.kind = "grep" /\ g5.kind = "grep"
      /\ g6.kind = "grep" /\ g8.kind = "grep" /\ g10.kind = "grep" /\ g10.pattern # <<>>
  BY BlankAsks, AskParts, PatternIsThere
<1>4. /\ SetTo(Blank, "before-context", b) = g2 /\ SetTo(g3, "after-context", a) = g5
      /\ SetTo(g6, "max-count", m) = g8
  BY BlankAsks, SetFields
<1>5. Switch(g2, "invert-match") = g3 /\ Switch(g5, OptionOf(c)) = g6
  BY TwoSwitches
<1>6. ParseToken(Parsing(g8, "", "next"), TokX) = Parsing(g10, "", "done")
  <2>1. \A n, d : ParseToken(Parsing(AskFor(NoText, On, n, d, m, b, a), "", "next"), TokX) =
                   Parsing(AskFor(PatternX, On, n, d, m, b, a), "", "done")
    BY PatternGiven, Zenon
  <2> QED BY <2>1, Zenon
<1> HIDE DEF p, g2, g3, g5, g6, g8, g10
<1>7. ASSUME NEW g, g.kind = "grep", NEW name \in {"before-context", "after-context", "max-count"}
      PROVE  ParseToken(Parsing(g, "", "none"), Long(name)) = Parsing(g, name, "none")
  <2>1. name # "" /\ name \in Valued
    BY StringsApart, Zenon
  <2> QED BY <1>7, <2>1, LongToken, Zenon
<1>8. ASSUME NEW g, g.kind = "grep", NEW name \in {"before-context", "after-context", "max-count"}, NEW number
      PROVE  ParseToken(Parsing(g, name, "none"), Number(number)) = Parsing(SetTo(g, name, number), "", "none")
  <2>1. name # ""
    BY StringsApart, Zenon
  <2> QED BY <1>8, <2>1, ValueToken, Zenon DEF Number
<1>9. ASSUME NEW g, g.kind = "grep", NEW name, name # "", name \notin Valued
      PROVE  ParseToken(Parsing(g, "", "none"), Long(name)) = Parsing(Switch(g, name), "", "none")
  BY <1>9, LongToken, Zenon
<1> DEFINE b0 == "before-context"
           a0 == "after-context"
           m0 == "max-count"
<1>10. ParseToken(Parsing(Blank, "", "none"), t1) = Parsing(Blank, b0, "none")
  BY <1>1, <1>3, <1>7, Zenon
<1>11. ParseToken(Parsing(Blank, b0, "none"), t2) = Parsing(g2, "", "none")
  BY <1>1, <1>3, <1>4, <1>8, Zenon
<1>12. ParseToken(Parsing(g2, "", "none"), t3) = Parsing(g3, "", "none")
  BY <1>1, <1>3, <1>5, <1>9, StringsApart, Zenon
<1>13. ParseToken(Parsing(g3, "", "none"), t4) = Parsing(g3, a0, "none")
  BY <1>1, <1>3, <1>7, Zenon
<1>14. ParseToken(Parsing(g3, a0, "none"), t5) = Parsing(g5, "", "none")
  BY <1>1, <1>3, <1>4, <1>8, Zenon
<1>15. ParseToken(Parsing(g5, "", "none"), t6) = Parsing(g6, "", "none")
  <2>1. OptionOf(c) \notin Valued /\ OptionOf(c) # ""
    BY OptionMeans, Zenon
  <2> QED BY <1>1, <1>3, <1>5, <1>9, <2>1, Zenon
<1>16. ParseToken(Parsing(g6, "", "none"), t7) = Parsing(g6, m0, "none")
  BY <1>1, <1>3, <1>7, Zenon
<1>17. ParseToken(Parsing(g6, m0, "none"), t8) = Parsing(g8, "", "none")
  BY <1>1, <1>3, <1>4, <1>8, Zenon
<1>18. ParseToken(Parsing(g8, "", "none"), t9) = Parsing(g8, "", "next")
  BY <1>1, <1>3, BarToken, Zenon
<1>19. ParseToken(Parsing(g8, "", "next"), t10) = Parsing(g10, "", "done")
  BY <1>1, <1>6, Zenon
<1> HIDE DEF b0, a0, m0
<1>20. ParsesTo(Parsing(Blank, "", "none"), TenTokens(t1, t2, t3, t4, t5, t6, t7, t8, t9, t10), Parsing(g10, "", "done"))
  BY <1>10, <1>11, <1>12, <1>13, <1>14, <1>15, <1>16, <1>17, <1>18, <1>19, TenTokensParse, Zenon
<1>21. GrepParse(TenTokens(t1, t2, t3, t4, t5, t6, t7, t8, t9, t10)) = g10
  BY <1>3, <1>20, ParseReturns, Zenon
<1> QED BY <1>2, <1>21 DEF g10, p

-----------------------------------------------------------------------------
(* What is known of every input, and the invariants.                        *)

Glyphs == {"a", "b"}
Words == {<<"x">>, <<"y">>}
\* What is known of an input, by its kind.
InputShape ==
  /\ "about" \in DOMAIN input
  /\ input.about = "date" => "z" \in DOMAIN input /\ input.z \in Int
  /\ input.about = "scan" => "chunks" \in DOMAIN input /\ input.chunks \in Seq(Seq(Glyphs))
  /\ input.about = "bytes" => "data" \in DOMAIN input /\ input.data \in Seq(Bytes)
  /\ input.about = "digits" =>
       /\ "q" \in DOMAIN input
       /\ \E a, b \in Sextets, c, d \in Digits : input.q = <<a, b, c, d>>
  /\ input.about = "glob" => /\ {"p", "s"} \subseteq DOMAIN input
                             /\ input.p \in Seq(Glyphs \cup {"*"}) /\ input.s \in Seq(Glyphs)
  /\ input.about = "grep" => /\ {"o", "lines"} \subseteq DOMAIN input
                             /\ input.o \in GrepOptions /\ input.lines \in Seq(Words)

\* A step that lengthens one field of the input leaves the others.
LEMMA GrowsKeeps ==
  ASSUME NEW field, NEW elements, NEW max, Grows(field, elements, max), "about" \in DOMAIN input, field # "about"
  PROVE  /\ DOMAIN input' = DOMAIN input
         /\ \A f \in DOMAIN input : f # field => input'[f] = input[f]
         /\ field \in DOMAIN input => \E e \in elements : input'[field] = Append(input[field], e)
  BY DEF Grows

\* Every first input has its shape,
LEMMA InitShaped == Init => InputShape
<1> SUFFICES ASSUME Init PROVE InputShape
  OBVIOUS
<1>1. CASE input = [about |-> "glob", p |-> <<>>, s |-> <<>>]
  BY <1>1 DEF InputShape
<1>2. CASE \E o \in GrepOptions : input = [about |-> "grep", o |-> o, lines |-> <<>>]
  BY <1>2 DEF InputShape
<1>3. CASE \E specs \in Pipelines : input = [about |-> "pipeline", specs |-> specs, a |-> <<>>, b |-> <<>>]
  BY <1>3 DEF InputShape
<1>4. CASE \E e \in Calls : input = [about |-> "tables", events |-> <<e>>]
  BY <1>4 DEF InputShape
<1>5. CASE \E r \in DayRanges : input = [about |-> "date", z |-> r[1], last |-> r[2]]
  BY <1>5, DaysAreWhole DEF InputShape
<1>6. CASE input = [about |-> "bytes", data |-> <<>>]
  BY <1>6 DEF InputShape
<1>7. CASE \E a, b \in {0, 16, 63}, c \in {0, 4, 60, Pad}, d \in {0, 63, Pad} :
             input = [about |-> "digits", q |-> <<a, b, c, d>>]
  <2>1. {0, 16, 63} \subseteq Sextets /\ {0, 4, 60, Pad} \subseteq Digits /\ {0, 63, Pad} \subseteq Digits
    BY DEF Sextets, Digits
  <2>2. PICK a, b \in {0, 16, 63}, c \in {0, 4, 60, Pad}, d \in {0, 63, Pad} :
          input = [about |-> "digits", q |-> <<a, b, c, d>>]
    BY <1>7
  <2>3. a \in Sextets /\ b \in Sextets /\ c \in Digits /\ d \in Digits
    BY <2>1
  <2>4. PICK w : w = <<a, b, c, d>> /\ input = [about |-> "digits", q |-> w]
    BY <2>2
  <2>5. \E e, f \in Sextets, g, h \in Digits : w = <<e, f, g, h>>
    BY <2>3, <2>4
  <2> QED BY <2>4, <2>5 DEF InputShape
<1>8. CASE \E syms, dynsyms \in ElfTables : input = [about |-> "elf", syms |-> syms, dynsyms |-> dynsyms]
  BY <1>8 DEF InputShape
<1>9. CASE \E ids, gone \in SUBSET (1..3), c \in [1..3 -> {0, 2}], d \in [1..3 -> {2, 3, 10}],
              lost \in {{}, {2}}, n \in 0..2 :
             input = [about |-> "threads", n |-> n, after |-> Tasks(ids, d, lost), before |-> Tasks(gone, c, {})]
  BY <1>9 DEF InputShape
<1>10. CASE \E s \in FirstSegments : input = [about |-> "bars", segments |-> <<s>>]
  BY <1>10 DEF InputShape
<1>11. CASE \E ends \in LineEnds : input = [about |-> "line", items |-> <<>>, ends |-> ends]
  BY <1>11 DEF InputShape
<1>12. CASE \E cmd \in Commands, placed \in Placements, alive \in {{"7"}, {"7", "8"}} :
              input = [about |-> "target", cmd |-> cmd, items |-> <<>>, placed |-> placed, alive |-> alive]
  BY <1>12 DEF InputShape
<1>13. CASE input = [about |-> "scan", chunks |-> <<>>]
  BY <1>13 DEF InputShape
<1>14. CASE input = [about |-> "profile", samples |-> <<>>]
  BY <1>14 DEF InputShape
<1>15. CASE \E depth \in 0..4 : input = [about |-> "tree", tree |-> <<0>>, depth |-> depth]
  BY <1>15 DEF InputShape
<1>16. CASE input = [about |-> "backtrace", lines |-> <<>>]
  BY <1>16 DEF InputShape
<1> HIDE DEF InputShape
<1> QED
  BY <1>1, <1>2, <1>3, <1>4, <1>5, <1>6, <1>7, <1>8, <1>9, <1>10, <1>11, <1>12, <1>13, <1>14, <1>15, <1>16
  DEF Init

\* What one read of a binary returns is a text.
LEMMA ChunksAreTexts == Chunks \subseteq Seq(Glyphs)
<1> SUFFICES ASSUME NEW c \in Chunks PROVE c \in Seq(Glyphs)
  OBVIOUS
<1>1. PICK m \in 0..3 : c \in [1..m -> Glyphs]
  BY DEF Chunks, BoundedSeq, SeqOf, Glyphs
<1>2. m \in Nat
  OBVIOUS
<1> QED BY <1>1, <1>2

\* and every step keeps it.
LEMMA NextShaped == InputShape /\ [Next]_input => InputShape'
<1> SUFFICES ASSUME InputShape, [Next]_input PROVE InputShape'
  OBVIOUS
<1>1. "about" \in DOMAIN input
  BY DEF InputShape
<1>2. ASSUME NEW kind, kind \notin {"date", "scan", "bytes", "digits", "glob", "grep"}, NEW field, field # "about",
             NEW elements, NEW max, input.about = kind, Grows(field, elements, max)
      PROVE  InputShape'
  BY <1>1, <1>2, GrowsKeeps DEF InputShape
<1>3. CASE UNCHANGED input
  BY <1>3 DEF InputShape
<1>4. CASE input.about = "glob" /\ input.s = <<>> /\ Grows("p", {"a", "b", "*"}, MaxPattern)
  <2>1. /\ DOMAIN input' = DOMAIN input /\ input'.about = "glob" /\ input'.s = input.s
        /\ \E e \in {"a", "b", "*"} : input'.p = Append(input.p, e)
    BY <1>1, <1>4, GrowsKeeps DEF InputShape
  <2>2. input.p \in Seq(Glyphs \cup {"*"})
    BY <1>4 DEF InputShape
  <2>3. input'.p \in Seq(Glyphs \cup {"*"})
    BY <2>1, <2>2 DEF Glyphs
  <2> QED BY <1>4, <2>1, <2>3 DEF InputShape
<1>5. CASE input.about = "glob" /\ Grows("s", {"a", "b"}, MaxPath)
  <2>1. /\ DOMAIN input' = DOMAIN input /\ input'.about = "glob" /\ input'.p = input.p
        /\ \E e \in {"a", "b"} : input'.s = Append(input.s, e)
    BY <1>1, <1>5, GrowsKeeps DEF InputShape
  <2>2. input.s \in Seq(Glyphs)
    BY <1>5 DEF InputShape
  <2>3. input'.s \in Seq(Glyphs)
    BY <2>1, <2>2 DEF Glyphs
  <2> QED BY <1>5, <2>1, <2>3 DEF InputShape
<1>6. CASE input.about = "bytes" /\ Grows("data", EdgeBytes, MaxBytes)
  <2>1. EdgeBytes \subseteq Bytes
    BY DEF EdgeBytes, Bytes
  <2>2. /\ DOMAIN input' = DOMAIN input /\ input'.about = "bytes"
        /\ \E e \in EdgeBytes : input'.data = Append(input.data, e)
    BY <1>1, <1>6, GrowsKeeps DEF InputShape
  <2>3. input.data \in Seq(Bytes)
    BY <1>6 DEF InputShape
  <2>4. input'.data \in Seq(Bytes)
    BY <2>1, <2>2, <2>3
  <2> QED BY <1>6, <2>2, <2>4 DEF InputShape
<1>7. CASE input.about = "scan" /\ Grows("chunks", Chunks, MaxChunks)
  <2>1. /\ DOMAIN input' = DOMAIN input /\ input'.about = "scan"
        /\ \E e \in Chunks : input'.chunks = Append(input.chunks, e)
    BY <1>1, <1>7, GrowsKeeps DEF InputShape
  <2>2. input.chunks \in Seq(Seq(Glyphs))
    BY <1>7 DEF InputShape
  <2>3. input'.chunks \in Seq(Seq(Glyphs))
    BY <2>1, <2>2, ChunksAreTexts
  <2> QED BY <1>7, <2>1, <2>3 DEF InputShape
<1>8. CASE input.about = "date" /\ input.z < input.last /\ input' = [input EXCEPT !.z = @ + 1]
  <2>1. input'.about = "date" /\ DOMAIN input' = DOMAIN input /\ input'.z = input.z + 1
    BY <1>1, <1>8 DEF InputShape
  <2>2. "z" \in DOMAIN input /\ input.z \in Int
    BY <1>8 DEF InputShape
  <2> QED BY <1>1, <2>1, <2>2 DEF InputShape
<1>10. CASE input.about = "grep" /\ Grows("lines", {<<"x">>, <<"y">>}, MaxLines)
  <2>1. /\ DOMAIN input' = DOMAIN input /\ input'.about = "grep" /\ input'.o = input.o
        /\ \E e \in Words : input'.lines = Append(input.lines, e)
    BY <1>1, <1>10, GrowsKeeps DEF InputShape, Words
  <2>2. input.lines \in Seq(Words)
    BY <1>10 DEF InputShape
  <2>3. input'.lines \in Seq(Words)
    BY <2>1, <2>2
  <2> QED BY <1>10, <2>1, <2>3 DEF InputShape
<1>9. CASE \/ input.about = "pipeline" /\ input.b = <<>> /\ Grows("a", {"x", "X", "\n", "\r"}, MaxText)
           \/ input.about = "pipeline" /\ Grows("b", {"x", "X", "\n", "\r"}, MaxText)
           \/ input.about = "tables" /\ Grows("events", Calls, MaxEvents)
           \/ input.about = "bars" /\ Grows("segments", Segments, MaxSegments)
           \/ input.about = "line" /\ Grows("items", Items, MaxItems)
           \/ input.about = "target" /\ input.cmd # <<Arg("attach")>> /\ Grows("items", CommandItems, MaxItems)
           \/ input.about = "target" /\ input.cmd = <<Arg("attach")>> /\ Grows("items", AttachItems, MaxItems)
           \/ input.about = "profile" /\ Grows("samples", Captured, MaxSamples)
           \/ input.about = "tree" /\ Grows("tree", 1..Len(input.tree), MaxNodes)
           \/ input.about = "backtrace" /\ Grows("lines", TraceLines, MaxTrace)
  BY <1>2, <1>9
<1> HIDE DEF InputShape
<1> QED BY <1>3, <1>4, <1>5, <1>6, <1>7, <1>8, <1>9, <1>10 DEF Next

\* The inductive invariant: every input the model enumerates, of any length, has
\* the fields of its kind, of their types.
THEOREM InputsShaped == Spec => []InputShape
<1> QED BY InitShaped, NextShaped, PTL DEF Spec

\* Of a day, its date is the calendar's.
LEMMA ShapedDates == InputShape => DatesAreCalendar
<1> SUFFICES ASSUME InputShape, input.about = "date" PROVE DatesAreCalendar
  BY DEF DatesAreCalendar
<1>1. input.z \in Int
  BY DEF InputShape
<1>2. CivilFromDays(input.z + 1) = NextDay(CivilFromDays(input.z))
  BY <1>1, EveryDayFollows
<1>3. EbpfCivilFromDays(input.z) = CivilFromDays(input.z)
  BY DEF EbpfCivilFromDays
<1>4. FormatDatetime(86400 * input.z + 86399, 1).date = FormatUtc(86400 * (input.z + 1)).date
  BY <1>1, Midnight
<1> QED BY <1>2, <1>3, <1>4, Epoch DEF DatesAreCalendar

\* format_datetime and civil_from_days, of the agent and of the helper: each day
\* is followed by the calendar's next one, whatever ranges of days are enumerated.
THEOREM DatesCorrect == Spec => []DatesAreCalendar
  BY InputsShaped, ShapedDates, PTL

\* Both ways to say that the marker stands somewhere.
LEMMA ThereIsWithin ==
  ASSUME NEW S, NEW text \in Seq(S), NEW marker \in Seq(S), Len(marker) > 0
  PROVE  (\E i \in 1..Len(text) : IsPrefix(marker, SubSeq(text, i, Len(text)))) <=> Within(marker, text)
<1> DEFINE m == Len(marker)
           l == Len(text)
<1>1. m \in Nat \ {0} /\ l \in Nat
  OBVIOUS
<1>2. ASSUME NEW i \in 1..l
      PROVE  IsPrefix(marker, SubSeq(text, i, l)) <=> StandsAt(marker, text, i)
  <2> DEFINE rest == SubSeq(text, i, l)
  <2>1. rest \in Seq(S) /\ Len(rest) = l - i + 1 /\ \A k \in 1..(l - i + 1) : rest[k] = text[i + k - 1]
    BY <1>1
  <2>2. SubSeq(marker, 1, m) = marker
    BY <1>1
  <2> HIDE DEF rest
  <2>3. CASE m <= l - i + 1
    <3>1. SubSeq(rest, 1, m) \in Seq(S) /\ Len(SubSeq(rest, 1, m)) = m
          /\ \A k \in 1..m : SubSeq(rest, 1, m)[k] = rest[k]
      BY <1>1, <2>1, <2>3
    <3>2. SubSeq(rest, 1, m) = marker <=> \A k \in 1..m : SubSeq(rest, 1, m)[k] = marker[k]
      BY <3>1
    <3>3. \A k \in 1..m : SubSeq(rest, 1, m)[k] = text[i + k - 1]
      BY <1>1, <2>1, <2>3, <3>1
    <3>4. IsPrefix(marker, rest) <=> SubSeq(rest, 1, m) = marker
      BY <1>1, <2>1, <2>2, <2>3 DEF IsPrefix
    <3>5. StandsAt(marker, text, i) <=> \A k \in 1..m : text[i + k - 1] = marker[k]
      BY <1>1, <2>3 DEF StandsAt
    <3> QED BY <3>2, <3>3, <3>4, <3>5 DEF rest
  <2>4. CASE ~(m <= l - i + 1)
    BY <1>1, <2>1, <2>4 DEF IsPrefix, StandsAt, rest
  <2> QED BY <2>3, <2>4
<1>3. ASSUME NEW i \in Nat, StandsAt(marker, text, i) PROVE i \in 1..l
  BY <1>1, <1>3 DEF StandsAt
<1> HIDE DEF m, l
<1>4. (\E i \in 1..l : IsPrefix(marker, SubSeq(text, i, l))) <=> \E i \in 1..l : StandsAt(marker, text, i)
  BY <1>2
<1>5. (\E i \in 1..l : StandsAt(marker, text, i)) <=> Within(marker, text)
  BY <1>1, <1>3 DEF Within
<1> QED BY <1>4, <1>5 DEF l

\* Of a binary, its marker is found iff it is there, and ps says so.
LEMMA ShapedScan == InputShape => MarkerFound
<1> DEFINE marker == <<"a", "b", "a">>
           There(chunks) ==
             LET text == FlattenSeq(chunks) IN \E i \in 1..Len(text) : IsPrefix(marker, SubSeq(text, i, Len(text)))
           files == [f \in {"x", "y"} |-> IF f = "x" THEN input.chunks ELSE Reverse(input.chunks)]
           processes == <<[name |-> "n", binary |-> "y"], [name |-> "m", binary |-> None],
                          [name |-> "m", binary |-> "x"], [name |-> "n", binary |-> "x"],
                          [name |-> "n", binary |-> "gone"], [name |-> "m", binary |-> "y"]>>
           Row(p) == <<p.name, p.binary \in DOMAIN files /\ There(files[p.binary])>>
           RowOf(p, name) == IF name = "" \/ p.name = name THEN <<Row(p)>> ELSE <<>>
           Names == {"n", "m"}
           Binaries == {"x", "y", "gone", None}
<1> SUFFICES ASSUME InputShape, input.about = "scan"
             PROVE  /\ file_contains(input.chunks, marker) <=> There(input.chunks)
                    /\ \A name \in {"", "n", "m"} :
                         cmd_ps(processes, name, files, marker).rows
                           = FlattenSeq([k \in 1..Len(processes) |-> RowOf(processes[k], name)])
  BY Zenon DEF MarkerFound
<1>1. marker \in Seq(Glyphs) /\ Len(marker) > 0
  BY DEF Glyphs
<1>2. input.chunks \in Seq(Seq(Glyphs))
  BY DEF InputShape
<1>3. \A b \in DOMAIN files : files[b] \in Seq(Seq(Glyphs))
  <2>1. Reverse(input.chunks) \in Seq(Seq(Glyphs))
    BY <1>2 DEF Reverse
  <2> QED BY <1>2, <2>1
<1>4. processes \in Seq([name : Names, binary : Binaries])
  OBVIOUS
<1>5. None \notin DOMAIN files
  BY DEF None
<1> HIDE DEF marker
<1>6. ASSUME NEW chunks \in Seq(Seq(Glyphs)) PROVE There(chunks) <=> Within(marker, FlattenSeq(chunks))
  <2>1. FlattenSeq(chunks) \in Seq(Glyphs)
    BY FlattenJoins
  <2> QED BY <1>1, <2>1, ThereIsWithin
<1>7. file_contains(input.chunks, marker) <=> There(input.chunks)
  BY <1>1, <1>2, <1>6, ScanFindsMarker
<1> HIDE DEF files, There
<1>8. ASSUME NEW name \in {"", "n", "m"}, NEW k \in 1..Len(processes)
      PROVE  RowsOf(processes[k], name, files, marker) = RowOf(processes[k], name)
  <2> DEFINE p == processes[k]
  <2> HIDE DEF processes
  <2>1. (p.binary # None /\ HasNeedle(p.binary, files, marker)) = (p.binary \in DOMAIN files /\ There(files[p.binary]))
    BY <1>3, <1>5, <1>6, Zenon DEF HasNeedle
  <2> QED BY <2>1, Zenon DEF RowsOf
<1>9. ASSUME NEW name \in {"", "n", "m"}
      PROVE  cmd_ps(processes, name, files, marker).rows
               = FlattenSeq([k \in 1..Len(processes) |-> RowOf(processes[k], name)])
  <2> HIDE DEF processes, RowOf, Row, Names, Binaries
  <2>1. cmd_ps(processes, name, files, marker).rows
          = FlattenSeq([k \in 1..Len(processes) |-> RowsOf(processes[k], name, files, marker)])
    <3>1. cmd_ps(processes, name, files, marker).rows = AllRows(processes, name, files, marker)
      BY <1>1, <1>3, <1>4, PsAnswersEach, Zenon
    <3> QED BY <3>1, Zenon DEF AllRows
  <2>2. [k \in 1..Len(processes) |-> RowsOf(processes[k], name, files, marker)]
          = [k \in 1..Len(processes) |-> RowOf(processes[k], name)]
    BY <1>8, Zenon
  <2> QED BY <2>1, <2>2, Zenon
<1> QED BY <1>7, <1>9, Zenon

\* file_contains and cmd_ps: the marker is found iff it is there, for any number
\* of reads of a binary.
THEOREM MarkerCorrect == Spec => []MarkerFound
  BY InputsShaped, ShapedScan, PTL

\* Of bytes and of digits, they come back.
LEMMA ShapedBytes == InputShape => Base64RoundTrip
<1> SUFFICES ASSUME InputShape PROVE Base64RoundTrip
  OBVIOUS
<1>1. ASSUME input.about = "bytes" PROVE Decode(Encode(input.data)) = [ok |-> TRUE, data |-> input.data]
  BY <1>1, BytesComeBack DEF InputShape
<1>2. ASSUME input.about = "digits"
      PROVE  (input.q[3] = Pad => input.q[4] = Pad /\ input.q[2] % 16 = 0)
              /\ (input.q[4] = Pad /\ input.q[3] # Pad => input.q[3] % 4 = 0)
                => Encode(Decode(input.q).data) = input.q
  <2>1. PICK a, b \in Sextets, c, d \in Digits : input.q = <<a, b, c, d>>
    BY <1>2 DEF InputShape
  <2>2. input.q[2] = b /\ input.q[3] = c /\ input.q[4] = d
    BY <2>1
  <2> QED BY <2>1, <2>2, DigitsComeBack
<1> QED BY <1>1, <1>2 DEF Base64RoundTrip

\* The base64 of the tunnel: bytes of any number come back, and digits too.
THEOREM Base64Correct == Spec => []Base64RoundTrip
  BY InputsShaped, ShapedBytes, PTL

\* Sequences over fewer elements.
LEMMA SeqOfMore ==
  ASSUME NEW S, NEW T, S \subseteq T, NEW s \in Seq(S)
  PROVE  s \in Seq(T)
<1>1. Len(s) \in Nat /\ s = [i \in 1..Len(s) |-> s[i]] /\ \A i \in 1..Len(s) : s[i] \in S
  OBVIOUS
<1>2. \A i \in 1..Len(s) : s[i] \in T
  BY <1>1
<1> QED BY <1>1, <1>2

\* Of a pattern and a path, they match iff the pattern fits.
LEMMA ShapedGlob == InputShape => GlobIsGlob
<1> SUFFICES ASSUME InputShape, input.about = "glob" PROVE GlobIsGlob
  BY DEF GlobIsGlob
<1>1. PICK S : S = Glyphs \cup {"*"}
  OBVIOUS
<1>2. input.p \in Seq(S) /\ input.s \in Seq(Glyphs) /\ "*" \in S /\ Glyphs \subseteq S
  BY <1>1 DEF InputShape
<1>3. input.s \in Seq(S)
  BY <1>2, SeqOfMore
<1>4. GlobMatch(input.p, input.s) <=> GlobPromise(input.p, input.s)
  BY <1>2, <1>3, GlobMatches
<1>5. EbpfGlobMatch(input.p, input.s) <=> GlobMatch(input.p, input.s)
  BY DEF EbpfGlobMatch
<1> QED BY <1>4, <1>5 DEF GlobIsGlob

\* glob_match, of the probes and of the helper: a path matches iff the stars can
\* be filled in to make it, for patterns and paths of any length.
THEOREM GlobCorrect == Spec => []GlobIsGlob
  BY InputsShaped, ShapedGlob, PTL

\* The options that are enumerated have their types.
LEMMA OptionsTyped ==
  ASSUME NEW o \in GrepOptions
  PROVE  o.m \in Nat /\ o.b \in Nat /\ o.a \in Nat /\ o.c \in BOOLEAN
BY DEF GrepOptions

\* A grep asked for is one that has seen nothing yet.
LEMMA AskTyped ==
  ASSUME NEW m \in Nat, NEW b \in Nat, NEW a \in Nat, NEW c \in BOOLEAN, NEW nc \in BOOLEAN
  PROVE  /\ AskFor(PatternX, On, nc, c, m, b, a) \in Greps({PatternX}, Words)
         /\ Fresh(AskFor(PatternX, On, nc, c, m, b, a))
<1>1. PICK g, x : g = AskFor(x, TRUE, nc, c, m, b, a) /\ x = PatternX
  OBVIOUS
<1>2. Fresh(g)
  BY <1>1 DEF Fresh, AskFor
<1>3. <<>> \in Seq(Nat \X Words)
  OBVIOUS
<1>4. g \in Greps({x}, Words)
  BY <1>1, <1>3 DEF Greps, AskFor
<1>5. g = AskFor(PatternX, On, nc, c, m, b, a)
  BY <1>1, Zenon DEF On
<1> QED BY <1>1, <1>2, <1>4, <1>5, Zenon

\* Of options and lines, the pipeline shows what the specification does.
LEMMA ShapedGrep == InputShape => GrepIsGrep
<1> SUFFICES ASSUME InputShape, input.about = "grep" PROVE GrepIsGrep
  BY DEF GrepIsGrep
<1>1. PICK o, lines : o = input.o /\ lines = input.lines /\ o \in GrepOptions /\ lines \in Seq(Words)
  BY DEF InputShape
<1>2. PICK m \in Nat, b \in Nat, a \in Nat, c \in BOOLEAN, nc \in BOOLEAN :
        o.m = m /\ o.b = b /\ o.a = a /\ o.c = c /\ nc = ~c
  BY <1>1, OptionsTyped
<1>3. PICK g : g = AskFor(PatternX, On, nc, c, m, b, a)
  OBVIOUS
<1>4. GrepParse(ShortForm(o)) = g /\ GrepParse(LongForm(o)) = g
  BY <1>2, <1>3, ShortAsks, LongAsks
<1>5. g \in Greps({PatternX}, Words) /\ Fresh(g)
  BY <1>3, AskTyped
<1>6. PICK p : p = [inner |-> <<>>, stages |-> <<g>>, buf |-> <<>>, files |-> <<>>]
  OBVIOUS
<1>7. PipelineFinish(FoldLeft(emit_line, p, lines)).inner = GrepBatch(g, lines)
  <2>1. PipelineFinish(FoldLeft(emit_line, PipeOf(<<>>, g), lines)).inner = GrepBatch(g, lines)
    BY <1>1, <1>5, PipelineGreps
  <2> QED BY <1>6, <2>1 DEF PipeOf
<1>8. EbpfPipelineFinish(FoldLeft(EbpfEmitLine, p, lines)) = PipelineFinish(FoldLeft(emit_line, p, lines))
  <2>1. FoldLeft(EbpfEmitLine, p, lines) = FoldLeft(emit_line, p, lines)
    BY DEF FoldLeft, MapThenFoldSet, EbpfEmitLine
  <2> QED BY <2>1 DEF EbpfPipelineFinish
<1> QED BY <1>1, <1>4, <1>6, <1>7, <1>8 DEF GrepIsGrep

\* Both spellings of the options parse to the same grep, and what the pipeline of
\* the agent, and of the helper, shows is its specification's, for any number of
\* lines.
THEOREM GrepCorrect == Spec => []GrepIsGrep
  BY InputsShaped, ShapedGrep, PTL
=============================================================================
