-------------------------- MODULE ScoreDocs_proofs --------------------------
(***************************************************************************)
(* The facts the proofs about ScoreEdit rest on: first those about numbers, *)
(* finite sets and sequences (induction and definition by recursion over    *)
(* Nat, least and greatest elements, the sequence operators the model is    *)
(* built of), then the documents that the gestures pass through, and what   *)
(* each single write does to the rows and the slots of one.                 *)
(***************************************************************************)
EXTENDS ScoreEdit, FiniteSetTheorems, SequenceTheorems, WellFoundedInduction, TLAPS

-----------------------------------------------------------------------------
(* Induction and recursion, stated over sets so that they can be cited.     *)

Below == {ss \in Nat \X Nat : ss[1] < ss[2]}

\* No infinite descent in Nat.
LEMMA BelowWellFounded == IsWellFoundedOn(Below, Nat)
<1>1. Below = OpToRel(<, Nat)
  BY Zenon DEF Below, OpToRel
<1>2. QED BY ONLY <1>1, NatLessThanWellFounded, Zenon

\* A non-empty set of naturals has a least element.
LEMMA LeastNatural ==
    ASSUME NEW T \in SUBSET Nat, T # {}
    PROVE  \E m \in T : \A y \in T : m <= y
<1>1. PICK m \in T : \A y \in T : ~(<<y, m>> \in Below)
  BY WFMin, BelowWellFounded
<1>2. ASSUME NEW y \in T PROVE m <= y
  <2>1. y \in Nat /\ m \in Nat
    OBVIOUS
  <2>2. ~(y < m)
    BY <1>1, <2>1 DEF Below
  <2>3. QED BY <2>1, <2>2
<1>3. QED BY <1>2

\* Induction over Nat: a set that holds 0 and the successor of each of its
\* naturals holds them all.
LEMMA NatSetInduction ==
    ASSUME NEW S, 0 \in S, \A n \in Nat : n \in S => n + 1 \in S
    PROVE  Nat \subseteq S
<1> DEFINE T == Nat \ S
<1> SUFFICES ASSUME T # {} PROVE FALSE
  OBVIOUS
<1>1. T \in SUBSET Nat
  OBVIOUS
<1> HIDE DEF T
<1>2. PICK m \in T : \A y \in T : m <= y
  BY <1>1, LeastNatural
<1>3. m \in Nat /\ m \notin S /\ m # 0
  BY DEF T
<1>4. m - 1 \in Nat /\ ~(m <= m - 1)
  BY <1>3
<1>5. m - 1 \in S
  BY <1>2, <1>4 DEF T
<1>6. (m - 1) + 1 \in S
  BY <1>4, <1>5
<1>7. QED BY <1>3, <1>6

\* F leads from the values T[k - 1] of U to the values T[k], up to n.
Leads(n, U, T, F) ==
    /\ \A k \in 0 .. n : T[k] \subseteq U
    /\ \A k \in 1 .. n : \A x \in T[k - 1] : F[<<k, x>>] \in T[k]

\* f starts at b and goes as F leads.
Leading(f, n, U, T, F, b) ==
    /\ f \in [0 .. n -> U] /\ f[0] = b
    /\ \A k \in 1 .. n : f[k] = F[<<k, f[k - 1]>>]
    /\ \A k \in 0 .. n : f[k] \in T[k]

\* Then the recursion over 0 .. n with the steps F has a value.
LEMMA Stages ==
    ASSUME NEW U, NEW n \in Nat, NEW T, NEW b \in T[0], NEW F, Leads(n, U, T, F)
    PROVE  \E f : Leading(f, n, U, T, F, b)
<1> DEFINE P(m, f) == /\ f = [i \in 0 .. m |-> f[i]] /\ f[0] = b
                      /\ \A k \in 1 .. m : f[k] = F[<<k, f[k - 1]>>]
                      /\ \A k \in 0 .. m : f[k] \in T[k]
           S == {m \in Nat : m <= n => \E f : P(m, f)}
<1>1. 0 \in S
  <2> DEFINE f == [i \in 0 .. 0 |-> b]
  <2>1. f = [i \in 0 .. 0 |-> f[i]] /\ f[0] = b /\ 1 .. 0 = {} /\ 0 .. 0 = {0}
    OBVIOUS
  <2> HIDE DEF f
  <2>2. P(0, f)
    BY <2>1
  <2>3. QED BY <2>2
<1>2. \A m \in Nat : m \in S => m + 1 \in S
  <2> SUFFICES ASSUME NEW m \in Nat, m \in S, m + 1 <= n PROVE \E f : P(m + 1, f)
    <3> HIDE DEF P
    <3> QED OBVIOUS
  <2>1. PICK f : P(m, f)
    <3> HIDE DEF P
    <3> QED OBVIOUS
  <2> HIDE DEF S
  <2> DEFINE y == F[<<m + 1, f[m]>>]
             g == [i \in 0 .. m + 1 |-> IF i = m + 1 THEN y ELSE f[i]]
  <2>2. y \in T[m + 1]
    <3>1. f[m] \in T[m] /\ m + 1 \in 1 .. n /\ (m + 1) - 1 = m
      BY <2>1
    <3>2. QED BY <3>1 DEF Leads
  <2>8. f[0] = b /\ \A k \in 1 .. m : f[k] = F[<<k, f[k - 1]>>]
    BY <2>1
  <2>9. \A k \in 0 .. m : f[k] \in T[k]
    BY <2>1
  <2>10. g = [i \in 0 .. m + 1 |-> g[i]]
    OBVIOUS
  <2>3. g[m + 1] = y /\ \A k \in 0 .. m : g[k] = f[k]
    OBVIOUS
  <2> HIDE DEF g, P
  <2>4. g[0] = b
    BY <2>8, <2>3
  <2>5. ASSUME NEW k \in 1 .. m + 1 PROVE g[k] = F[<<k, g[k - 1]>>]
    <3>1. CASE k = m + 1
      <4>1. g[k] = y /\ g[k - 1] = f[m]
        BY <3>1, <2>3
      <4>2. QED BY <4>1, <3>1
    <3>2. CASE k # m + 1
      <4>1. k \in 1 .. m /\ g[k] = f[k] /\ g[k - 1] = f[k - 1]
        BY <3>2, <2>3
      <4>2. QED BY <4>1, <2>8
    <3>3. QED BY <3>1, <3>2
  <2>6. ASSUME NEW k \in 0 .. m + 1 PROVE g[k] \in T[k]
    <3> HIDE DEF y
    <3>1. CASE k = m + 1
      BY <3>1, <2>2, <2>3
    <3>2. CASE k # m + 1
      <4>1. k \in 0 .. m
        BY <3>2
      <4>2. QED BY <4>1, <2>9, <2>3
    <3>3. QED BY <3>1, <3>2
  <2>7. P(m + 1, g)
    BY <2>10, <2>4, <2>5, <2>6 DEF P
  <2>11. QED BY <2>7
<1>3. n \in S
  <2> HIDE DEF S
  <2> QED BY <1>1, <1>2, NatSetInduction
<1>4. PICK f : P(n, f)
  BY <1>3
<1>5. f \in [0 .. n -> U]
  <2>1. f = [i \in 0 .. n |-> f[i]]
    BY <1>4
  <2>2. \A i \in 0 .. n : f[i] \in U
    BY <1>4 DEF Leads
  <2>3. [i \in 0 .. n |-> f[i]] \in [0 .. n -> U]
    BY ONLY <2>2
  <2>4. QED BY ONLY <2>1, <2>3
<1>6. f[0] = b /\ \A k \in 1 .. n : f[k] = F[<<k, f[k - 1]>>]
  BY <1>4
<1>7. \A k \in 0 .. n : f[k] \in T[k]
  BY <1>4
<1>8. QED BY <1>5, <1>6, <1>7 DEF Leading

\* What holds at the start of an iteration and survives each of its steps
\* holds at every point of it.
LEMMA StagesHold ==
    ASSUME NEW n \in Nat, NEW f, NEW T, f[0] \in T[0],
           \A k \in 1 .. n : f[k - 1] \in T[k - 1] => f[k] \in T[k]
    PROVE  \A k \in 0 .. n : f[k] \in T[k]
<1> DEFINE S == {m \in Nat : m <= n => f[m] \in T[m]}
<1>1. 0 \in S
  OBVIOUS
<1>2. ASSUME NEW m \in Nat, m \in S PROVE m + 1 \in S
  <2>1. CASE m + 1 <= n
    <3>1. m + 1 \in 1 .. n /\ (m + 1) - 1 = m /\ f[m] \in T[m]
      BY <2>1, <1>2
    <3>2. f[m + 1] \in T[m + 1]
      BY <3>1
    <3>3. QED BY <3>2
  <2>2. QED BY <2>1
<1>3. Nat \subseteq S
  <2> HIDE DEF S
  <2> QED BY <1>1, <1>2, NatSetInduction
<1>4. QED BY <1>3

-----------------------------------------------------------------------------
(* Least and greatest elements of finite sets of integers.                  *)

\* Min and Max of a finite non-empty set of integers are its ends.
LEMMA MinMax ==
    ASSUME NEW S \in SUBSET Int, IsFiniteSet(S), S # {}
    PROVE  /\ Min(S) \in S /\ \A y \in S : Min(S) <= y
           /\ Max(S) \in S /\ \A y \in S : Max(S) >= y
<1> DEFINE Ends(T) == /\ \E x \in T : \A y \in T : x <= y
                      /\ \E x \in T : \A y \in T : x >= y
           N == {n \in Nat : \A T \in SUBSET Int :
                    IsFiniteSet(T) /\ Cardinality(T) = n /\ T # {} => Ends(T)}
<1>1. 0 \in N
  BY FS_EmptySet
<1>2. ASSUME NEW n \in Nat, n \in N PROVE n + 1 \in N
  <2> SUFFICES ASSUME NEW T \in SUBSET Int, IsFiniteSet(T), Cardinality(T) = n + 1, T # {}
               PROVE  Ends(T)
    OBVIOUS
  <2>1. PICK t \in T : TRUE
    OBVIOUS
  <2>2. IsFiniteSet(T \ {t}) /\ Cardinality(T \ {t}) = n /\ T \ {t} \in SUBSET Int
    <3>1. IsFiniteSet(T \ {t}) /\ Cardinality(T \ {t}) = (n + 1) - 1
      BY FS_RemoveElement
    <3>2. (n + 1) - 1 = n /\ T \ {t} \in SUBSET Int
      OBVIOUS
    <3>3. QED BY <3>1, <3>2
  <2>3. CASE T \ {t} = {}
    <3>1. T = {t} /\ t \in Int
      BY <2>3
    <3>2. QED BY <3>1
  <2>4. CASE T \ {t} # {}
    <3>1. Ends(T \ {t})
      BY <1>2, <2>2, <2>4
    <3>2. PICK lo \in T \ {t} : \A y \in T \ {t} : lo <= y
      BY <3>1
    <3>3. PICK hi \in T \ {t} : \A y \in T \ {t} : hi >= y
      BY <3>1
    <3>4. \E x \in T : \A y \in T : x <= y
      <4>1. CASE t <= lo
        <5>1. \A y \in T : t <= y
          BY <4>1, <3>2
        <5>2. QED BY <5>1
      <4>2. CASE ~(t <= lo)
        <5>1. \A y \in T : lo <= y
          BY <4>2, <3>2
        <5>2. QED BY <5>1
      <4>3. QED BY <4>1, <4>2
    <3>5. \E x \in T : \A y \in T : x >= y
      <4>1. CASE t >= hi
        <5>1. \A y \in T : t >= y
          BY <4>1, <3>3
        <5>2. QED BY <5>1
      <4>2. CASE ~(t >= hi)
        <5>1. \A y \in T : hi >= y
          BY <4>2, <3>3
        <5>2. QED BY <5>1
      <4>3. QED BY <4>1, <4>2
    <3>6. QED BY <3>4, <3>5
  <2>5. QED BY <2>3, <2>4
<1>3. Cardinality(S) \in N
  <2>1. Nat \subseteq N
    <3> HIDE DEF N
    <3> QED BY <1>1, <1>2, NatSetInduction
  <2>2. QED BY <2>1, FS_CardinalityType
<1>4. Ends(S)
  BY <1>3
<1>5. QED BY <1>4 DEF Min, Max

-----------------------------------------------------------------------------
(* Sequences.                                                               *)

\* InsertAt puts e at position i and moves what was there and behind by one.
LEMMA InsertAtProperties ==
    ASSUME NEW S, NEW q \in Seq(S), NEW i \in 1 .. Len(q) + 1, NEW e \in S
    PROVE  /\ InsertAt(q, i, e) \in Seq(S)
           /\ Len(InsertAt(q, i, e)) = Len(q) + 1
           /\ \A j \in 1 .. i - 1 : InsertAt(q, i, e)[j] = q[j]
           /\ InsertAt(q, i, e)[i] = e
           /\ \A j \in i + 1 .. Len(q) + 1 : InsertAt(q, i, e)[j] = q[j - 1]
<1> DEFINE a == SubSeq(q, 1, i - 1)
           b == SubSeq(q, i, Len(q))
<1>1. a \in Seq(S) /\ Len(a) = i - 1 /\ \A j \in 1 .. i - 1 : a[j] = q[j]
  BY SubSeqProperties
<1>2. b \in Seq(S) /\ Len(b) = Len(q) - i + 1 /\ \A j \in 1 .. Len(q) - i + 1 : b[j] = q[i + j - 1]
  BY SubSeqProperties
<1> HIDE DEF a, b
<1>3. <<e>> \in Seq(S) /\ Len(<<e>>) = 1 /\ <<e>>[1] = e
  OBVIOUS
<1> DEFINE c == a \o <<e>>
<1>4. c \in Seq(S) /\ Len(c) = i /\ \A j \in 1 .. i : c[j] = IF j < i THEN q[j] ELSE e
  BY <1>1, <1>3, ConcatProperties
<1> HIDE DEF c
<1>5. /\ c \o b \in Seq(S) /\ Len(c \o b) = Len(q) + 1
      /\ \A j \in 1 .. Len(q) + 1 : (c \o b)[j] = IF j <= i THEN c[j] ELSE b[j - i]
  BY <1>2, <1>4, ConcatProperties
<1>6. InsertAt(q, i, e) = c \o b
  BY DEF InsertAt, a, b, c
<1>7. \A j \in 1 .. i - 1 : (c \o b)[j] = q[j]
  BY <1>4, <1>5
<1>8. (c \o b)[i] = e
  BY <1>4, <1>5
<1>9. ASSUME NEW j \in i + 1 .. Len(q) + 1 PROVE (c \o b)[j] = q[j - 1]
  <2>1. j - i \in 1 .. Len(q) - i + 1 /\ i + (j - i) - 1 = j - 1
    OBVIOUS
  <2>2. (c \o b)[j] = b[j - i]
    BY <1>5
  <2>3. QED BY <2>1, <2>2, <1>2
<1>10. QED BY <1>5, <1>6, <1>7, <1>8, <1>9

\* RemoveAt takes position i out and moves what was behind it back by one.
LEMMA RemoveAtProperties ==
    ASSUME NEW S, NEW q \in Seq(S), NEW i \in 1 .. Len(q)
    PROVE  /\ RemoveAt(q, i) \in Seq(S)
           /\ Len(RemoveAt(q, i)) = Len(q) - 1
           /\ \A j \in 1 .. i - 1 : RemoveAt(q, i)[j] = q[j]
           /\ \A j \in i .. Len(q) - 1 : RemoveAt(q, i)[j] = q[j + 1]
<1> DEFINE a == SubSeq(q, 1, i - 1)
           b == SubSeq(q, i + 1, Len(q))
<1>1. a \in Seq(S) /\ Len(a) = i - 1 /\ \A j \in 1 .. i - 1 : a[j] = q[j]
  BY SubSeqProperties
<1>2. b \in Seq(S) /\ Len(b) = Len(q) - i /\ \A j \in 1 .. Len(q) - i : b[j] = q[i + j]
  <2>1. \A j \in i + 1 .. Len(q) : q[j] \in S
    OBVIOUS
  <2>2. i + 1 \in Int /\ Len(q) \in Int /\ Len(q) - (i + 1) + 1 = Len(q) - i
    OBVIOUS
  <2>3. \A j \in 1 .. Len(q) - i : i + 1 + j - 1 = i + j
    OBVIOUS
  <2>4. /\ b \in Seq(S) /\ Len(b) = IF i + 1 <= Len(q) THEN Len(q) - (i + 1) + 1 ELSE 0
        /\ \A j \in 1 .. Len(q) - (i + 1) + 1 : b[j] = q[i + 1 + j - 1]
    BY <2>1, <2>2, SubSeqProperties
  <2> HIDE DEF b
  <2>5. Len(b) = Len(q) - i
    <3>1. (IF i + 1 <= Len(q) THEN Len(q) - (i + 1) + 1 ELSE 0) = Len(q) - i
      OBVIOUS
    <3>2. QED BY <2>4, <3>1
  <2>6. ASSUME NEW j \in 1 .. Len(q) - i PROVE b[j] = q[i + j]
    <3>1. j \in 1 .. Len(q) - (i + 1) + 1 /\ i + 1 + j - 1 = i + j
      OBVIOUS
    <3>2. QED BY <3>1, <2>4
  <2>7. QED BY <2>4, <2>5, <2>6
<1> HIDE DEF a, b
<1>5. /\ a \o b \in Seq(S) /\ Len(a \o b) = Len(q) - 1
      /\ \A j \in 1 .. Len(q) - 1 : (a \o b)[j] = IF j <= i - 1 THEN a[j] ELSE b[j - (i - 1)]
  <2>1. a \in Seq(S) /\ b \in Seq(S)
    BY <1>1, <1>2
  <2>2. /\ a \o b \in Seq(S) /\ Len(a \o b) = Len(a) + Len(b)
        /\ \A j \in 1 .. Len(a) + Len(b) :
              (a \o b)[j] = IF j <= Len(a) THEN a[j] ELSE b[j - Len(a)]
    BY ONLY <2>1, ConcatProperties
  <2>3. Len(a) = i - 1 /\ Len(b) = Len(q) - i /\ Len(a) + Len(b) = Len(q) - 1
    BY <1>1, <1>2
  <2>4. QED BY ONLY <2>2, <2>3
<1>6. RemoveAt(q, i) = a \o b
  BY DEF RemoveAt, a, b
<1>7. \A j \in 1 .. i - 1 : (a \o b)[j] = q[j]
  BY <1>1, <1>5
<1>8. ASSUME NEW j \in i .. Len(q) - 1 PROVE (a \o b)[j] = q[j + 1]
  <2>1. j - (i - 1) \in 1 .. Len(q) - i /\ i + (j - (i - 1)) = j + 1
    OBVIOUS
  <2>2. (a \o b)[j] = b[j - (i - 1)]
    BY <1>5
  <2>3. QED BY <2>1, <2>2, <1>2
<1>9. QED BY <1>5, <1>6, <1>7, <1>8

\* r is o with its elements permuted.
Permuted(o, r) ==
    /\ Len(r) = Len(o)
    /\ \E was, now \in [1 .. Len(o) -> 1 .. Len(o)] :
          /\ \A i \in 1 .. Len(o) : r[i] = o[was[i]]
          /\ \A i, j \in 1 .. Len(o) : was[i] = was[j] => i = j
          /\ \A m \in 1 .. Len(o) : was[now[m]] = m

\* Moving one element of a sequence elsewhere permutes its positions.
LEMMA MoveElement ==
    ASSUME NEW S, NEW o \in Seq(S), NEW from \in 1 .. Len(o), NEW to \in 1 .. Len(o)
    PROVE  /\ InsertAt(RemoveAt(o, from), to, o[from]) \in Seq(S)
           /\ Permuted(o, InsertAt(RemoveAt(o, from), to, o[from]))
<1> DEFINE n == Len(o)
           q == RemoveAt(o, from)
           l == o[from]
           r == InsertAt(q, to, l)
           W(i) == IF i = to THEN from
                   ELSE IF i < to THEN (IF i < from THEN i ELSE i + 1)
                   ELSE IF i - 1 < from THEN i - 1 ELSE i
           V(m) == IF m = from THEN to
                   ELSE IF m < from THEN (IF m < to THEN m ELSE m + 1)
                   ELSE IF m - 1 < to THEN m - 1 ELSE m
           was == [i \in 1 .. n |-> W(i)]
           now == [m \in 1 .. n |-> V(m)]
<1>1. n \in Nat /\ l \in S
  BY ElementOfSeq, LenProperties
<1>2. /\ q \in Seq(S) /\ Len(q) = n - 1
      /\ \A j \in 1 .. from - 1 : q[j] = o[j]
      /\ \A j \in from .. n - 1 : q[j] = o[j + 1]
  BY RemoveAtProperties
<1> HIDE DEF q, l
<1>3. /\ r \in Seq(S) /\ Len(r) = n
      /\ \A j \in 1 .. to - 1 : r[j] = q[j]
      /\ r[to] = l
      /\ \A j \in to + 1 .. n : r[j] = q[j - 1]
  <2>1. q \in Seq(S) /\ to \in 1 .. Len(q) + 1 /\ Len(q) + 1 = n
    BY <1>1, <1>2
  <2>2. /\ r \in Seq(S) /\ Len(r) = Len(q) + 1
        /\ \A j \in 1 .. to - 1 : r[j] = q[j]
        /\ r[to] = l
        /\ \A j \in to + 1 .. Len(q) + 1 : r[j] = q[j - 1]
    BY ONLY <1>1, <2>1, InsertAtProperties
  <2>3. QED BY <2>1, <2>2
<1> HIDE DEF r
<1>4. from \in 1 .. n /\ to \in 1 .. n
  OBVIOUS
<1> HIDE DEF n
<1>5. \A i \in 1 .. n : W(i) \in 1 .. n /\ r[i] = o[W(i)]
  <2> SUFFICES ASSUME NEW i \in 1 .. n PROVE W(i) \in 1 .. n /\ r[i] = o[W(i)]
    OBVIOUS
  <2>1. CASE i = to
    BY <1>3, <1>4, <2>1 DEF l
  <2>2. CASE i < to
    <3>1. r[i] = q[i] /\ i \in 1 .. n - 1
      BY <1>1, <1>3, <1>4, <2>2
    <3>2. q[i] = IF i < from THEN o[i] ELSE o[i + 1]
      BY <1>1, <1>2, <1>4, <3>1
    <3>3. QED BY <1>1, <1>4, <2>2, <3>1, <3>2
  <2>3. CASE i > to
    <3>1. r[i] = q[i - 1] /\ i - 1 \in 1 .. n - 1 /\ i # to /\ ~(i < to)
      BY <1>1, <1>3, <1>4, <2>3
    <3>2. q[i - 1] = IF i - 1 < from THEN o[i - 1] ELSE o[i]
      BY <1>1, <1>2, <1>4, <3>1
    <3>3. QED BY <1>1, <1>4, <2>3, <3>1, <3>2
  <2>4. QED BY <1>1, <1>4, <2>1, <2>2, <2>3
<1>6. /\ \A i, j \in 1 .. n : W(i) = W(j) => i = j
      /\ \A m \in 1 .. n : V(m) \in 1 .. n /\ W(V(m)) = m
  BY <1>1, <1>4
<1> HIDE DEF W, V
<1>7. was \in [1 .. n -> 1 .. n] /\ now \in [1 .. n -> 1 .. n]
  BY <1>5, <1>6
<1>8. /\ \A i \in 1 .. n : r[i] = o[was[i]]
      /\ \A i, j \in 1 .. n : was[i] = was[j] => i = j
      /\ \A m \in 1 .. n : was[now[m]] = m
  BY <1>5, <1>6
<1> HIDE DEF was, now
<1>9. \E x, y \in [1 .. n -> 1 .. n] :
         /\ \A i \in 1 .. n : r[i] = o[x[i]]
         /\ \A i, j \in 1 .. n : x[i] = x[j] => i = j
         /\ \A m \in 1 .. n : x[y[m]] = m
  BY <1>7, <1>8
<1>10. QED BY <1>3, <1>9 DEF n, r, q, l, Permuted

\* SetToSeq lists a finite set.
LEMMA SetToSeqProperties ==
    ASSUME NEW S, IsFiniteSet(S)
    PROVE  SetToSeq(S) \in Seq(S) /\ ToSet(SetToSeq(S)) = S /\ IsInjective(SetToSeq(S))
<1> DEFINE n == Cardinality(S)
<1>1. n \in Nat /\ ExistsBijection(1 .. n, S)
  BY FS_CardinalityType
<1>2. PICK f \in Bijection(1 .. n, S) : TRUE
  BY <1>1 DEF ExistsBijection
<1>3. f \in [1 .. n -> S] /\ IsInjective(f)
  BY <1>2 DEF Bijection, Injection, IsInjective
<1> DEFINE g == SetToSeq(S)
<1>4. g \in [1 .. n -> S] /\ IsInjective(g)
  BY <1>3 DEF SetToSeq
<1> HIDE DEF g
<1>5. g \in Injection(1 .. n, S)
  BY <1>4 DEF Injection, IsInjective
<1>6. IsFiniteSet(1 .. n) /\ Cardinality(1 .. n) = n
  BY <1>1, FS_Interval
<1>7. g \in Surjection(1 .. n, S)
  BY <1>5, <1>6, FS_Injection
<1>8. \A s \in S : \E i \in 1 .. n : g[i] = s
  BY <1>7 DEF Surjection
<1>9. g \in Seq(S)
  BY <1>1, <1>4
<1>10. ToSet(g) = S
  BY <1>4, <1>8 DEF ToSet
<1>11. QED BY <1>4, <1>9, <1>10 DEF g

-----------------------------------------------------------------------------
(* The inductive invariant, a document at a time.                           *)

Slot == [group : Nat \cup {Null}, tracks : Seq(TrackId)]
Layer == [id : Int, slots : Seq(Slot)]
Note == [track : Int, lane : Lanes]

\* A runtime track has no lane, an instrument has one.
Typed(S) == {f \in [S -> Lanes \cup {Null}] : \A t \in S : f[t] = Null <=> t \in RuntimeIds}
Entities == UNION {Typed(S) : S \in FiniteSubsetsOf(TrackId)}

Documents == [ordering : Seq(Layer) \ {<<>>}, tracks : Entities,
              notes : FiniteSubsetsOf(Note), groups : FiniteSubsetsOf(Nat), clash : BOOLEAN]

\* A group slot has its name, and no other slot has it.
GroupAt(d, p) == d.ordering[p[1]].slots[p[2]].group
Grouped(d) == \A p \in Slots(d) : GroupAt(d, p) # Null =>
    GroupAt(d, p) \in d.groups /\ \A q \in Slots(d) : GroupAt(d, q) = GroupAt(d, p) => p = q

\* The tracks whose rows a clash cannot double: after one, only the runtime
\* tracks, whose ids are not minted.
Scope(d) == IF d.clash THEN RuntimeIds ELSE TrackId
Single(d) == \A p, q \in Rows(d) : p.track = q.track /\ p.track \in Scope(d) => p = q
Known(d) == Placed(d) \cap Scope(d) \subseteq DOMAIN d.tracks

Good == {d \in Documents : Grouped(d) /\ Single(d) /\ Known(d)}
Histories == Seq(Good) \ {<<>>}

-----------------------------------------------------------------------------
(* A document looked at position by position.                               *)

InSlot(d, i, j, g) ==
    /\ i \in DOMAIN d.ordering /\ j \in DOMAIN d.ordering[i].slots
    /\ g = d.ordering[i].slots[j].group
InRow(d, i, j, k, x) ==
    /\ i \in DOMAIN d.ordering /\ j \in DOMAIN d.ordering[i].slots
    /\ k \in DOMAIN d.ordering[i].slots[j].tracks /\ x = d.ordering[i].slots[j].tracks[k]

\* The sequences of a document, and that their positions are naturals.
LEMMA DocumentShape ==
    ASSUME NEW d \in Documents
    PROVE  /\ d.ordering \in Seq(Layer) /\ Len(d.ordering) \in Nat \ {0}
           /\ DOMAIN d.ordering = 1 .. Len(d.ordering)
           /\ \A i \in DOMAIN d.ordering :
                 /\ d.ordering[i].id \in Int /\ d.ordering[i].slots \in Seq(Slot)
                 /\ Len(d.ordering[i].slots) \in Nat
                 /\ DOMAIN d.ordering[i].slots = 1 .. Len(d.ordering[i].slots)
                 /\ \A j \in DOMAIN d.ordering[i].slots :
                       LET s == d.ordering[i].slots[j]
                       IN /\ s \in Slot /\ s.group \in Nat \cup {Null} /\ s.tracks \in Seq(TrackId)
                          /\ Len(s.tracks) \in Nat /\ DOMAIN s.tracks = 1 .. Len(s.tracks)
<1>1. d.ordering \in Seq(Layer) /\ d.ordering # <<>>
  BY DEF Documents
<1>2. Len(d.ordering) \in Nat \ {0} /\ DOMAIN d.ordering = 1 .. Len(d.ordering)
  BY <1>1, EmptySeq, LenProperties
<1>3. ASSUME NEW i \in DOMAIN d.ordering
      PROVE  /\ d.ordering[i].id \in Int /\ d.ordering[i].slots \in Seq(Slot)
             /\ Len(d.ordering[i].slots) \in Nat
             /\ DOMAIN d.ordering[i].slots = 1 .. Len(d.ordering[i].slots)
  <2>1. d.ordering[i] \in Layer
    BY <1>1, <1>2, ElementOfSeq
  <2>2. QED BY <2>1, LenProperties DEF Layer
<1>4. ASSUME NEW i \in DOMAIN d.ordering, NEW j \in DOMAIN d.ordering[i].slots
      PROVE  LET s == d.ordering[i].slots[j]
             IN /\ s \in Slot /\ s.group \in Nat \cup {Null} /\ s.tracks \in Seq(TrackId)
                /\ Len(s.tracks) \in Nat /\ DOMAIN s.tracks = 1 .. Len(s.tracks)
  <2>1. d.ordering[i].slots[j] \in Slot
    BY <1>3, ElementOfSeq
  <2>2. QED BY <2>1, LenProperties DEF Slot
<1>5. QED BY <1>1, <1>2, <1>3, <1>4

\* Rows and Slots are the positions InRow and InSlot hold at.
LEMMA RowsAreInRow ==
    ASSUME NEW d
    PROVE  /\ \A r \in Rows(d) : InRow(d, r.li, r.si, r.ti, r.track)
                                  /\ r = [li |-> r.li, si |-> r.si, ti |-> r.ti, track |-> r.track]
           /\ \A i, j, k, x : InRow(d, i, j, k, x) =>
                 [li |-> i, si |-> j, ti |-> k, track |-> x] \in Rows(d)
           /\ \A p \in Slots(d) : InSlot(d, p[1], p[2], GroupAt(d, p)) /\ p = <<p[1], p[2]>>
           /\ \A i, j, g : InSlot(d, i, j, g) => <<i, j>> \in Slots(d) /\ GroupAt(d, <<i, j>>) = g
<1>1. ASSUME NEW p \in Slots(d)
      PROVE  InSlot(d, p[1], p[2], GroupAt(d, p)) /\ p = <<p[1], p[2]>>
  <2>1. PICK li \in DOMAIN d.ordering : p \in {li} \X DOMAIN d.ordering[li].slots
    BY DEF Slots
  <2>2. QED BY <2>1 DEF InSlot, GroupAt
<1>2. ASSUME NEW i, NEW j, NEW g, InSlot(d, i, j, g)
      PROVE  <<i, j>> \in Slots(d) /\ GroupAt(d, <<i, j>>) = g
  <2>1. <<i, j>> \in {i} \X DOMAIN d.ordering[i].slots /\ i \in DOMAIN d.ordering
    BY <1>2 DEF InSlot
  <2>2. QED BY <1>2, <2>1 DEF Slots, InSlot, GroupAt
<1>3. ASSUME NEW r \in Rows(d)
      PROVE  InRow(d, r.li, r.si, r.ti, r.track)
             /\ r = [li |-> r.li, si |-> r.si, ti |-> r.ti, track |-> r.track]
  <2>1. PICK p \in Slots(d) : \E ti \in DOMAIN d.ordering[p[1]].slots[p[2]].tracks :
            r = [li |-> p[1], si |-> p[2], ti |-> ti,
                 track |-> d.ordering[p[1]].slots[p[2]].tracks[ti]]
    BY DEF Rows
  <2>2. p[1] \in DOMAIN d.ordering /\ p[2] \in DOMAIN d.ordering[p[1]].slots
    BY <1>1 DEF InSlot
  <2>3. PICK ti \in DOMAIN d.ordering[p[1]].slots[p[2]].tracks :
            r = [li |-> p[1], si |-> p[2], ti |-> ti,
                 track |-> d.ordering[p[1]].slots[p[2]].tracks[ti]]
    BY <2>1
  <2>4. r.li = p[1] /\ r.si = p[2] /\ r.ti = ti
        /\ r.track = d.ordering[p[1]].slots[p[2]].tracks[ti]
    BY <2>3
  <2>5. QED BY <2>2, <2>3, <2>4 DEF InRow
<1>4. ASSUME NEW i, NEW j, NEW k, NEW x, InRow(d, i, j, k, x)
      PROVE  [li |-> i, si |-> j, ti |-> k, track |-> x] \in Rows(d)
  <2> DEFINE p == <<i, j>>
  <2>1. p \in Slots(d) /\ p[1] = i /\ p[2] = j
    BY <1>2, <1>4 DEF InRow, InSlot
  <2> HIDE DEF p
  <2>2. [li |-> i, si |-> j, ti |-> k, track |-> x] =
        [li |-> p[1], si |-> p[2], ti |-> k, track |-> d.ordering[p[1]].slots[p[2]].tracks[k]]
        /\ k \in DOMAIN d.ordering[p[1]].slots[p[2]].tracks
    BY <1>4, <2>1 DEF InRow
  <2> DEFINE C(o) == {[li |-> o[1], si |-> o[2], ti |-> ti,
                       track |-> d.ordering[o[1]].slots[o[2]].tracks[ti]] :
                         ti \in DOMAIN d.ordering[o[1]].slots[o[2]].tracks}
  <2>3. [li |-> i, si |-> j, ti |-> k, track |-> x] \in C(p)
    BY <2>2
  <2>4. Rows(d) = UNION {C(o) : o \in Slots(d)}
    BY DEF Rows
  <2> HIDE DEF C
  <2>5. QED BY <2>1, <2>3, <2>4
<1>5. QED BY <1>1, <1>2, <1>3, <1>4

\* The positions are naturals.
LEMMA InRowNat ==
    ASSUME NEW d \in Documents, NEW i, NEW j, NEW k, NEW x, InRow(d, i, j, k, x)
    PROVE  i \in Nat \ {0} /\ j \in Nat \ {0} /\ k \in Nat \ {0} /\ x \in TrackId
<1>1. i \in DOMAIN d.ordering /\ j \in DOMAIN d.ordering[i].slots
      /\ k \in DOMAIN d.ordering[i].slots[j].tracks /\ x = d.ordering[i].slots[j].tracks[k]
  BY DEF InRow
<1>2. /\ DOMAIN d.ordering = 1 .. Len(d.ordering) /\ Len(d.ordering) \in Nat
      /\ DOMAIN d.ordering[i].slots = 1 .. Len(d.ordering[i].slots)
      /\ Len(d.ordering[i].slots) \in Nat
      /\ d.ordering[i].slots[j].tracks \in Seq(TrackId)
      /\ DOMAIN d.ordering[i].slots[j].tracks = 1 .. Len(d.ordering[i].slots[j].tracks)
      /\ Len(d.ordering[i].slots[j].tracks) \in Nat
  BY <1>1, DocumentShape
<1>3. x \in TrackId
  BY <1>1, <1>2, ElementOfSeq
<1>4. i \in Nat \ {0} /\ j \in Nat \ {0} /\ k \in Nat \ {0}
  BY ONLY <1>1, <1>2
<1>5. QED BY <1>3, <1>4

\* So are those of a slot, and its group is one.
LEMMA InSlotNat ==
    ASSUME NEW d \in Documents, NEW i, NEW j, NEW g, InSlot(d, i, j, g)
    PROVE  i \in Nat \ {0} /\ j \in Nat \ {0} /\ g \in Nat \cup {Null}
<1>1. QED BY DocumentShape DEF InSlot

\* The invariant, position by position.
LEMMA GoodByPosition ==
    ASSUME NEW d \in Documents
    PROVE  d \in Good <=>
             /\ \A i, j, g : InSlot(d, i, j, g) /\ g # Null =>
                   g \in d.groups /\ \A i2, j2 : InSlot(d, i2, j2, g) => i = i2 /\ j = j2
             /\ \A i, j, k, x : InRow(d, i, j, k, x) /\ x \in Scope(d) =>
                   /\ x \in DOMAIN d.tracks
                   /\ \A i2, j2, k2 : InRow(d, i2, j2, k2, x) => i = i2 /\ j = j2 /\ k = k2
<1> DEFINE G == \A i, j, g : InSlot(d, i, j, g) /\ g # Null =>
                   g \in d.groups /\ \A i2, j2 : InSlot(d, i2, j2, g) => i = i2 /\ j = j2
           K == \A i, j, k, x : InRow(d, i, j, k, x) /\ x \in Scope(d) => x \in DOMAIN d.tracks
           U == \A i, j, k, x : InRow(d, i, j, k, x) /\ x \in Scope(d) =>
                   \A i2, j2, k2 : InRow(d, i2, j2, k2, x) => i = i2 /\ j = j2 /\ k = k2
<1>1. Grouped(d) <=> G
  <2>1. ASSUME Grouped(d), NEW i, NEW j, NEW g, InSlot(d, i, j, g), g # Null
        PROVE  g \in d.groups /\ \A i2, j2 : InSlot(d, i2, j2, g) => i = i2 /\ j = j2
    <3>1. <<i, j>> \in Slots(d) /\ GroupAt(d, <<i, j>>) = g
      BY <2>1, RowsAreInRow
    <3>2. ASSUME NEW i2, NEW j2, InSlot(d, i2, j2, g) PROVE i = i2 /\ j = j2
      <4>1. <<i2, j2>> \in Slots(d) /\ GroupAt(d, <<i2, j2>>) = g
        BY <3>2, RowsAreInRow
      <4>2. <<i, j>> = <<i2, j2>>
        BY <2>1, <3>1, <4>1 DEF Grouped
      <4>3. QED BY <4>2
    <3>3. QED BY <2>1, <3>1, <3>2 DEF Grouped
  <2>2. ASSUME G, NEW p \in Slots(d), GroupAt(d, p) # Null
        PROVE  GroupAt(d, p) \in d.groups /\
               \A q \in Slots(d) : GroupAt(d, q) = GroupAt(d, p) => p = q
    <3>1. InSlot(d, p[1], p[2], GroupAt(d, p)) /\ p = <<p[1], p[2]>>
      BY RowsAreInRow
    <3>2. ASSUME NEW q \in Slots(d), GroupAt(d, q) = GroupAt(d, p) PROVE p = q
      <4>1. InSlot(d, q[1], q[2], GroupAt(d, p)) /\ q = <<q[1], q[2]>>
        BY <3>2, RowsAreInRow
      <4>2. p[1] = q[1] /\ p[2] = q[2]
        BY <2>2, <3>1, <4>1
      <4>3. QED BY <3>1, <4>1, <4>2
    <3>3. QED BY <2>2, <3>1, <3>2
  <2>3. QED BY <2>1, <2>2 DEF Grouped
<1>2. Known(d) <=> K
  <2>1. ASSUME Known(d), NEW i, NEW j, NEW k, NEW x, InRow(d, i, j, k, x), x \in Scope(d)
        PROVE  x \in DOMAIN d.tracks
    <3> DEFINE r == [li |-> i, si |-> j, ti |-> k, track |-> x]
    <3>1. r \in Rows(d) /\ r.track = x
      BY <2>1, RowsAreInRow
    <3> HIDE DEF r
    <3>2. x \in Placed(d)
      BY <3>1 DEF Placed
    <3>3. QED BY <2>1, <3>2 DEF Known
  <2>2. ASSUME K, NEW x \in Placed(d) \cap Scope(d) PROVE x \in DOMAIN d.tracks
    <3>1. PICK r \in Rows(d) : r.track = x
      BY DEF Placed
    <3>2. InRow(d, r.li, r.si, r.ti, x)
      BY <3>1, RowsAreInRow
    <3>3. QED BY <2>2, <3>2
  <2>3. QED BY <2>1, <2>2 DEF Known
<1>3. Single(d) <=> U
  <2>1. ASSUME Single(d), NEW i, NEW j, NEW k, NEW x, InRow(d, i, j, k, x), x \in Scope(d),
               NEW i2, NEW j2, NEW k2, InRow(d, i2, j2, k2, x)
        PROVE  i = i2 /\ j = j2 /\ k = k2
    <3> DEFINE r == [li |-> i, si |-> j, ti |-> k, track |-> x]
               q == [li |-> i2, si |-> j2, ti |-> k2, track |-> x]
    <3>1. r \in Rows(d) /\ q \in Rows(d) /\ r.track = x /\ q.track = x
      BY <2>1, RowsAreInRow
    <3>2. r = q
      <4> HIDE DEF r, q
      <4> QED BY <2>1, <3>1 DEF Single
    <3>3. r.li = q.li /\ r.si = q.si /\ r.ti = q.ti
      <4> HIDE DEF r, q
      <4> QED BY <3>2
    <3>4. QED BY <3>3
  <2>2. ASSUME U, NEW p \in Rows(d), NEW q \in Rows(d), p.track = q.track, p.track \in Scope(d)
        PROVE  p = q
    <3>1. InRow(d, p.li, p.si, p.ti, p.track) /\ InRow(d, q.li, q.si, q.ti, p.track)
      BY <2>2, RowsAreInRow
    <3>2. p.li = q.li /\ p.si = q.si /\ p.ti = q.ti
      BY <2>2, <3>1
    <3>3. /\ p = [li |-> p.li, si |-> p.si, ti |-> p.ti, track |-> p.track]
          /\ q = [li |-> q.li, si |-> q.si, ti |-> q.ti, track |-> q.track]
      BY RowsAreInRow
    <3>4. QED BY <2>2, <3>2, <3>3
  <2>3. QED BY <2>1, <2>2 DEF Single
<1>4. d \in Good <=> G /\ K /\ U
  BY <1>1, <1>2, <1>3 DEF Good
<1>5. QED BY <1>4

\* The tracks that have a row.
LEMMA PlacedByPosition ==
    ASSUME NEW d, NEW x
    PROVE  x \in Placed(d) <=> \E i, j, k : InRow(d, i, j, k, x)
<1>1. ASSUME x \in Placed(d) PROVE \E i, j, k : InRow(d, i, j, k, x)
  BY <1>1, RowsAreInRow DEF Placed
<1>2. ASSUME NEW i, NEW j, NEW k, InRow(d, i, j, k, x) PROVE x \in Placed(d)
  <2> DEFINE r == [li |-> i, si |-> j, ti |-> k, track |-> x]
  <2>1. r \in Rows(d) /\ r.track = x
    BY <1>2, RowsAreInRow
  <2> HIDE DEF r
  <2>2. QED BY <2>1 DEF Placed
<1>3. QED BY <1>1, <1>2

-----------------------------------------------------------------------------
(* A document with other slots in one layer: every write of a slot or of a  *)
(* slot's tracks is one.                                                    *)

WithSlots(d, li, q) == [d EXCEPT !.ordering[li].slots = q]

\* e is d with other slots in its layers.
Rearranged(d, e) ==
    /\ e \in Documents /\ d \in Documents
    /\ e.tracks = d.tracks /\ e.notes = d.notes /\ e.clash = d.clash
    /\ DOMAIN e.ordering = DOMAIN d.ordering
    /\ \A i \in DOMAIN d.ordering : e.ordering[i].id = d.ordering[i].id

\* Only that layer's slots change.
LEMMA WithSlotsShape ==
    ASSUME NEW d \in Documents, NEW li \in DOMAIN d.ordering, NEW q \in Seq(Slot)
    PROVE  LET e == WithSlots(d, li, q)
           IN /\ Rearranged(d, e) /\ e.groups = d.groups
              /\ \A i \in DOMAIN d.ordering :
                    e.ordering[i].slots = IF i = li THEN q ELSE d.ordering[i].slots
              /\ \A i, j, g : InSlot(e, i, j, g) <=>
                    IF i = li THEN j \in DOMAIN q /\ g = q[j].group ELSE InSlot(d, i, j, g)
              /\ \A i, j, k, x : InRow(e, i, j, k, x) <=>
                    IF i = li THEN j \in DOMAIN q /\ k \in DOMAIN q[j].tracks /\ x = q[j].tracks[k]
                    ELSE InRow(d, i, j, k, x)
<1> DEFINE l == [d.ordering[li] EXCEPT !.slots = q]
           o == [d.ordering EXCEPT ![li] = l]
           e == [d EXCEPT !.ordering = o]
<1>1. d.ordering \in Seq(Layer) /\ DOMAIN d.ordering = 1 .. Len(d.ordering) /\ d.ordering # <<>>
      /\ d.ordering[li] \in Layer /\ Len(d.ordering) \in Nat \ {0}
  <2>1. d.ordering # <<>>
    BY DEF Documents
  <2>2. QED BY <2>1, DocumentShape, ElementOfSeq
<1>2. l \in Layer /\ l.id = d.ordering[li].id /\ l.slots = q
  BY <1>1 DEF Layer
<1> HIDE DEF l
<1>3. o \in Seq(Layer) /\ DOMAIN o = DOMAIN d.ordering /\ o # <<>>
      /\ \A i \in DOMAIN d.ordering : o[i] = IF i = li THEN l ELSE d.ordering[i]
  <2>1. o \in Seq(Layer) /\ Len(o) = Len(d.ordering)
        /\ \A i \in 1 .. Len(d.ordering) : o[i] = IF i = li THEN l ELSE d.ordering[i]
    BY <1>1, <1>2, ExceptSeq
  <2> HIDE DEF o
  <2>2. QED BY <2>1, <1>1, LenProperties, EmptySeq
<1> HIDE DEF o
<1>4. /\ e \in Documents /\ e.ordering = o
      /\ e.tracks = d.tracks /\ e.notes = d.notes /\ e.groups = d.groups /\ e.clash = d.clash
  BY <1>3 DEF Documents
<1>5. WithSlots(d, li, q) = e
  BY DEF WithSlots, e, o, l
<1> HIDE DEF e
<1>6. \A i \in DOMAIN d.ordering :
          /\ e.ordering[i].id = d.ordering[i].id
          /\ e.ordering[i].slots = IF i = li THEN q ELSE d.ordering[i].slots
  BY <1>2, <1>3, <1>4
<1>10. Rearranged(d, e)
  BY <1>3, <1>4, <1>6 DEF Rearranged
<1>7. \A i, j, g : InSlot(e, i, j, g) <=>
          IF i = li THEN j \in DOMAIN q /\ g = q[j].group ELSE InSlot(d, i, j, g)
  BY <1>3, <1>4, <1>6 DEF InSlot
<1>8. \A i, j, k, x : InRow(e, i, j, k, x) <=>
          IF i = li THEN j \in DOMAIN q /\ k \in DOMAIN q[j].tracks /\ x = q[j].tracks[k]
          ELSE InRow(d, i, j, k, x)
  BY <1>3, <1>4, <1>6 DEF InRow
<1>9. QED BY <1>4, <1>5, <1>6, <1>7, <1>8, <1>10

\* A slot put in at position si.
SlotPut(d, e, li, si, slot) ==
    /\ \A i, j \in Nat : \A g : InSlot(e, i, j, g) <=>
          IF i # li \/ j < si THEN InSlot(d, i, j, g)
          ELSE IF j = si THEN g = slot.group ELSE InSlot(d, i, j - 1, g)
    /\ \A i, j, k \in Nat : \A x : InRow(e, i, j, k, x) <=>
          IF i # li \/ j < si THEN InRow(d, i, j, k, x)
          ELSE IF j = si THEN k \in DOMAIN slot.tracks /\ x = slot.tracks[k]
          ELSE InRow(d, i, j - 1, k, x)

\* Inserting a slot shifts those behind it, in its layer only.
LEMMA InsertSlotShape ==
    ASSUME NEW d \in Documents, NEW li \in DOMAIN d.ordering,
           NEW si \in 1 .. Len(d.ordering[li].slots) + 1, NEW slot \in Slot
    PROVE  LET e == InsertSlot(d, li, si, slot)
           IN /\ Rearranged(d, e) /\ e.groups = d.groups
              /\ Len(e.ordering[li].slots) = Len(d.ordering[li].slots) + 1
              /\ \A i \in DOMAIN d.ordering : i # li => e.ordering[i].slots = d.ordering[i].slots
              /\ SlotPut(d, e, li, si, slot)
<1> DEFINE p == d.ordering[li].slots
           q == InsertAt(p, si, slot)
           e == WithSlots(d, li, q)
<1>1. p \in Seq(Slot) /\ Len(p) \in Nat /\ DOMAIN p = 1 .. Len(p)
  BY DocumentShape
<1> HIDE DEF p
<1>2. /\ q \in Seq(Slot) /\ Len(q) = Len(p) + 1
      /\ \A j \in 1 .. si - 1 : q[j] = p[j]
      /\ q[si] = slot
      /\ \A j \in si + 1 .. Len(p) + 1 : q[j] = p[j - 1]
  <2>1. si \in 1 .. Len(p) + 1
    BY DEF p
  <2>2. p \in Seq(Slot)
    BY <1>1
  <2>3. QED BY <2>1, <2>2, InsertAtProperties
<1> HIDE DEF q
<1>3. DOMAIN q = 1 .. Len(p) + 1
  BY <1>2, LenProperties
<1>4. InsertSlot(d, li, si, slot) = e
  BY DEF InsertSlot, WithSlots, p, q
<1> HIDE DEF e
<1>5. /\ Rearranged(d, e) /\ e.groups = d.groups
      /\ \A i \in DOMAIN d.ordering :
            e.ordering[i].slots = IF i = li THEN q ELSE d.ordering[i].slots
      /\ \A i, j, g : InSlot(e, i, j, g) <=>
            IF i = li THEN j \in DOMAIN q /\ g = q[j].group ELSE InSlot(d, i, j, g)
      /\ \A i, j, k, x : InRow(e, i, j, k, x) <=>
            IF i = li THEN j \in DOMAIN q /\ k \in DOMAIN q[j].tracks /\ x = q[j].tracks[k]
            ELSE InRow(d, i, j, k, x)
  BY <1>2, WithSlotsShape DEF e
<1>6. si \in Nat \ {0} /\ si <= Len(p) + 1
  BY <1>1 DEF p
<1>7. ASSUME NEW j \in Nat
      PROVE  /\ j < si => (j \in DOMAIN q <=> j \in DOMAIN p) /\ (j \in DOMAIN p => q[j] = p[j])
             /\ j = si => j \in DOMAIN q /\ q[j] = slot
             /\ j > si => (j \in DOMAIN q <=> j - 1 \in DOMAIN p) /\ (j \in DOMAIN q => q[j] = p[j - 1])
  BY <1>1, <1>2, <1>3, <1>6
<1>8. ASSUME NEW j \in Nat, NEW g
      PROVE  InSlot(e, li, j, g) <=> IF j < si THEN InSlot(d, li, j, g)
                    ELSE IF j = si THEN g = slot.group ELSE InSlot(d, li, j - 1, g)
  <2>1. j < si \/ j = si \/ j > si
    BY <1>6
  <2>2. /\ InSlot(e, li, j, g) <=> j \in DOMAIN q /\ g = q[j].group
        /\ InSlot(d, li, j, g) <=> j \in DOMAIN p /\ g = p[j].group
        /\ InSlot(d, li, j - 1, g) <=> j - 1 \in DOMAIN p /\ g = p[j - 1].group
    BY <1>5 DEF InSlot, p
  <2>3. QED BY ONLY <2>1, <2>2, <1>6, <1>7
<1>9. ASSUME NEW j \in Nat, NEW k \in Nat, NEW x
      PROVE  InRow(e, li, j, k, x) <=> IF j < si THEN InRow(d, li, j, k, x)
                    ELSE IF j = si THEN k \in DOMAIN slot.tracks /\ x = slot.tracks[k]
                    ELSE InRow(d, li, j - 1, k, x)
  <2>1. j < si \/ j = si \/ j > si
    BY <1>6
  <2>2. /\ InRow(e, li, j, k, x) <=> j \in DOMAIN q /\ k \in DOMAIN q[j].tracks /\ x = q[j].tracks[k]
        /\ InRow(d, li, j, k, x) <=> j \in DOMAIN p /\ k \in DOMAIN p[j].tracks /\ x = p[j].tracks[k]
        /\ InRow(d, li, j - 1, k, x) <=>
              j - 1 \in DOMAIN p /\ k \in DOMAIN p[j - 1].tracks /\ x = p[j - 1].tracks[k]
    BY <1>5 DEF InRow, p
  <2>3. QED BY ONLY <2>1, <2>2, <1>6, <1>7
<1>10. /\ Len(e.ordering[li].slots) = Len(d.ordering[li].slots) + 1
       /\ \A i \in DOMAIN d.ordering : i # li => e.ordering[i].slots = d.ordering[i].slots
  BY <1>2, <1>5 DEF p
<1>11. ASSUME NEW i \in Nat, NEW j \in Nat, NEW k \in Nat, NEW x
       PROVE  InRow(e, i, j, k, x) <=>
                    IF i # li \/ j < si THEN InRow(d, i, j, k, x)
                    ELSE IF j = si THEN k \in DOMAIN slot.tracks /\ x = slot.tracks[k]
                    ELSE InRow(d, i, j - 1, k, x)
  BY <1>5, <1>9
<1>12. ASSUME NEW i \in Nat, NEW j \in Nat, NEW g
       PROVE  InSlot(e, i, j, g) <=>
                    IF i # li \/ j < si THEN InSlot(d, i, j, g)
                    ELSE IF j = si THEN g = slot.group ELSE InSlot(d, i, j - 1, g)
  BY <1>5, <1>8
<1>13. SlotPut(d, e, li, si, slot)
  BY <1>11, <1>12 DEF SlotPut
<1>14. QED BY <1>4, <1>5, <1>10, <1>13

\* The slot at position si taken out.
LEMMA DropSlotShape ==
    ASSUME NEW d \in Documents, NEW li \in DOMAIN d.ordering,
           NEW si \in DOMAIN d.ordering[li].slots
    PROVE  LET e == DropSlot(d, li, si)
           IN /\ Rearranged(d, e) /\ e.groups = d.groups
              /\ Len(e.ordering[li].slots) = Len(d.ordering[li].slots) - 1
              /\ \A i \in DOMAIN d.ordering : i # li => e.ordering[i].slots = d.ordering[i].slots
              /\ \A i, j \in Nat : \A g : InSlot(e, i, j, g) <=>
                    IF i # li \/ j < si THEN InSlot(d, i, j, g) ELSE InSlot(d, i, j + 1, g)
              /\ \A i, j, k \in Nat : \A x : InRow(e, i, j, k, x) <=>
                    IF i # li \/ j < si THEN InRow(d, i, j, k, x) ELSE InRow(d, i, j + 1, k, x)
<1> DEFINE p == d.ordering[li].slots
           q == RemoveAt(p, si)
           e == WithSlots(d, li, q)
<1>1. p \in Seq(Slot) /\ Len(p) \in Nat /\ DOMAIN p = 1 .. Len(p)
  BY DocumentShape
<1> HIDE DEF p
<1>2. /\ q \in Seq(Slot) /\ Len(q) = Len(p) - 1
      /\ \A j \in 1 .. si - 1 : q[j] = p[j]
      /\ \A j \in si .. Len(p) - 1 : q[j] = p[j + 1]
  <2>1. si \in 1 .. Len(p)
    BY <1>1 DEF p
  <2>2. p \in Seq(Slot)
    BY <1>1
  <2>3. QED BY <2>1, <2>2, RemoveAtProperties
<1> HIDE DEF q
<1>3. DOMAIN q = 1 .. Len(p) - 1
  BY <1>2, LenProperties
<1>4. DropSlot(d, li, si) = e
  BY DEF DropSlot, WithSlots, p, q
<1> HIDE DEF e
<1>5. /\ Rearranged(d, e) /\ e.groups = d.groups
      /\ \A i \in DOMAIN d.ordering :
            e.ordering[i].slots = IF i = li THEN q ELSE d.ordering[i].slots
      /\ \A i, j, g : InSlot(e, i, j, g) <=>
            IF i = li THEN j \in DOMAIN q /\ g = q[j].group ELSE InSlot(d, i, j, g)
      /\ \A i, j, k, x : InRow(e, i, j, k, x) <=>
            IF i = li THEN j \in DOMAIN q /\ k \in DOMAIN q[j].tracks /\ x = q[j].tracks[k]
            ELSE InRow(d, i, j, k, x)
  BY <1>2, WithSlotsShape DEF e
<1>6. si \in Nat \ {0} /\ si <= Len(p)
  BY <1>1 DEF p
<1>7. ASSUME NEW j \in Nat
      PROVE  /\ j < si => (j \in DOMAIN q <=> j \in DOMAIN p) /\ (j \in DOMAIN p => q[j] = p[j])
             /\ j >= si => (j \in DOMAIN q <=> j + 1 \in DOMAIN p) /\ (j \in DOMAIN q => q[j] = p[j + 1])
  BY <1>1, <1>2, <1>3, <1>6
<1>8. ASSUME NEW j \in Nat, NEW g
      PROVE  InSlot(e, li, j, g) <=> IF j < si THEN InSlot(d, li, j, g) ELSE InSlot(d, li, j + 1, g)
  <2>1. j < si \/ j >= si
    BY <1>6
  <2>2. /\ InSlot(e, li, j, g) <=> j \in DOMAIN q /\ g = q[j].group
        /\ InSlot(d, li, j, g) <=> j \in DOMAIN p /\ g = p[j].group
        /\ InSlot(d, li, j + 1, g) <=> j + 1 \in DOMAIN p /\ g = p[j + 1].group
    BY <1>5 DEF InSlot, p
  <2>3. QED BY ONLY <2>1, <2>2, <1>6, <1>7
<1>9. ASSUME NEW j \in Nat, NEW k \in Nat, NEW x
      PROVE  InRow(e, li, j, k, x) <=>
                IF j < si THEN InRow(d, li, j, k, x) ELSE InRow(d, li, j + 1, k, x)
  <2>1. j < si \/ j >= si
    BY <1>6
  <2>2. /\ InRow(e, li, j, k, x) <=> j \in DOMAIN q /\ k \in DOMAIN q[j].tracks /\ x = q[j].tracks[k]
        /\ InRow(d, li, j, k, x) <=> j \in DOMAIN p /\ k \in DOMAIN p[j].tracks /\ x = p[j].tracks[k]
        /\ InRow(d, li, j + 1, k, x) <=>
              j + 1 \in DOMAIN p /\ k \in DOMAIN p[j + 1].tracks /\ x = p[j + 1].tracks[k]
    BY <1>5 DEF InRow, p
  <2>3. QED BY ONLY <2>1, <2>2, <1>6, <1>7
<1>10. /\ Len(e.ordering[li].slots) = Len(d.ordering[li].slots) - 1
       /\ \A i \in DOMAIN d.ordering : i # li => e.ordering[i].slots = d.ordering[i].slots
  BY <1>2, <1>5 DEF p
<1>11. QED BY <1>4, <1>5, <1>8, <1>9, <1>10

\* Another slot at position si.
SlotSet(d, e, li, si, slot) ==
    /\ \A i \in DOMAIN d.ordering :
          /\ DOMAIN e.ordering[i].slots = DOMAIN d.ordering[i].slots
          /\ \A j \in DOMAIN d.ordering[i].slots : e.ordering[i].slots[j] =
                IF i = li /\ j = si THEN slot ELSE d.ordering[i].slots[j]
    /\ \A i, j, g : InSlot(e, i, j, g) <=>
          IF i = li /\ j = si THEN g = slot.group ELSE InSlot(d, i, j, g)
    /\ \A i, j, k, x : InRow(e, i, j, k, x) <=>
          IF i = li /\ j = si THEN k \in DOMAIN slot.tracks /\ x = slot.tracks[k]
          ELSE InRow(d, i, j, k, x)

\* Replacing a slot leaves every other in place.
LEMMA SetSlotShape ==
    ASSUME NEW d \in Documents, NEW li \in DOMAIN d.ordering,
           NEW si \in DOMAIN d.ordering[li].slots, NEW slot \in Slot
    PROVE  LET e == WithSlots(d, li, [d.ordering[li].slots EXCEPT ![si] = slot])
           IN /\ Rearranged(d, e) /\ e.groups = d.groups
              /\ SlotSet(d, e, li, si, slot)
<1> DEFINE p == d.ordering[li].slots
           q == [p EXCEPT ![si] = slot]
           e == WithSlots(d, li, q)
<1>1. p \in Seq(Slot) /\ Len(p) \in Nat /\ DOMAIN p = 1 .. Len(p)
  BY DocumentShape
<1> HIDE DEF p
<1>2. /\ q \in Seq(Slot) /\ Len(q) = Len(p)
      /\ \A j \in 1 .. Len(p) : q[j] = IF j = si THEN slot ELSE p[j]
  <2>1. si \in 1 .. Len(p)
    BY <1>1 DEF p
  <2>2. p \in Seq(Slot)
    BY <1>1
  <2>3. QED BY <2>1, <2>2, ExceptSeq
<1> HIDE DEF q
<1>3. DOMAIN q = DOMAIN p
  BY <1>1, <1>2, LenProperties
<1>4. WithSlots(d, li, [d.ordering[li].slots EXCEPT ![si] = slot]) = e
  BY DEF p, q
<1> HIDE DEF e
<1>5. /\ Rearranged(d, e) /\ e.groups = d.groups
      /\ \A i \in DOMAIN d.ordering :
            e.ordering[i].slots = IF i = li THEN q ELSE d.ordering[i].slots
      /\ \A i, j, g : InSlot(e, i, j, g) <=>
            IF i = li THEN j \in DOMAIN q /\ g = q[j].group ELSE InSlot(d, i, j, g)
      /\ \A i, j, k, x : InRow(e, i, j, k, x) <=>
            IF i = li THEN j \in DOMAIN q /\ k \in DOMAIN q[j].tracks /\ x = q[j].tracks[k]
            ELSE InRow(d, i, j, k, x)
  BY <1>2, WithSlotsShape DEF e
<1>6. si \in DOMAIN q /\ \A j \in DOMAIN p : q[j] = IF j = si THEN slot ELSE p[j]
  BY <1>1, <1>2, <1>3 DEF p
<1>7. \A i \in DOMAIN d.ordering :
          /\ DOMAIN e.ordering[i].slots = DOMAIN d.ordering[i].slots
          /\ \A j \in DOMAIN d.ordering[i].slots : e.ordering[i].slots[j] =
                IF i = li /\ j = si THEN slot ELSE d.ordering[i].slots[j]
  BY <1>3, <1>5, <1>6 DEF p
<1>8. \A i, j, g : InSlot(e, i, j, g) <=>
          IF i = li /\ j = si THEN g = slot.group ELSE InSlot(d, i, j, g)
  <2>1. ASSUME NEW j, NEW g, j # si
        PROVE  (j \in DOMAIN q /\ g = q[j].group) <=> InSlot(d, li, j, g)
    BY <1>3, <1>6, <2>1 DEF InSlot, p
  <2>2. ASSUME NEW i, NEW j, NEW g
        PROVE  InSlot(e, i, j, g) <=>
                  IF i = li /\ j = si THEN g = slot.group ELSE InSlot(d, i, j, g)
    <3>1. CASE i # li
      BY <3>1, <1>5
    <3>2. CASE i = li /\ j # si
      BY <3>2, <1>5, <2>1
    <3>3. CASE i = li /\ j = si
      <4>1. si \in DOMAIN q /\ q[si] = slot
        BY <1>3, <1>6
      <4>2. QED BY <3>3, <4>1, <1>5
    <3>4. QED BY <3>1, <3>2, <3>3
  <2>3. QED BY <2>2
<1>9. \A i, j, k, x : InRow(e, i, j, k, x) <=>
          IF i = li /\ j = si THEN k \in DOMAIN slot.tracks /\ x = slot.tracks[k]
          ELSE InRow(d, i, j, k, x)
  <2>1. ASSUME NEW j, NEW k, NEW x, j # si
        PROVE  (j \in DOMAIN q /\ k \in DOMAIN q[j].tracks /\ x = q[j].tracks[k])
                  <=> InRow(d, li, j, k, x)
    BY <1>3, <1>6, <2>1 DEF InRow, p
  <2>2. ASSUME NEW i, NEW j, NEW k, NEW x
        PROVE  InRow(e, i, j, k, x) <=>
                  IF i = li /\ j = si THEN k \in DOMAIN slot.tracks /\ x = slot.tracks[k]
                  ELSE InRow(d, i, j, k, x)
    <3>1. CASE i # li
      BY <3>1, <1>5
    <3>2. CASE i = li /\ j # si
      BY <3>2, <1>5, <2>1
    <3>3. CASE i = li /\ j = si
      <4>1. si \in DOMAIN q /\ q[si] = slot
        BY <1>3, <1>6
      <4>2. QED BY <3>3, <4>1, <1>5
    <3>4. QED BY <3>1, <3>2, <3>3
  <2>3. QED BY <2>2
<1>10. SlotSet(d, e, li, si, slot)
  BY <1>7, <1>8, <1>9 DEF SlotSet
<1>11. QED BY <1>4, <1>5, <1>10

WithTracks(d, li, si, ts) == [d EXCEPT !.ordering[li].slots[si].tracks = ts]

\* Other tracks in the slot at position si.
LEMMA SetTracksShape ==
    ASSUME NEW d \in Documents, NEW li \in DOMAIN d.ordering,
           NEW si \in DOMAIN d.ordering[li].slots, NEW ts \in Seq(TrackId)
    PROVE  LET e == WithTracks(d, li, si, ts)
           IN /\ Rearranged(d, e) /\ e.groups = d.groups
              /\ \A i \in DOMAIN d.ordering :
                    /\ DOMAIN e.ordering[i].slots = DOMAIN d.ordering[i].slots
                    /\ \A j \in DOMAIN d.ordering[i].slots :
                          /\ e.ordering[i].slots[j].group = d.ordering[i].slots[j].group
                          /\ e.ordering[i].slots[j].tracks =
                                IF i = li /\ j = si THEN ts ELSE d.ordering[i].slots[j].tracks
              /\ \A i, j, g : InSlot(e, i, j, g) <=> InSlot(d, i, j, g)
              /\ \A i, j, k, x : InRow(e, i, j, k, x) <=>
                    IF i = li /\ j = si THEN k \in DOMAIN ts /\ x = ts[k]
                    ELSE InRow(d, i, j, k, x)
<1> DEFINE s == [d.ordering[li].slots[si] EXCEPT !.tracks = ts]
           e == WithSlots(d, li, [d.ordering[li].slots EXCEPT ![si] = s])
<1>1. d.ordering[li].slots[si] \in Slot
  BY DocumentShape
<1>2. s \in Slot /\ s.group = d.ordering[li].slots[si].group /\ s.tracks = ts
  BY <1>1 DEF Slot
<1>3. WithTracks(d, li, si, ts) = e
  BY DEF WithSlots, WithTracks
<1> HIDE DEF s
<1>4. /\ Rearranged(d, e) /\ e.groups = d.groups
      /\ \A i \in DOMAIN d.ordering :
            /\ DOMAIN e.ordering[i].slots = DOMAIN d.ordering[i].slots
            /\ \A j \in DOMAIN d.ordering[i].slots : e.ordering[i].slots[j] =
                  IF i = li /\ j = si THEN s ELSE d.ordering[i].slots[j]
      /\ \A i, j, g : InSlot(e, i, j, g) <=>
            IF i = li /\ j = si THEN g = s.group ELSE InSlot(d, i, j, g)
      /\ \A i, j, k, x : InRow(e, i, j, k, x) <=>
            IF i = li /\ j = si THEN k \in DOMAIN s.tracks /\ x = s.tracks[k]
            ELSE InRow(d, i, j, k, x)
  <2>1. Rearranged(d, e) /\ e.groups = d.groups /\ SlotSet(d, e, li, si, s)
    BY <1>2, SetSlotShape
  <2> HIDE DEF e
  <2>2. QED BY <2>1 DEF SlotSet
<1> HIDE DEF e
<1>5. \A i, j, g : InSlot(e, i, j, g) <=> InSlot(d, i, j, g)
  <2>1. \A g : InSlot(d, li, si, g) <=> g = s.group
    BY <1>2 DEF InSlot
  <2>2. QED BY <1>4, <2>1
<1>6. \A i, j, k, x : InRow(e, i, j, k, x) <=>
          IF i = li /\ j = si THEN k \in DOMAIN ts /\ x = ts[k] ELSE InRow(d, i, j, k, x)
  BY <1>2, <1>4
<1>7. \A i \in DOMAIN d.ordering : \A j \in DOMAIN d.ordering[i].slots :
          /\ e.ordering[i].slots[j].group = d.ordering[i].slots[j].group
          /\ e.ordering[i].slots[j].tracks =
                IF i = li /\ j = si THEN ts ELSE d.ordering[i].slots[j].tracks
  BY <1>2, <1>4
<1>8. QED BY <1>3, <1>4, <1>5, <1>6, <1>7

\* A track put in at position ti of a slot.
LEMMA InsertTrackShape ==
    ASSUME NEW d \in Documents, NEW li \in DOMAIN d.ordering,
           NEW si \in DOMAIN d.ordering[li].slots,
           NEW ti \in 1 .. Len(d.ordering[li].slots[si].tracks) + 1, NEW t \in TrackId
    PROVE  LET e == InsertTrack(d, li, si, ti, t)
           IN /\ Rearranged(d, e) /\ e.groups = d.groups
              /\ \A i \in DOMAIN d.ordering : DOMAIN e.ordering[i].slots = DOMAIN d.ordering[i].slots
              /\ \A i, j, g : InSlot(e, i, j, g) <=> InSlot(d, i, j, g)
              /\ \A i, j, k, x : i # li \/ j # si => (InRow(e, i, j, k, x) <=> InRow(d, i, j, k, x))
              /\ \A k \in Nat : \A x : InRow(e, li, si, k, x) <=>
                    IF k < ti THEN InRow(d, li, si, k, x)
                    ELSE IF k = ti THEN x = t ELSE InRow(d, li, si, k - 1, x)
<1> DEFINE p == d.ordering[li].slots[si].tracks
           q == InsertAt(p, ti, t)
           e == WithTracks(d, li, si, q)
<1>1. p \in Seq(TrackId) /\ Len(p) \in Nat /\ DOMAIN p = 1 .. Len(p)
  BY DocumentShape
<1> HIDE DEF p
<1>2. /\ q \in Seq(TrackId) /\ Len(q) = Len(p) + 1
      /\ \A j \in 1 .. ti - 1 : q[j] = p[j]
      /\ q[ti] = t
      /\ \A j \in ti + 1 .. Len(p) + 1 : q[j] = p[j - 1]
  <2>1. ti \in 1 .. Len(p) + 1
    BY DEF p
  <2>2. p \in Seq(TrackId)
    BY <1>1
  <2>3. t \in TrackId
    OBVIOUS
  <2>4. QED BY ONLY <2>1, <2>2, <2>3, InsertAtProperties
<1> HIDE DEF q
<1>3. DOMAIN q = 1 .. Len(p) + 1
  BY <1>2, LenProperties
<1>4. InsertTrack(d, li, si, ti, t) = e
  BY DEF InsertTrack, WithTracks, p, q
<1>5. /\ Rearranged(d, e) /\ e.groups = d.groups
      /\ \A i \in DOMAIN d.ordering : DOMAIN e.ordering[i].slots = DOMAIN d.ordering[i].slots
      /\ \A i, j, g : InSlot(e, i, j, g) <=> InSlot(d, i, j, g)
      /\ \A i, j, k, x : InRow(e, i, j, k, x) <=>
            IF i = li /\ j = si THEN k \in DOMAIN q /\ x = q[k] ELSE InRow(d, i, j, k, x)
  BY <1>2, SetTracksShape
<1> HIDE DEF e
<1>6. ti \in Nat \ {0} /\ ti <= Len(p) + 1
  BY <1>1 DEF p
<1>7. ASSUME NEW k \in Nat, NEW x
      PROVE  (k \in DOMAIN q /\ x = q[k]) <=>
                IF k < ti THEN k \in DOMAIN p /\ x = p[k]
                ELSE IF k = ti THEN x = t ELSE k - 1 \in DOMAIN p /\ x = p[k - 1]
  <2>1. k < ti => (k \in DOMAIN q <=> k \in DOMAIN p) /\ (k \in DOMAIN p => q[k] = p[k])
    BY <1>1, <1>2, <1>3, <1>6
  <2>2. k = ti => k \in DOMAIN q /\ q[k] = t
    BY <1>1, <1>2, <1>3, <1>6
  <2>3. k > ti => (k \in DOMAIN q <=> k - 1 \in DOMAIN p) /\ (k \in DOMAIN q => q[k] = p[k - 1])
    BY <1>1, <1>2, <1>3, <1>6
  <2>4. k < ti \/ k = ti \/ k > ti
    BY <1>6
  <2>5. QED BY <2>1, <2>2, <2>3, <2>4, <1>6
<1>8. \A k, x : InRow(d, li, si, k, x) <=> k \in DOMAIN p /\ x = p[k]
  BY DEF InRow, p
<1>9. \A k \in Nat : \A x : InRow(e, li, si, k, x) <=>
          IF k < ti THEN InRow(d, li, si, k, x)
          ELSE IF k = ti THEN x = t ELSE InRow(d, li, si, k - 1, x)
  <2>1. ASSUME NEW k \in Nat, NEW x
        PROVE  InRow(e, li, si, k, x) <=> k \in DOMAIN q /\ x = q[k]
    BY <1>5
  <2>2. QED BY <2>1, <1>7, <1>8, SMTT(40)
<1>10. \A i, j, k, x : i # li \/ j # si => (InRow(e, i, j, k, x) <=> InRow(d, i, j, k, x))
  BY <1>5
<1>11. QED BY <1>4, <1>5, <1>9, <1>10

\* The track at position ti of a slot taken out.
LEMMA DropTrackShape ==
    ASSUME NEW d \in Documents, NEW li \in DOMAIN d.ordering,
           NEW si \in DOMAIN d.ordering[li].slots,
           NEW ti \in DOMAIN d.ordering[li].slots[si].tracks
    PROVE  LET e == DropTrack(d, li, si, ti)
           IN /\ Rearranged(d, e) /\ e.groups = d.groups
              /\ \A i \in DOMAIN d.ordering : DOMAIN e.ordering[i].slots = DOMAIN d.ordering[i].slots
              /\ \A i, j, g : InSlot(e, i, j, g) <=> InSlot(d, i, j, g)
              /\ \A i, j, k, x : i # li \/ j # si => (InRow(e, i, j, k, x) <=> InRow(d, i, j, k, x))
              /\ \A k \in Nat : \A x : InRow(e, li, si, k, x) <=>
                    IF k < ti THEN InRow(d, li, si, k, x) ELSE InRow(d, li, si, k + 1, x)
<1> DEFINE p == d.ordering[li].slots[si].tracks
           q == RemoveAt(p, ti)
           e == WithTracks(d, li, si, q)
<1>1. p \in Seq(TrackId) /\ Len(p) \in Nat /\ DOMAIN p = 1 .. Len(p)
  BY DocumentShape
<1> HIDE DEF p
<1>2. /\ q \in Seq(TrackId) /\ Len(q) = Len(p) - 1
      /\ \A j \in 1 .. ti - 1 : q[j] = p[j]
      /\ \A j \in ti .. Len(p) - 1 : q[j] = p[j + 1]
  <2>1. ti \in 1 .. Len(p)
    BY <1>1 DEF p
  <2>2. p \in Seq(TrackId)
    BY <1>1
  <2>3. QED BY <2>1, <2>2, RemoveAtProperties
<1> HIDE DEF q
<1>3. DOMAIN q = 1 .. Len(p) - 1
  BY <1>2, LenProperties
<1>4. DropTrack(d, li, si, ti) = e
  BY DEF DropTrack, WithTracks, p, q
<1>5. /\ Rearranged(d, e) /\ e.groups = d.groups
      /\ \A i \in DOMAIN d.ordering : DOMAIN e.ordering[i].slots = DOMAIN d.ordering[i].slots
      /\ \A i, j, g : InSlot(e, i, j, g) <=> InSlot(d, i, j, g)
      /\ \A i, j, k, x : InRow(e, i, j, k, x) <=>
            IF i = li /\ j = si THEN k \in DOMAIN q /\ x = q[k] ELSE InRow(d, i, j, k, x)
  BY <1>2, SetTracksShape
<1> HIDE DEF e
<1>6. ti \in Nat \ {0} /\ ti <= Len(p)
  BY <1>1 DEF p
<1>7. ASSUME NEW k \in Nat, NEW x
      PROVE  (k \in DOMAIN q /\ x = q[k]) <=>
                IF k < ti THEN k \in DOMAIN p /\ x = p[k] ELSE k + 1 \in DOMAIN p /\ x = p[k + 1]
  <2>1. k < ti => (k \in DOMAIN q <=> k \in DOMAIN p) /\ (k \in DOMAIN p => q[k] = p[k])
    BY <1>1, <1>2, <1>3, <1>6
  <2>2. k >= ti => (k \in DOMAIN q <=> k + 1 \in DOMAIN p) /\ (k \in DOMAIN q => q[k] = p[k + 1])
    BY <1>1, <1>2, <1>3, <1>6
  <2>3. k < ti \/ k >= ti
    BY <1>6
  <2>4. QED BY <2>1, <2>2, <2>3, <1>6
<1>8. \A k, x : InRow(d, li, si, k, x) <=> k \in DOMAIN p /\ x = p[k]
  BY DEF InRow, p
<1>9. \A k \in Nat : \A x : InRow(e, li, si, k, x) <=>
          IF k < ti THEN InRow(d, li, si, k, x) ELSE InRow(d, li, si, k + 1, x)
  BY <1>5, <1>7, <1>8
<1>10. \A i, j, k, x : i # li \/ j # si => (InRow(e, i, j, k, x) <=> InRow(d, i, j, k, x))
  BY <1>5
<1>11. QED BY <1>4, <1>5, <1>9, <1>10

\* A slot cut down to its first n tracks.
LEMMA PrefixShape ==
    ASSUME NEW d \in Documents, NEW li \in DOMAIN d.ordering,
           NEW si \in DOMAIN d.ordering[li].slots,
           NEW n \in 0 .. Len(d.ordering[li].slots[si].tracks)
    PROVE  LET e == WithTracks(d, li, si, SubSeq(d.ordering[li].slots[si].tracks, 1, n))
           IN /\ Rearranged(d, e) /\ e.groups = d.groups
              /\ \A i \in DOMAIN d.ordering : DOMAIN e.ordering[i].slots = DOMAIN d.ordering[i].slots
              /\ \A i, j, g : InSlot(e, i, j, g) <=> InSlot(d, i, j, g)
              /\ \A i, j, k, x : i # li \/ j # si => (InRow(e, i, j, k, x) <=> InRow(d, i, j, k, x))
              /\ \A k \in Nat : \A x : InRow(e, li, si, k, x) <=> k <= n /\ InRow(d, li, si, k, x)
<1> DEFINE p == d.ordering[li].slots[si].tracks
           q == SubSeq(p, 1, n)
           e == WithTracks(d, li, si, q)
<1>1. p \in Seq(TrackId) /\ Len(p) \in Nat /\ DOMAIN p = 1 .. Len(p)
  BY DocumentShape
<1> HIDE DEF p
<1>2. n \in Nat /\ n <= Len(p)
  BY <1>1 DEF p
<1>3. q \in Seq(TrackId) /\ Len(q) = n /\ \A j \in 1 .. n : q[j] = p[j]
  <2>1. \A j \in 1 .. n : p[j] \in TrackId
    BY <1>1, <1>2
  <2>2. QED BY <2>1, <1>2, SubSeqProperties
<1> HIDE DEF q
<1>4. DOMAIN q = 1 .. n
  BY <1>3, LenProperties
<1>5. /\ Rearranged(d, e) /\ e.groups = d.groups
      /\ \A i \in DOMAIN d.ordering : DOMAIN e.ordering[i].slots = DOMAIN d.ordering[i].slots
      /\ \A i, j, g : InSlot(e, i, j, g) <=> InSlot(d, i, j, g)
      /\ \A i, j, k, x : InRow(e, i, j, k, x) <=>
            IF i = li /\ j = si THEN k \in DOMAIN q /\ x = q[k] ELSE InRow(d, i, j, k, x)
  BY <1>3, SetTracksShape
<1>6. WithTracks(d, li, si, SubSeq(d.ordering[li].slots[si].tracks, 1, n)) = e
  BY DEF p, q
<1> HIDE DEF e
<1>7. \A k, x : InRow(d, li, si, k, x) <=> k \in DOMAIN p /\ x = p[k]
  BY DEF InRow, p
<1>8. \A k \in Nat : \A x : InRow(e, li, si, k, x) <=> k <= n /\ InRow(d, li, si, k, x)
  BY <1>1, <1>2, <1>3, <1>4, <1>5, <1>7
<1>9. \A i, j, k, x : i # li \/ j # si => (InRow(e, i, j, k, x) <=> InRow(d, i, j, k, x))
  BY <1>5
<1>10. QED BY <1>5, <1>6, <1>8, <1>9

\* A slot taken out of its group.
LEMMA LoosenShape ==
    ASSUME NEW d \in Documents, NEW li \in DOMAIN d.ordering,
           NEW si \in DOMAIN d.ordering[li].slots
    PROVE  LET e == Loosen(d, <<li, si>>)
           IN /\ Rearranged(d, e) /\ e.groups = d.groups
              /\ \A i, j, g : InSlot(e, i, j, g) <=>
                    IF i = li /\ j = si THEN g = Null ELSE InSlot(d, i, j, g)
              /\ \A i, j, k, x : InRow(e, i, j, k, x) <=> InRow(d, i, j, k, x)
<1> DEFINE s == [d.ordering[li].slots[si] EXCEPT !.group = Null]
           e == WithSlots(d, li, [d.ordering[li].slots EXCEPT ![si] = s])
<1>1. d.ordering[li].slots[si] \in Slot
  BY DocumentShape
<1>2. s \in Slot /\ s.group = Null /\ s.tracks = d.ordering[li].slots[si].tracks
  BY <1>1 DEF Slot
<1>3. Loosen(d, <<li, si>>) = e
  BY DEF Loosen, WithSlots
<1> HIDE DEF s
<1>4. /\ Rearranged(d, e) /\ e.groups = d.groups
      /\ \A i, j, g : InSlot(e, i, j, g) <=>
            IF i = li /\ j = si THEN g = s.group ELSE InSlot(d, i, j, g)
      /\ \A i, j, k, x : InRow(e, i, j, k, x) <=>
            IF i = li /\ j = si THEN k \in DOMAIN s.tracks /\ x = s.tracks[k]
            ELSE InRow(d, i, j, k, x)
  <2>1. Rearranged(d, e) /\ e.groups = d.groups /\ SlotSet(d, e, li, si, s)
    BY <1>2, SetSlotShape
  <2> HIDE DEF e
  <2>2. QED BY <2>1 DEF SlotSet
<1> HIDE DEF e
<1>5. \A k, x : InRow(d, li, si, k, x) <=> k \in DOMAIN s.tracks /\ x = s.tracks[k]
  BY <1>2 DEF InRow
<1>6. QED BY <1>2, <1>3, <1>4, <1>5

-----------------------------------------------------------------------------
(* What the writes keep: a good document stays good.                        *)

\* The tracks of ts may get rows: those in scope are known, have none, and
\* are named once.
Fits(d, ts) == \A k \in DOMAIN ts : ts[k] \in Scope(d) =>
    /\ ts[k] \in DOMAIN d.tracks /\ ts[k] \notin Placed(d)
    /\ \A k2 \in DOMAIN ts : ts[k2] = ts[k] => k2 = k
\* A slot may take the group: it is loose, or named and nowhere.
Free(d, g) == g # Null => g \in d.groups /\ \A i, j : ~InSlot(d, i, j, g)

\* Documents that are Rearranged agree on the scope and on the entities.
LEMMA RearrangedSame ==
    ASSUME NEW d, NEW e, Rearranged(d, e)
    PROVE  Scope(e) = Scope(d) /\ DOMAIN e.tracks = DOMAIN d.tracks /\ e \in Documents
           /\ LayerIds(e) = LayerIds(d)
           /\ \A l : LayerAt(e, l) = LayerAt(d, l)
<1>1. LayerIds(e) = LayerIds(d)
  BY DEF Rearranged, LayerIds
<1>2. ASSUME NEW l PROVE LayerAt(e, l) = LayerAt(d, l)
  <2>1. {li \in DOMAIN e.ordering : e.ordering[li].id = l} =
        {li \in DOMAIN d.ordering : d.ordering[li].id = l}
    BY DEF Rearranged
  <2>2. QED BY <2>1 DEF LayerAt
<1>3. QED BY <1>1, <1>2 DEF Rearranged, Scope

\* A slot goes in.
LEMMA InsertSlotGood ==
    ASSUME NEW d \in Good, NEW li \in DOMAIN d.ordering,
           NEW si \in 1 .. Len(d.ordering[li].slots) + 1, NEW slot \in Slot,
           Free(d, slot.group), Fits(d, slot.tracks)
    PROVE  LET e == InsertSlot(d, li, si, slot)
           IN e \in Good /\ Placed(e) = Placed(d) \cup ToSet(slot.tracks)
<1> DEFINE e == InsertSlot(d, li, si, slot)
<1>1. d \in Documents /\ si \in Nat \ {0} /\ li \in Nat \ {0}
  <2>1. d \in Documents
    BY DEF Good
  <2>2. QED BY <2>1, DocumentShape
<1>2. /\ Rearranged(d, e) /\ e.groups = d.groups
      /\ \A i, j \in Nat : \A g : InSlot(e, i, j, g) <=>
            IF i # li \/ j < si THEN InSlot(d, i, j, g)
            ELSE IF j = si THEN g = slot.group ELSE InSlot(d, i, j - 1, g)
      /\ \A i, j, k \in Nat : \A x : InRow(e, i, j, k, x) <=>
            IF i # li \/ j < si THEN InRow(d, i, j, k, x)
            ELSE IF j = si THEN k \in DOMAIN slot.tracks /\ x = slot.tracks[k]
            ELSE InRow(d, i, j - 1, k, x)
  <2>1. Rearranged(d, e) /\ e.groups = d.groups /\ SlotPut(d, e, li, si, slot)
    BY <1>1, InsertSlotShape
  <2> HIDE DEF e
  <2>2. QED BY <2>1 DEF SlotPut
<1> HIDE DEF e
<1>3. e \in Documents /\ Scope(e) = Scope(d) /\ DOMAIN e.tracks = DOMAIN d.tracks
  BY <1>2, RearrangedSame
<1>4. ASSUME NEW i, NEW j, NEW g, InSlot(e, i, j, g), g # Null
      PROVE  g \in e.groups /\ \A i2, j2 : InSlot(e, i2, j2, g) => i = i2 /\ j = j2
  <2>1. i \in Nat /\ j \in Nat
    BY <1>3, <1>4, InSlotNat
  <2>2. ASSUME NEW i2, NEW j2, InSlot(e, i2, j2, g) PROVE i = i2 /\ j = j2
    <3>1. i2 \in Nat /\ j2 \in Nat
      BY <1>3, <2>2, InSlotNat
    <3>2. QED BY <1>1, <1>2, <1>4, <2>1, <2>2, <3>1, GoodByPosition DEF Free
  <2>3. g \in d.groups
    BY <1>1, <1>2, <1>4, <2>1, GoodByPosition DEF Free
  <2>4. QED BY <1>2, <2>2, <2>3
<1>5. \A k \in DOMAIN slot.tracks : k \in Nat
  BY LenProperties DEF Slot
<1>6. ASSUME NEW i, NEW j, NEW k, NEW x, InRow(e, i, j, k, x), x \in Scope(e)
      PROVE  /\ x \in DOMAIN e.tracks
             /\ \A i2, j2, k2 : InRow(e, i2, j2, k2, x) => i = i2 /\ j = j2 /\ k = k2
  <2>1. i \in Nat /\ j \in Nat /\ k \in Nat
    BY <1>3, <1>6, InRowNat
  <2>2. x \in DOMAIN d.tracks
    BY <1>1, <1>2, <1>3, <1>6, <2>1, GoodByPosition DEF Fits
  <2>3. ASSUME NEW i2, NEW j2, NEW k2, InRow(e, i2, j2, k2, x) PROVE i = i2 /\ j = j2 /\ k = k2
    <3>1. i2 \in Nat /\ j2 \in Nat /\ k2 \in Nat
      BY <1>3, <2>3, InRowNat
    <3>2. CASE i = li /\ j = si
      <4>1. k \in DOMAIN slot.tracks /\ x = slot.tracks[k] /\ x \notin Placed(d)
        BY <1>1, <1>2, <1>3, <1>6, <2>1, <3>2 DEF Fits
      <4>5. \A a, b, c : ~InRow(d, a, b, c, x)
        BY <4>1, PlacedByPosition
      <4>2. i2 = li /\ j2 = si
        BY <1>1, <1>2, <2>3, <3>1, <4>5
      <4>3. k2 \in DOMAIN slot.tracks /\ x = slot.tracks[k2]
        BY <1>1, <1>2, <2>3, <3>1, <4>2
      <4>4. QED BY <1>3, <1>6, <3>2, <4>1, <4>2, <4>3 DEF Fits
    <3>3. CASE i2 = li /\ j2 = si
      <4>1. k2 \in DOMAIN slot.tracks /\ x = slot.tracks[k2] /\ x \notin Placed(d)
        BY <1>1, <1>2, <1>3, <1>6, <2>3, <3>1, <3>3 DEF Fits
      <4>5. \A a, b, c : ~InRow(d, a, b, c, x)
        BY <4>1, PlacedByPosition
      <4>2. i = li /\ j = si
        BY <1>1, <1>2, <1>6, <2>1, <4>5
      <4>3. k \in DOMAIN slot.tracks /\ x = slot.tracks[k]
        BY <1>1, <1>2, <1>6, <2>1, <4>2
      <4>4. QED BY <1>3, <1>6, <3>3, <4>1, <4>2, <4>3 DEF Fits
    <3>4. CASE ~(i = li /\ j = si) /\ ~(i2 = li /\ j2 = si)
      BY <1>1, <1>2, <1>3, <1>6, <2>1, <2>3, <3>1, <3>4, GoodByPosition
    <3>5. QED BY <3>2, <3>3, <3>4
  <2>4. QED BY <1>3, <2>2, <2>3
<1>7. e \in Good
  BY <1>3, <1>4, <1>6, GoodByPosition
<1>8. ASSUME NEW x PROVE x \in Placed(e) <=> x \in Placed(d) \/ x \in ToSet(slot.tracks)
  <2>1. ASSUME x \in Placed(e) PROVE x \in Placed(d) \/ x \in ToSet(slot.tracks)
    <3>1. PICK i, j, k : InRow(e, i, j, k, x)
      BY <2>1, PlacedByPosition
    <3>2. i \in Nat /\ j \in Nat /\ k \in Nat
      BY <1>3, <3>1, InRowNat
    <3>3. QED BY <1>1, <1>2, <3>1, <3>2, PlacedByPosition DEF ToSet
  <2>2. ASSUME x \in Placed(d) PROVE x \in Placed(e)
    <3>1. PICK i, j, k : InRow(d, i, j, k, x)
      BY <2>2, PlacedByPosition
    <3>2. i \in Nat /\ j \in Nat /\ k \in Nat
      BY <1>1, <3>1, InRowNat
    <3>3. InRow(e, i, j, k, x) \/ InRow(e, i, j + 1, k, x)
      BY <1>1, <1>2, <3>1, <3>2
    <3>4. QED BY <3>3, PlacedByPosition
  <2>3. ASSUME x \in ToSet(slot.tracks) PROVE x \in Placed(e)
    <3>1. PICK k \in DOMAIN slot.tracks : x = slot.tracks[k]
      BY <2>3 DEF ToSet
    <3>2. InRow(e, li, si, k, x)
      BY <1>1, <1>2, <1>5, <3>1
    <3>3. QED BY <3>2, PlacedByPosition
  <2>4. QED BY <2>1, <2>2, <2>3
<1>9. QED BY <1>7, <1>8 DEF e

\* A slot goes out, with its tracks and its group.
LEMMA DropSlotGood ==
    ASSUME NEW d \in Good, NEW li \in DOMAIN d.ordering, NEW si \in DOMAIN d.ordering[li].slots
    PROVE  LET e == DropSlot(d, li, si)
           IN /\ e \in Good
              /\ \A x \in Placed(e) : x \in Placed(d)
              /\ \A x \in Placed(d) : x \in Placed(e) \/ \E k : InRow(d, li, si, k, x)
              /\ \A k : \A x \in Scope(d) : InRow(d, li, si, k, x) => x \notin Placed(e)
              /\ Free(e, d.ordering[li].slots[si].group)
<1> DEFINE e == DropSlot(d, li, si)
           g0 == d.ordering[li].slots[si].group
<1>1. d \in Documents /\ si \in Nat \ {0} /\ li \in Nat \ {0} /\ InSlot(d, li, si, g0)
  <2>1. d \in Documents
    BY DEF Good
  <2>2. QED BY <2>1, DocumentShape DEF InSlot
<1> HIDE DEF g0
<1>2. /\ Rearranged(d, e) /\ e.groups = d.groups
      /\ \A i, j \in Nat : \A g : InSlot(e, i, j, g) <=>
            IF i # li \/ j < si THEN InSlot(d, i, j, g) ELSE InSlot(d, i, j + 1, g)
      /\ \A i, j, k \in Nat : \A x : InRow(e, i, j, k, x) <=>
            IF i # li \/ j < si THEN InRow(d, i, j, k, x) ELSE InRow(d, i, j + 1, k, x)
  <2>1. d \in Documents
    BY <1>1
  <2>2. QED BY ONLY <2>1, li \in DOMAIN d.ordering, si \in DOMAIN d.ordering[li].slots,
               DropSlotShape
<1> HIDE DEF e
<1>3. e \in Documents /\ Scope(e) = Scope(d) /\ DOMAIN e.tracks = DOMAIN d.tracks
  BY <1>2, RearrangedSame
<1>4. ASSUME NEW i, NEW j, NEW g, InSlot(e, i, j, g)
      PROVE  /\ i \in Nat /\ j \in Nat
             /\ IF i # li \/ j < si THEN InSlot(d, i, j, g) ELSE InSlot(d, i, j + 1, g)
  BY <1>2, <1>3, <1>4, InSlotNat
<1>5. ASSUME NEW i, NEW j, NEW k, NEW x, InRow(e, i, j, k, x)
      PROVE  /\ i \in Nat /\ j \in Nat /\ k \in Nat
             /\ IF i # li \/ j < si THEN InRow(d, i, j, k, x) ELSE InRow(d, i, j + 1, k, x)
  BY <1>2, <1>3, <1>5, InRowNat
<1>6. ASSUME NEW i, NEW j, NEW g, InSlot(e, i, j, g), g # Null
      PROVE  g \in e.groups /\ \A i2, j2 : InSlot(e, i2, j2, g) => i = i2 /\ j = j2
  <2>1. g \in d.groups
    BY <1>1, <1>4, <1>6, GoodByPosition
  <2>2. ASSUME NEW i2, NEW j2, InSlot(e, i2, j2, g) PROVE i = i2 /\ j = j2
    BY <1>1, <1>4, <1>6, <2>2, GoodByPosition
  <2>3. QED BY <1>2, <2>1, <2>2
<1>7. ASSUME NEW i, NEW j, NEW k, NEW x, InRow(e, i, j, k, x), x \in Scope(e)
      PROVE  /\ x \in DOMAIN e.tracks
             /\ \A i2, j2, k2 : InRow(e, i2, j2, k2, x) => i = i2 /\ j = j2 /\ k = k2
  <2>1. x \in DOMAIN d.tracks
    BY <1>1, <1>3, <1>5, <1>7, GoodByPosition
  <2>2. ASSUME NEW i2, NEW j2, NEW k2, InRow(e, i2, j2, k2, x) PROVE i = i2 /\ j = j2 /\ k = k2
    BY <1>1, <1>3, <1>5, <1>7, <2>2, GoodByPosition
  <2>3. QED BY <1>3, <2>1, <2>2
<1>8. e \in Good
  BY <1>3, <1>6, <1>7, GoodByPosition
<1>9. ASSUME NEW x \in Placed(e) PROVE x \in Placed(d)
  BY <1>5, PlacedByPosition
<1>10. ASSUME NEW x \in Placed(d) PROVE x \in Placed(e) \/ \E k : InRow(d, li, si, k, x)
  <2>1. PICK i, j, k : InRow(d, i, j, k, x)
    BY PlacedByPosition
  <2>2. i \in Nat /\ j \in Nat \ {0} /\ k \in Nat
    BY <1>1, <2>1, InRowNat
  <2>3. CASE i = li /\ j = si
    BY <2>1, <2>3
  <2>4. CASE i # li \/ j # si
    <3>1. InRow(e, i, j, k, x) \/ InRow(e, i, j - 1, k, x)
      BY <1>1, <1>2, <2>1, <2>2, <2>4
    <3>2. QED BY <3>1, PlacedByPosition
  <2>5. QED BY <2>3, <2>4
<1>11. ASSUME NEW k, NEW x \in Scope(d), InRow(d, li, si, k, x) PROVE x \notin Placed(e)
  <2> SUFFICES ASSUME NEW i, NEW j, NEW k2, InRow(e, i, j, k2, x) PROVE FALSE
    BY PlacedByPosition
  <2>1. QED BY <1>1, <1>5, <1>11, GoodByPosition
<1>12. Free(e, g0)
  <2> SUFFICES ASSUME g0 # Null
               PROVE  g0 \in e.groups /\ \A i, j : ~InSlot(e, i, j, g0)
    BY DEF Free
  <2>1. g0 \in d.groups
    BY <1>1, GoodByPosition
  <2>2. ASSUME NEW i, NEW j, InSlot(e, i, j, g0) PROVE FALSE
    BY <1>1, <1>4, <2>2, GoodByPosition
  <2>3. QED BY <1>2, <2>1, <2>2
<1>13. QED BY <1>8, <1>9, <1>10, <1>11, <1>12 DEF e, g0

\* A track goes in.
LEMMA InsertTrackGood ==
    ASSUME NEW d \in Good, NEW li \in DOMAIN d.ordering, NEW si \in DOMAIN d.ordering[li].slots,
           NEW ti \in 1 .. Len(d.ordering[li].slots[si].tracks) + 1, NEW t \in TrackId,
           t \in Scope(d) => t \in DOMAIN d.tracks /\ t \notin Placed(d)
    PROVE  LET e == InsertTrack(d, li, si, ti, t)
           IN /\ e \in Good /\ Rearranged(d, e) /\ e.groups = d.groups
              /\ Placed(e) = Placed(d) \cup {t}
<1> DEFINE e == InsertTrack(d, li, si, ti, t)
<1>1. d \in Documents /\ si \in Nat \ {0} /\ li \in Nat \ {0} /\ ti \in Nat \ {0}
  <2>1. d \in Documents
    BY DEF Good
  <2>2. QED BY <2>1, DocumentShape
<1>2. /\ Rearranged(d, e) /\ e.groups = d.groups
      /\ \A i, j, g : InSlot(e, i, j, g) <=> InSlot(d, i, j, g)
      /\ \A i, j, k, x : i # li \/ j # si => (InRow(e, i, j, k, x) <=> InRow(d, i, j, k, x))
      /\ \A k \in Nat : \A x : InRow(e, li, si, k, x) <=>
            IF k < ti THEN InRow(d, li, si, k, x)
            ELSE IF k = ti THEN x = t ELSE InRow(d, li, si, k - 1, x)
  BY <1>1, InsertTrackShape, SMTT(40)
<1> HIDE DEF e
<1>3. e \in Documents /\ Scope(e) = Scope(d) /\ DOMAIN e.tracks = DOMAIN d.tracks
  BY <1>2, RearrangedSame
<1>4. ASSUME NEW i, NEW j, NEW g, InSlot(e, i, j, g), g # Null
      PROVE  g \in e.groups /\ \A i2, j2 : InSlot(e, i2, j2, g) => i = i2 /\ j = j2
  BY <1>1, <1>2, <1>4, GoodByPosition
<1>5. ASSUME NEW i, NEW j, NEW k, NEW x, InRow(e, i, j, k, x)
      PROVE  \/ i = li /\ j = si /\ k = ti /\ x = t
             \/ i = li /\ j = si /\ k \in Nat /\ k < ti /\ InRow(d, i, j, k, x)
             \/ i = li /\ j = si /\ k \in Nat /\ k > ti /\ InRow(d, i, j, k - 1, x)
             \/ (i # li \/ j # si) /\ InRow(d, i, j, k, x)
  <2>1. k \in Nat
    BY <1>3, <1>5, InRowNat
  <2>2. QED BY <1>1, <1>2, <1>5, <2>1
<1>6. ASSUME NEW i, NEW j, NEW k, NEW x, InRow(e, i, j, k, x), x \in Scope(e)
      PROVE  /\ x \in DOMAIN e.tracks
             /\ \A i2, j2, k2 : InRow(e, i2, j2, k2, x) => i = i2 /\ j = j2 /\ k = k2
  <2>1. x \in DOMAIN d.tracks
    BY <1>1, <1>3, <1>5, <1>6, GoodByPosition
  <2>2. ASSUME NEW i2, NEW j2, NEW k2, InRow(e, i2, j2, k2, x) PROVE i = i2 /\ j = j2 /\ k = k2
    <3>1. CASE x = t
      <4>1. \A a, b, c : ~InRow(d, a, b, c, x)
        BY <1>3, <1>6, <3>1, PlacedByPosition
      <4>2. QED BY <1>5, <1>6, <2>2, <4>1
    <3>2. CASE x # t
      <4>1. k \in Nat /\ k2 \in Nat
        BY <1>3, <1>6, <2>2, InRowNat
      <4>2. QED BY <1>1, <1>3, <1>5, <1>6, <2>2, <3>2, <4>1, GoodByPosition
    <3>3. QED BY <3>1, <3>2
  <2>3. QED BY <1>3, <2>1, <2>2
<1>7. e \in Good
  BY <1>3, <1>4, <1>6, GoodByPosition
<1>8. ASSUME NEW x PROVE x \in Placed(e) <=> x \in Placed(d) \/ x = t
  <2>1. ASSUME x \in Placed(e) PROVE x \in Placed(d) \/ x = t
    BY <1>5, <2>1, PlacedByPosition
  <2>2. ASSUME x \in Placed(d) PROVE x \in Placed(e)
    <3>1. PICK i, j, k : InRow(d, i, j, k, x)
      BY <2>2, PlacedByPosition
    <3>2. k \in Nat
      BY <1>1, <3>1, InRowNat
    <3>3. InRow(e, i, j, k, x) \/ InRow(e, i, j, k + 1, x)
      BY <1>1, <1>2, <3>1, <3>2
    <3>4. QED BY <3>3, PlacedByPosition
  <2>3. t \in Placed(e)
    <3>1. InRow(e, li, si, ti, t)
      BY <1>1, <1>2
    <3>2. QED BY <3>1, PlacedByPosition
  <2>4. QED BY <2>1, <2>2, <2>3
<1>9. QED BY <1>2, <1>7, <1>8 DEF e

\* A track goes out.
LEMMA DropTrackGood ==
    ASSUME NEW d \in Good, NEW li \in DOMAIN d.ordering, NEW si \in DOMAIN d.ordering[li].slots,
           NEW ti \in DOMAIN d.ordering[li].slots[si].tracks
    PROVE  LET e == DropTrack(d, li, si, ti)
               t == d.ordering[li].slots[si].tracks[ti]
           IN /\ e \in Good /\ Rearranged(d, e) /\ e.groups = d.groups
              /\ \A x \in Placed(e) : x \in Placed(d)
              /\ t \in Scope(d) => t \notin Placed(e)
              /\ \A i, j, k, x : InRow(d, i, j, k, x) /\ x # t => \E k2 : InRow(e, i, j, k2, x)
<1> DEFINE e == DropTrack(d, li, si, ti)
           t == d.ordering[li].slots[si].tracks[ti]
<1>1. d \in Documents /\ si \in Nat \ {0} /\ li \in Nat \ {0} /\ ti \in Nat \ {0}
      /\ InRow(d, li, si, ti, t)
  <2>1. d \in Documents
    BY DEF Good
  <2>2. InRow(d, li, si, ti, t)
    BY DEF InRow
  <2>3. QED BY <2>1, <2>2, InRowNat
<1> HIDE DEF t
<1>2. /\ Rearranged(d, e) /\ e.groups = d.groups
      /\ \A i, j, g : InSlot(e, i, j, g) <=> InSlot(d, i, j, g)
      /\ \A i, j, k, x : i # li \/ j # si => (InRow(e, i, j, k, x) <=> InRow(d, i, j, k, x))
      /\ \A k \in Nat : \A x : InRow(e, li, si, k, x) <=>
            IF k < ti THEN InRow(d, li, si, k, x) ELSE InRow(d, li, si, k + 1, x)
  BY <1>1, DropTrackShape, ZenonT(40)
<1> HIDE DEF e
<1>3. e \in Documents /\ Scope(e) = Scope(d) /\ DOMAIN e.tracks = DOMAIN d.tracks
  BY <1>2, RearrangedSame
<1>4. ASSUME NEW i, NEW j, NEW g, InSlot(e, i, j, g), g # Null
      PROVE  g \in e.groups /\ \A i2, j2 : InSlot(e, i2, j2, g) => i = i2 /\ j = j2
  BY <1>1, <1>2, <1>4, GoodByPosition
<1>5. ASSUME NEW i, NEW j, NEW k, NEW x, InRow(e, i, j, k, x)
      PROVE  \/ i = li /\ j = si /\ k \in Nat /\ k < ti /\ InRow(d, i, j, k, x)
             \/ i = li /\ j = si /\ k \in Nat /\ k >= ti /\ InRow(d, i, j, k + 1, x)
             \/ (i # li \/ j # si) /\ InRow(d, i, j, k, x)
  <2>1. k \in Nat
    BY <1>3, <1>5, InRowNat
  <2>2. QED BY <1>1, <1>2, <1>5, <2>1
<1>6. ASSUME NEW i, NEW j, NEW k, NEW x, InRow(e, i, j, k, x), x \in Scope(e)
      PROVE  /\ x \in DOMAIN e.tracks
             /\ \A i2, j2, k2 : InRow(e, i2, j2, k2, x) => i = i2 /\ j = j2 /\ k = k2
  <2>1. x \in DOMAIN d.tracks
    BY <1>1, <1>3, <1>5, <1>6, GoodByPosition
  <2>2. ASSUME NEW i2, NEW j2, NEW k2, InRow(e, i2, j2, k2, x) PROVE i = i2 /\ j = j2 /\ k = k2
    <3>1. k \in Nat /\ k2 \in Nat
      BY <1>3, <1>6, <2>2, InRowNat
    <3>2. QED BY <1>1, <1>3, <1>5, <1>6, <2>2, <3>1, GoodByPosition
  <2>3. QED BY <1>3, <2>1, <2>2
<1>7. e \in Good
  BY <1>3, <1>4, <1>6, GoodByPosition
<1>8. ASSUME NEW x \in Placed(e) PROVE x \in Placed(d)
  BY <1>5, PlacedByPosition
<1>9. ASSUME t \in Scope(d), t \in Placed(e) PROVE FALSE
  <2>1. PICK i, j, k : InRow(e, i, j, k, t)
    BY <1>9, PlacedByPosition
  <2>2. QED BY <1>1, <1>5, <1>9, <2>1, GoodByPosition
<1>10. ASSUME NEW i, NEW j, NEW k, NEW x, InRow(d, i, j, k, x), x # t
       PROVE  \E k2 : InRow(e, i, j, k2, x)
  <2>1. k \in Nat \ {0}
    BY <1>1, <1>10, InRowNat
  <2>2. i = li /\ j = si => k # ti
    BY <1>1, <1>10 DEF InRow
  <2>3. InRow(e, i, j, k, x) \/ InRow(e, i, j, k - 1, x)
    BY <1>1, <1>2, <1>10, <2>1, <2>2
  <2>4. QED BY <2>3
<1>11. QED BY <1>2, <1>7, <1>8, <1>9, <1>10 DEF e, t

\* The end of a slot goes out.
LEMMA PrefixGood ==
    ASSUME NEW d \in Good, NEW li \in DOMAIN d.ordering, NEW si \in DOMAIN d.ordering[li].slots,
           NEW n \in 0 .. Len(d.ordering[li].slots[si].tracks)
    PROVE  LET e == WithTracks(d, li, si, SubSeq(d.ordering[li].slots[si].tracks, 1, n))
           IN /\ e \in Good /\ Rearranged(d, e) /\ e.groups = d.groups
              /\ \A x \in Placed(e) : x \in Placed(d)
              /\ \A k : \A x \in Scope(d) : InRow(d, li, si, k, x) /\ k > n => x \notin Placed(e)
<1> DEFINE e == WithTracks(d, li, si, SubSeq(d.ordering[li].slots[si].tracks, 1, n))
<1>1. d \in Documents /\ si \in Nat \ {0} /\ li \in Nat \ {0} /\ n \in Nat
  <2>1. d \in Documents
    BY DEF Good
  <2>2. QED BY <2>1, DocumentShape
<1>2. /\ Rearranged(d, e) /\ e.groups = d.groups
      /\ \A i, j, g : InSlot(e, i, j, g) <=> InSlot(d, i, j, g)
      /\ \A i, j, k, x : i # li \/ j # si => (InRow(e, i, j, k, x) <=> InRow(d, i, j, k, x))
      /\ \A k \in Nat : \A x : InRow(e, li, si, k, x) <=> k <= n /\ InRow(d, li, si, k, x)
  <2>1. d \in Documents
    BY <1>1
  <2>2. QED BY ONLY <2>1, li \in DOMAIN d.ordering, si \in DOMAIN d.ordering[li].slots,
               n \in 0 .. Len(d.ordering[li].slots[si].tracks), PrefixShape
<1> HIDE DEF e
<1>3. e \in Documents /\ Scope(e) = Scope(d) /\ DOMAIN e.tracks = DOMAIN d.tracks
  BY <1>2, RearrangedSame
<1>4. ASSUME NEW i, NEW j, NEW g, InSlot(e, i, j, g), g # Null
      PROVE  g \in e.groups /\ \A i2, j2 : InSlot(e, i2, j2, g) => i = i2 /\ j = j2
  BY <1>1, <1>2, <1>4, GoodByPosition
<1>5. ASSUME NEW i, NEW j, NEW k, NEW x, InRow(e, i, j, k, x)
      PROVE  InRow(d, i, j, k, x) /\ (i = li /\ j = si => k <= n)
  <2>1. k \in Nat
    BY <1>3, <1>5, InRowNat
  <2>2. QED BY <1>1, <1>2, <1>5, <2>1
<1>6. ASSUME NEW i, NEW j, NEW k, NEW x, InRow(e, i, j, k, x), x \in Scope(e)
      PROVE  /\ x \in DOMAIN e.tracks
             /\ \A i2, j2, k2 : InRow(e, i2, j2, k2, x) => i = i2 /\ j = j2 /\ k = k2
  BY <1>1, <1>3, <1>5, <1>6, GoodByPosition
<1>7. e \in Good
  BY <1>3, <1>4, <1>6, GoodByPosition
<1>8. ASSUME NEW x \in Placed(e) PROVE x \in Placed(d)
  BY <1>5, PlacedByPosition
<1>9. ASSUME NEW k, NEW x \in Scope(d), InRow(d, li, si, k, x), k > n, x \in Placed(e) PROVE FALSE
  <2>1. PICK i, j, k2 : InRow(e, i, j, k2, x)
    BY <1>9, PlacedByPosition
  <2>2. i = li /\ j = si /\ k2 = k /\ k \in Nat
    BY <1>1, <1>5, <1>9, <2>1, GoodByPosition, InRowNat
  <2>3. QED BY <1>1, <1>5, <1>9, <2>1, <2>2
<1>10. QED BY <1>2, <1>7, <1>8, <1>9 DEF e

\* A slot leaves its group.
LEMMA LoosenGood ==
    ASSUME NEW d \in Good, NEW li \in DOMAIN d.ordering, NEW si \in DOMAIN d.ordering[li].slots
    PROVE  LET e == Loosen(d, <<li, si>>)
           IN /\ e \in Good /\ Rearranged(d, e) /\ e.groups = d.groups /\ Placed(e) = Placed(d)
              /\ \A i, j, g : InSlot(e, i, j, g) <=>
                    IF i = li /\ j = si THEN g = Null ELSE InSlot(d, i, j, g)
<1> DEFINE e == Loosen(d, <<li, si>>)
<1>1. d \in Documents
  BY DEF Good
<1>2. /\ Rearranged(d, e) /\ e.groups = d.groups
      /\ \A i, j, g : InSlot(e, i, j, g) <=>
            IF i = li /\ j = si THEN g = Null ELSE InSlot(d, i, j, g)
      /\ \A i, j, k, x : InRow(e, i, j, k, x) <=> InRow(d, i, j, k, x)
  BY <1>1, LoosenShape, SMTT(40)
<1> HIDE DEF e
<1>3. e \in Documents /\ Scope(e) = Scope(d) /\ DOMAIN e.tracks = DOMAIN d.tracks
  BY <1>2, RearrangedSame
<1>4. ASSUME NEW i, NEW j, NEW g, InSlot(e, i, j, g), g # Null
      PROVE  g \in e.groups /\ \A i2, j2 : InSlot(e, i2, j2, g) => i = i2 /\ j = j2
  BY <1>1, <1>2, <1>4, GoodByPosition
<1>5. ASSUME NEW i, NEW j, NEW k, NEW x, InRow(e, i, j, k, x), x \in Scope(e)
      PROVE  /\ x \in DOMAIN e.tracks
             /\ \A i2, j2, k2 : InRow(e, i2, j2, k2, x) => i = i2 /\ j = j2 /\ k = k2
  BY <1>1, <1>2, <1>3, <1>5, GoodByPosition
<1>6. e \in Good
  BY <1>3, <1>4, <1>5, GoodByPosition
<1>7. \A x : x \in Placed(e) <=> x \in Placed(d)
  BY <1>2, PlacedByPosition
<1>8. QED BY <1>2, <1>6, <1>7 DEF e

-----------------------------------------------------------------------------
(* The writes of the other fields.                                          *)

\* What the ordering alone decides.
LEMMA SameOrdering ==
    ASSUME NEW d, NEW e, e.ordering = d.ordering
    PROVE  /\ \A i, j, g : InSlot(e, i, j, g) <=> InSlot(d, i, j, g)
           /\ \A i, j, k, x : InRow(e, i, j, k, x) <=> InRow(d, i, j, k, x)
           /\ Rows(e) = Rows(d) /\ Slots(e) = Slots(d) /\ Placed(e) = Placed(d)
           /\ LayerIds(e) = LayerIds(d)
<1>1. Slots(e) = Slots(d) /\ LayerIds(e) = LayerIds(d)
  BY DEF Slots, LayerIds
<1>2. Rows(e) = Rows(d)
  BY <1>1 DEF Rows
<1>3. QED BY <1>1, <1>2 DEF Placed, InSlot, InRow

\* The set of the groups' names changes.
LEMMA RegroupGood ==
    ASSUME NEW d \in Good, NEW G \in FiniteSubsetsOf(Nat),
           \A i, j, g : InSlot(d, i, j, g) /\ g # Null => g \in G
    PROVE  LET e == [d EXCEPT !.groups = G]
           IN e \in Good /\ Rearranged(d, e) /\ e.groups = G /\ e.ordering = d.ordering
<1> DEFINE e == [d EXCEPT !.groups = G]
<1>1. d \in Documents
  BY DEF Good
<1>2. /\ e \in Documents /\ e.ordering = d.ordering /\ e.groups = G
      /\ e.tracks = d.tracks /\ e.notes = d.notes /\ e.clash = d.clash
  BY <1>1 DEF Documents
<1> HIDE DEF e
<1>3. Rearranged(d, e)
  BY <1>1, <1>2 DEF Rearranged
<1>4. Scope(e) = Scope(d)
  BY <1>2 DEF Scope
<1>5. /\ \A i, j, g : InSlot(e, i, j, g) <=> InSlot(d, i, j, g)
      /\ \A i, j, k, x : InRow(e, i, j, k, x) <=> InRow(d, i, j, k, x)
  BY <1>2, SameOrdering
<1>6. ASSUME NEW i, NEW j, NEW g, InSlot(e, i, j, g), g # Null
      PROVE  g \in e.groups /\ \A i2, j2 : InSlot(e, i2, j2, g) => i = i2 /\ j = j2
  BY <1>1, <1>2, <1>5, <1>6, GoodByPosition
<1>7. ASSUME NEW i, NEW j, NEW k, NEW x, InRow(e, i, j, k, x), x \in Scope(e)
      PROVE  /\ x \in DOMAIN e.tracks
             /\ \A i2, j2, k2 : InRow(e, i2, j2, k2, x) => i = i2 /\ j = j2 /\ k = k2
  BY <1>1, <1>2, <1>4, <1>5, <1>7, GoodByPosition
<1>8. e \in Good
  BY <1>2, <1>6, <1>7, GoodByPosition
<1>9. QED BY <1>2, <1>3, <1>8 DEF e

\* The entities change, and keep those of the rows in scope.
LEMMA RetrackGood ==
    ASSUME NEW d \in Good, NEW f \in Entities,
           \A x \in Placed(d) : x \in Scope(d) => x \in DOMAIN f
    PROVE  LET e == [d EXCEPT !.tracks = f]
           IN /\ e \in Good /\ e.ordering = d.ordering /\ e.groups = d.groups
              /\ e.tracks = f /\ e.notes = d.notes /\ e.clash = d.clash
<1> DEFINE e == [d EXCEPT !.tracks = f]
<1>1. d \in Documents
  BY DEF Good
<1>2. /\ e \in Documents /\ e.ordering = d.ordering /\ e.groups = d.groups
      /\ e.tracks = f /\ e.notes = d.notes /\ e.clash = d.clash
  BY <1>1 DEF Documents
<1> HIDE DEF e
<1>3. Scope(e) = Scope(d)
  BY <1>2 DEF Scope
<1>4. /\ \A i, j, g : InSlot(e, i, j, g) <=> InSlot(d, i, j, g)
      /\ \A i, j, k, x : InRow(e, i, j, k, x) <=> InRow(d, i, j, k, x)
  BY <1>2, SameOrdering
<1>5. ASSUME NEW i, NEW j, NEW g, InSlot(e, i, j, g), g # Null
      PROVE  g \in e.groups /\ \A i2, j2 : InSlot(e, i2, j2, g) => i = i2 /\ j = j2
  BY <1>1, <1>2, <1>4, <1>5, GoodByPosition
<1>6. ASSUME NEW i, NEW j, NEW k, NEW x, InRow(e, i, j, k, x), x \in Scope(e)
      PROVE  /\ x \in DOMAIN e.tracks
             /\ \A i2, j2, k2 : InRow(e, i2, j2, k2, x) => i = i2 /\ j = j2 /\ k = k2
  <2>1. x \in Placed(d)
    BY <1>4, <1>6, PlacedByPosition
  <2>2. QED BY <1>1, <1>2, <1>3, <1>4, <1>6, <2>1, GoodByPosition
<1>7. e \in Good
  BY <1>2, <1>5, <1>6, GoodByPosition
<1>8. QED BY <1>2, <1>7 DEF e

\* The notes change.
LEMMA RenoteGood ==
    ASSUME NEW d \in Good, NEW N \in FiniteSubsetsOf(Note)
    PROVE  LET e == [d EXCEPT !.notes = N]
           IN /\ e \in Good /\ e.ordering = d.ordering /\ e.groups = d.groups
              /\ e.tracks = d.tracks /\ e.notes = N /\ e.clash = d.clash
<1> DEFINE e == [d EXCEPT !.notes = N]
<1>1. d \in Documents
  BY DEF Good
<1>2. /\ e \in Documents /\ e.ordering = d.ordering /\ e.groups = d.groups
      /\ e.tracks = d.tracks /\ e.notes = N /\ e.clash = d.clash
  BY <1>1 DEF Documents
<1> HIDE DEF e
<1>3. Scope(e) = Scope(d)
  BY <1>2 DEF Scope
<1>4. /\ \A i, j, g : InSlot(e, i, j, g) <=> InSlot(d, i, j, g)
      /\ \A i, j, k, x : InRow(e, i, j, k, x) <=> InRow(d, i, j, k, x)
  BY <1>2, SameOrdering
<1>5. ASSUME NEW i, NEW j, NEW g, InSlot(e, i, j, g), g # Null
      PROVE  g \in e.groups /\ \A i2, j2 : InSlot(e, i2, j2, g) => i = i2 /\ j = j2
  BY <1>1, <1>2, <1>4, <1>5, GoodByPosition
<1>6. ASSUME NEW i, NEW j, NEW k, NEW x, InRow(e, i, j, k, x), x \in Scope(e)
      PROVE  /\ x \in DOMAIN e.tracks
             /\ \A i2, j2, k2 : InRow(e, i2, j2, k2, x) => i = i2 /\ j = j2 /\ k = k2
  BY <1>1, <1>2, <1>3, <1>4, <1>6, GoodByPosition
<1>7. e \in Good
  BY <1>2, <1>5, <1>6, GoodByPosition
<1>8. QED BY <1>2, <1>7 DEF e

\* The tracks of a set of entities, and what they are.
LEMMA EntitiesElim ==
    ASSUME NEW f \in Entities
    PROVE  /\ DOMAIN f \subseteq TrackId /\ IsFiniteSet(DOMAIN f)
           /\ \A t \in DOMAIN f : f[t] \in Lanes \cup {Null} /\ (f[t] = Null <=> t \in RuntimeIds)
<1>1. PICK S \in FiniteSubsetsOf(TrackId) : f \in Typed(S)
  BY DEF Entities
<1>2. f \in [S -> Lanes \cup {Null}] /\ \A t \in S : f[t] = Null <=> t \in RuntimeIds
  BY <1>1 DEF Typed
<1>3. S \in SUBSET TrackId /\ IsFiniteSet(S)
  BY <1>1 DEF FiniteSubsetsOf
<1>4. QED BY <1>2, <1>3

\* What makes a set of entities of a function.
LEMMA EntitiesIntro ==
    ASSUME NEW S \in SUBSET TrackId, IsFiniteSet(S), NEW f \in [S -> Lanes \cup {Null}],
           \A t \in S : f[t] = Null <=> t \in RuntimeIds
    PROVE  f \in Entities
<1>1. f \in Typed(S) /\ S \in FiniteSubsetsOf(TrackId)
  BY DEF Typed, FiniteSubsetsOf
<1>2. QED BY <1>1 DEF Entities

\* One more entity.
Added(f, t, v) == Joined([x \in {t} |-> v], f)

\* A new entity joins those there were.
LEMMA EntitiesAdd ==
    ASSUME NEW f \in Entities, NEW t \in TrackId, NEW v \in Lanes \cup {Null},
           v = Null <=> t \in RuntimeIds
    PROVE  /\ Added(f, t, v) \in Entities
           /\ DOMAIN Added(f, t, v) = {t} \cup DOMAIN f
<1> DEFINE S == {t} \cup DOMAIN f
           h == [x \in S |-> IF x = t THEN v ELSE f[x]]
<1>1. /\ DOMAIN f \subseteq TrackId /\ IsFiniteSet(DOMAIN f)
      /\ \A x \in DOMAIN f : f[x] \in Lanes \cup {Null} /\ (f[x] = Null <=> x \in RuntimeIds)
  BY EntitiesElim
<1>2. Added(f, t, v) = h
  BY DEF Added, Joined
<1>3. S \in SUBSET TrackId /\ IsFiniteSet(S)
  BY <1>1, FS_AddElement, FS_Union, FS_Singleton
<1>4. h \in [S -> Lanes \cup {Null}] /\ \A x \in S : h[x] = Null <=> x \in RuntimeIds
  BY <1>1
<1>5. h \in Entities
  <2> HIDE DEF h, S
  <2> QED BY <1>3, <1>4, EntitiesIntro
<1>6. DOMAIN h = S
  OBVIOUS
<1>7. QED BY <1>2, <1>5, <1>6

\* One entity fewer.
LEMMA EntitiesDrop ==
    ASSUME NEW f \in Entities, NEW t
    PROVE  /\ Restrict(f, DOMAIN f \ {t}) \in Entities
           /\ DOMAIN Restrict(f, DOMAIN f \ {t}) = DOMAIN f \ {t}
           /\ \A x \in DOMAIN f : x # t => Restrict(f, DOMAIN f \ {t})[x] = f[x]
<1> DEFINE S == DOMAIN f \ {t}
           h == [x \in S |-> f[x]]
<1>1. /\ DOMAIN f \subseteq TrackId /\ IsFiniteSet(DOMAIN f)
      /\ \A x \in DOMAIN f : f[x] \in Lanes \cup {Null} /\ (f[x] = Null <=> x \in RuntimeIds)
  BY EntitiesElim
<1>2. Restrict(f, DOMAIN f \ {t}) = h
  BY DEF Restrict
<1>3. S \in SUBSET TrackId /\ IsFiniteSet(S)
  BY <1>1, FS_RemoveElement
<1>4. h \in [S -> Lanes \cup {Null}] /\ \A x \in S : h[x] = Null <=> x \in RuntimeIds
  BY <1>1
<1>5. h \in Entities
  <2> HIDE DEF h, S
  <2> QED BY <1>3, <1>4, EntitiesIntro
<1>6. DOMAIN h = S /\ \A x \in DOMAIN f : x # t => h[x] = f[x]
  OBVIOUS
<1>7. QED BY <1>2, <1>5, <1>6

-----------------------------------------------------------------------------
(* The searches, and the ids that are minted.                               *)

\* The first of some rows is one of them, and none of them is above it.
LEMMA FirstIsOne ==
    ASSUME NEW d \in Documents, NEW S \in SUBSET Rows(d), S # {}
    PROVE  First(S) \in S /\ \A q \in S : ~Above(q, First(S))
<1>1. \A r \in S : r.li \in Nat /\ r.si \in Nat /\ r.ti \in Nat
  BY RowsAreInRow, InRowNat
<1> DEFINE L == {r.li : r \in S}
<1>2. PICK a \in L : \A y \in L : a <= y
  <2>1. L \in SUBSET Nat /\ L # {}
    BY <1>1
  <2> HIDE DEF L
  <2>2. QED BY <2>1, LeastNatural
<1> DEFINE M == {r.si : r \in {q \in S : q.li = a}}
<1>3. PICK b \in M : \A y \in M : b <= y
  <2>1. M \in SUBSET Nat /\ M # {}
    BY <1>1
  <2> HIDE DEF M
  <2>2. QED BY <2>1, LeastNatural
<1> DEFINE N == {r.ti : r \in {q \in S : q.li = a /\ q.si = b}}
<1>4. PICK c \in N : \A y \in N : c <= y
  <2>1. N \in SUBSET Nat /\ N # {}
    BY <1>1
  <2> HIDE DEF N
  <2>2. QED BY <2>1, LeastNatural
<1>5. PICK r \in S : r.li = a /\ r.si = b /\ r.ti = c
  OBVIOUS
<1>6. ASSUME NEW q \in S, Above(q, r) PROVE FALSE
  <2>1. q.li \in Nat /\ q.si \in Nat /\ q.ti \in Nat /\ a \in Nat /\ b \in Nat /\ c \in Nat
    BY <1>1, <1>5
  <2>2. a <= q.li
    BY <1>2
  <2>3. q.li = a => b <= q.si
    BY <1>3
  <2>4. q.li = a /\ q.si = b => c <= q.ti
    BY <1>4
  <2>5. QED BY <1>5, <1>6, <2>1, <2>2, <2>3, <2>4 DEF Above
<1>7. QED BY <1>5, <1>6 DEF First

\* locate finds a row of a placed track.
LEMMA LocateFinds ==
    ASSUME NEW d \in Documents, NEW t \in Placed(d)
    PROVE  LET r == Locate(d, t)
           IN /\ r \in Rows(d) /\ r.track = t /\ InRow(d, r.li, r.si, r.ti, t)
<1> DEFINE S == {row \in Rows(d) : row.track = t}
<1>1. S \in SUBSET Rows(d) /\ S # {}
  BY DEF Placed
<1> HIDE DEF S
<1>2. First(S) \in S
  BY <1>1, FirstIsOne
<1>3. Locate(d, t) \in Rows(d) /\ Locate(d, t).track = t
  BY <1>2 DEF Locate, S
<1>4. QED BY <1>3, RowsAreInRow

\* The search in one layer finds the first row there of a track that has one.
LEMMA RowInFinds ==
    ASSUME NEW d \in Documents, NEW li, NEW t, InLayer(d, li, t)
    PROVE  LET r == RowIn(d, li, t)
           IN /\ r \in Rows(d) /\ r.li = li /\ r.track = t /\ InRow(d, li, r.si, r.ti, t)
              /\ \A j, k : InRow(d, li, j, k, t) => ~(j < r.si) /\ ~(j = r.si /\ k < r.ti)
<1> DEFINE S == {row \in Rows(d) : row.li = li /\ row.track = t}
<1>1. S \in SUBSET Rows(d) /\ S # {}
  BY DEF InLayer
<1> HIDE DEF S
<1>2. First(S) \in S /\ \A q \in S : ~Above(q, First(S))
  BY <1>1, FirstIsOne
<1> DEFINE r == RowIn(d, li, t)
<1>3. /\ r \in Rows(d) /\ r.li = li /\ r.track = t
      /\ \A q \in Rows(d) : q.li = li /\ q.track = t => ~Above(q, r)
  BY <1>2 DEF RowIn, S
<1> HIDE DEF r
<1>4. InRow(d, li, r.si, r.ti, t)
  BY <1>3, RowsAreInRow
<1>5. ASSUME NEW j, NEW k, InRow(d, li, j, k, t)
      PROVE  ~(j < r.si) /\ ~(j = r.si /\ k < r.ti)
  <2> DEFINE q == [li |-> li, si |-> j, ti |-> k, track |-> t]
  <2>1. q \in Rows(d) /\ q.li = li /\ q.si = j /\ q.ti = k /\ q.track = t
    BY <1>5, RowsAreInRow
  <2> HIDE DEF q
  <2>2. ~Above(q, r)
    BY <1>3, <2>1
  <2>3. QED BY <1>3, <2>1, <2>2 DEF Above
<1>6. QED BY <1>3, <1>4, <1>5 DEF r

\* Being in a layer, by position.
LEMMA InLayerByPosition ==
    ASSUME NEW d, NEW li, NEW t
    PROVE  InLayer(d, li, t) <=> \E j, k : InRow(d, li, j, k, t)
<1>1. ASSUME InLayer(d, li, t) PROVE \E j, k : InRow(d, li, j, k, t)
  BY <1>1, RowsAreInRow DEF InLayer
<1>2. ASSUME NEW j, NEW k, InRow(d, li, j, k, t) PROVE InLayer(d, li, t)
  <2> DEFINE r == [li |-> li, si |-> j, ti |-> k, track |-> t]
  <2>1. r \in Rows(d) /\ r.li = li /\ r.track = t
    BY <1>2, RowsAreInRow
  <2> HIDE DEF r
  <2>2. QED BY <2>1 DEF InLayer
<1>3. QED BY <1>1, <1>2

\* A layer's position is one of the ordering, or 0.
LEMMA LayerAtFinds ==
    ASSUME NEW d \in Documents, NEW l
    PROVE  /\ LayerAt(d, l) # 0 => LayerAt(d, l) \in DOMAIN d.ordering
                                    /\ d.ordering[LayerAt(d, l)].id = l
           /\ l \in LayerIds(d) => LayerAt(d, l) # 0
<1> DEFINE at == {li \in DOMAIN d.ordering : d.ordering[li].id = l}
<1>1. at \in SUBSET Int /\ IsFiniteSet(at) /\ at \subseteq DOMAIN d.ordering /\ 0 \notin at
  <2>1. DOMAIN d.ordering = 1 .. Len(d.ordering) /\ Len(d.ordering) \in Nat
    BY DocumentShape
  <2>2. IsFiniteSet(1 .. Len(d.ordering))
    BY <2>1, FS_Interval
  <2>3. at \in SUBSET (1 .. Len(d.ordering))
    BY <2>1
  <2>4. IsFiniteSet(at)
    BY <2>2, <2>3, FS_Subset
  <2>5. QED BY <2>1, <2>3, <2>4
<1>2. at # {} => Min(at) \in at
  <2> HIDE DEF at
  <2> QED BY <1>1, MinMax
<1>3. LayerAt(d, l) = IF at = {} THEN 0 ELSE Min(at)
  BY DEF LayerAt
<1>4. QED BY <1>1, <1>2, <1>3 DEF LayerIds

\* The last loose run of a layer, or 0.
LEMMA LastLooseFinds ==
    ASSUME NEW d \in Documents, NEW li \in DOMAIN d.ordering
    PROVE  LET last == LastLoose(d.ordering[li].slots)
           IN /\ last \in Nat
              /\ last > 0 => last \in DOMAIN d.ordering[li].slots
                              /\ d.ordering[li].slots[last].group = Null
<1> DEFINE q == d.ordering[li].slots
           at == {0} \cup {si \in DOMAIN q : q[si].group = Null}
<1>1. DOMAIN q = 1 .. Len(q) /\ Len(q) \in Nat
  BY DocumentShape
<1> HIDE DEF q
<1>2. at \in SUBSET Int /\ IsFiniteSet(at) /\ at # {}
  <2>1. IsFiniteSet(0 .. Len(q)) /\ at \in SUBSET (0 .. Len(q))
    BY <1>1, FS_Interval
  <2>2. IsFiniteSet(at)
    BY <2>1, FS_Subset
  <2>3. QED BY <1>1, <2>2
<1>3. Max(at) \in at
  <2> HIDE DEF at
  <2> QED BY <1>2, MinMax
<1>4. LastLoose(q) = Max(at)
  BY DEF LastLoose
<1>5. LastLoose(q) \in Nat /\ (LastLoose(q) > 0 => LastLoose(q) \in DOMAIN q
                                                   /\ q[LastLoose(q)].group = Null)
  BY <1>1, <1>3, <1>4
<1>6. QED BY <1>5 DEF q

\* The next group is new.
LEMMA FreshGroupIsNew ==
    ASSUME NEW d \in Documents
    PROVE  /\ FreshGroup(d) \in Nat /\ FreshGroup(d) \notin d.groups
           /\ d.groups \cup {FreshGroup(d)} \in FiniteSubsetsOf(Nat)
<1>1. d.groups \in SUBSET Nat /\ IsFiniteSet(d.groups)
  BY DEF Documents, FiniteSubsetsOf
<1>2. FreshGroup(d) \in Nat /\ FreshGroup(d) \notin d.groups
  <2>1. CASE d.groups = {}
    BY <2>1 DEF FreshGroup
  <2>2. CASE d.groups # {}
    <3>1. Max(d.groups) \in d.groups /\ \A y \in d.groups : Max(d.groups) >= y
      BY <1>1, <2>2, MinMax
    <3>2. Max(d.groups) \in Nat /\ FreshGroup(d) = Max(d.groups) + 1
      BY <1>1, <2>2, <3>1 DEF FreshGroup
    <3>3. QED BY <1>1, <3>1, <3>2
  <2>3. QED BY <2>1, <2>2
<1>3. IsFiniteSet(d.groups \cup {FreshGroup(d)})
  BY <1>1, FS_AddElement
<1>4. QED BY <1>1, <1>2, <1>3 DEF FiniteSubsetsOf

\* The next instrument track is new, and no runtime track.
LEMMA FreshTrackIsNew ==
    ASSUME NEW d \in Documents
    PROVE  /\ FreshTrack(d) \in Nat /\ FreshTrack(d) \in TrackId
           /\ FreshTrack(d) \notin DOMAIN d.tracks /\ FreshTrack(d) \notin RuntimeIds
<1> DEFINE S == {-1} \cup {t \in DOMAIN d.tracks \ RuntimeIds : t >= 0}
<1>1. d.tracks \in Entities
  BY DEF Documents
<1>2. DOMAIN d.tracks \subseteq TrackId /\ IsFiniteSet(DOMAIN d.tracks)
  BY <1>1, EntitiesElim
<1>3. RuntimeIds \cap Int = {}
  BY ScoreAssumption
<1>4. S \in SUBSET Int /\ IsFiniteSet(S) /\ S # {}
  <2>1. {t \in DOMAIN d.tracks \ RuntimeIds : t >= 0} \in SUBSET DOMAIN d.tracks
    OBVIOUS
  <2>2. IsFiniteSet({t \in DOMAIN d.tracks \ RuntimeIds : t >= 0})
    BY <1>2, <2>1, FS_Subset
  <2>3. IsFiniteSet(S)
    BY <2>2, FS_Singleton, FS_Union
  <2>4. S \in SUBSET Int
    BY <1>2 DEF TrackId
  <2>5. QED BY <2>3, <2>4
<1>5. Max(S) \in S /\ \A y \in S : Max(S) >= y
  <2> HIDE DEF S
  <2> QED BY <1>4, MinMax
<1>6. FreshTrack(d) = Max(S) + 1
  BY DEF FreshTrack
<1>7. Max(S) \in Int /\ Max(S) >= -1
  BY <1>4, <1>5
<1>8. FreshTrack(d) \in Nat /\ FreshTrack(d) \notin S
  BY <1>5, <1>6, <1>7
<1>9. FreshTrack(d) \notin RuntimeIds /\ FreshTrack(d) \in TrackId
  BY <1>3, <1>8 DEF TrackId
<1>10. FreshTrack(d) \notin DOMAIN d.tracks
  BY <1>8, <1>9
<1>11. QED BY <1>8, <1>9, <1>10

=============================================================================
