---------------------------- MODULE SequenceLemmas ----------------------------
(***************************************************************************)
(* Induction over numbers and lists, and with it what the folds and the    *)
(* concatenations of the gateway's modules compute for every list.         *)
(*                                                                         *)
(* Induction is stated for a set instead of a property: whatever has the   *)
(* property is collected in a set first.  Folds are stated for the value   *)
(* of a fold, v, and a function F that extends it by one element.          *)
(***************************************************************************)
EXTENDS Selection, WellFoundedInduction, TLAPS

-----------------------------------------------------------------------------
(* Induction. *)

\* Of the relation < of numbers, given as a set of pairs.
LEMMA LeastByRelation ==
  ASSUME NEW R, NEW T \in SUBSET Nat,
         \E n \in T : \A m \in T : ~ (<<m, n>> \in R),
         \A m, n \in Nat : m < n => <<m, n>> \in R
  PROVE  \E n \in T : \A m \in T : n <= m
  <1>1. PICK n \in T : \A m \in T : <<m, n>> \notin R
    OBVIOUS
  <1>2. \A m \in T : ~ (m < n)
    BY <1>1
  <1>3. \A m \in T : n <= m
    BY <1>2
  <1> QED
    BY <1>3

\* A set of natural numbers has a least one.
LEMMA Least ==
  ASSUME NEW T \in SUBSET Nat, T # {}
  PROVE  \E n \in T : \A m \in T : n <= m
  <1> DEFINE R == OpToRel(<, Nat)
  <1>1. \E n \in T : \A m \in T : ~ (<<m, n>> \in R)
    BY NatLessThanWellFounded, WFMin, Zenon
  <1>2. \A m, n \in Nat : m < n => <<m, n>> \in R
    BY DEF OpToRel
  <1> HIDE DEF R
  <1> QED
    BY <1>1, <1>2, LeastByRelation, Zenon

\* Induction over numbers, for sets.
LEMMA Counting ==
  ASSUME NEW T, 0 \in T, \A n \in Nat : n \in T => n + 1 \in T
  PROVE  \A n \in Nat : n \in T
  <1> SUFFICES ASSUME Nat \ T # {} PROVE FALSE
    OBVIOUS
  <1>1. PICK n \in Nat \ T : \A m \in Nat \ T : n <= m
    BY Least
  <1>2. n # 0 /\ n - 1 \in Nat
    BY <1>1
  <1>3. n - 1 \in T
    BY <1>1, <1>2
  <1> QED
    BY <1>1, <1>2, <1>3

\* Induction over sequences, for sets.
LEMMA Appending ==
  ASSUME NEW E, NEW T, <<>> \in T, \A q \in Seq(E), e \in E : q \in T => Append(q, e) \in T
  PROVE  \A q \in Seq(E) : q \in T
  <1> DEFINE N == {n \in Nat : \A q \in Seq(E) : Len(q) = n => q \in T}
  <1>1. 0 \in N
    <2>1. \A q \in Seq(E) : Len(q) = 0 => q = <<>>
      OBVIOUS
    <2> QED
      BY <2>1
  <1>2. ASSUME NEW n \in Nat, n \in N PROVE n + 1 \in N
    <2> SUFFICES ASSUME NEW q \in Seq(E), Len(q) = n + 1 PROVE q \in T
      OBVIOUS
    <2> DEFINE p == SubSeq(q, 1, n)
    <2>1. p \in Seq(E) /\ Len(p) = n /\ q[n + 1] \in E
      OBVIOUS
    <2>2. q = Append(p, q[n + 1])
      OBVIOUS
    <2>3. p \in T
      BY <1>2, <2>1
    <2> QED
      BY <2>1, <2>2, <2>3
  <1> HIDE DEF N
  <1>3. \A n \in Nat : n \in N
    BY <1>1, <1>2, Counting
  <1> QED
    BY <1>3 DEF N

-----------------------------------------------------------------------------
(* Folds. *)

\* Max, as FoldLeft uses it.
LEMMA LastOf ==
  ASSUME NEW n \in Nat, NEW s \in SUBSET (1..(n + 1)), n + 1 \in s
  PROVE  Max(s) = n + 1
  <1>1. \A y \in s : n + 1 >= y
    OBVIOUS
  <1>2. Max(s) \in s /\ \A y \in s : Max(s) >= y
    BY <1>1 DEF Max
  <1>3. PICK m : m = Max(s)
    OBVIOUS
  <1>4. m \in 1..(n + 1) /\ m >= n + 1
    BY <1>2, <1>3
  <1>5. m = n + 1
    BY <1>4
  <1> QED
    BY <1>3, <1>5

\* Every set of indices has a last one.
LEMMA MaxIn ==
  ASSUME NEW n \in Nat, NEW s \in SUBSET (1..n), s # {}
  PROVE  Max(s) \in s /\ s \ {Max(s)} \in SUBSET (1..n)
  <1> DEFINE T == {m \in 0..n : n - m \in s}
  <1>1. T # {} /\ T \in SUBSET Nat
    <2>1. PICK i \in s : TRUE
      OBVIOUS
    <2>2. i \in 1..n /\ n - (n - i) = i /\ n - i \in 0..n
      OBVIOUS
    <2>3. n - i \in T
      BY <2>2
    <2>4. T \in SUBSET Nat
      OBVIOUS
    <2> HIDE DEF T
    <2> QED
      BY <2>3, <2>4
  <1>2. PICK m \in T : \A k \in T : m <= k
    <2> HIDE DEF T
    <2> QED
      BY <1>1, Least
  <1>3. \A i \in s : n - i \in T
    OBVIOUS
  <1>4. n - m \in s /\ \A i \in s : n - m >= i
    BY <1>2, <1>3
  <1> QED
    BY <1>4 DEF Max

\* A function over sets of indices as a fold is defined by.
IsFold(b, F, n, g) ==
  \A s \in SUBSET (1..n) : g[s] = IF s = {} THEN b ELSE F[<<g[s \ {Max(s)}], Max(s)>>]

LEMMA FoldExists ==
  ASSUME NEW X, NEW b \in X, NEW n \in Nat, NEW F \in [X \X (1..n) -> X]
  PROVE  \E g \in [SUBSET (1..n) -> X] : IsFold(b, F, n, g)
  <1> DEFINE Fits(g, k) ==
        /\ g \in [SUBSET (1..k) -> X]
        /\ \A s \in SUBSET (1..k) :
             g[s] = IF s = {} THEN b ELSE F[<<g[s \ {Max(s)}], Max(s)>>]
  <1> DEFINE N == {k \in Nat : k <= n => \E g : Fits(g, k)}
  <1> HIDE DEF Fits
  <1>1. 0 \in N
    <2> DEFINE g == [s \in SUBSET (1..0) |-> b]
    <2>1. \A s \in SUBSET (1..0) : s = {}
      OBVIOUS
    <2>2. \A s \in SUBSET (1..0) : g[s] = b
      OBVIOUS
    <2>3. g \in [SUBSET (1..0) -> X]
      OBVIOUS
    <2> HIDE DEF g
    <2>4. Fits(g, 0)
      BY <2>1, <2>2, <2>3 DEF Fits
    <2> QED
      BY <2>4
  <1>2. ASSUME NEW k \in Nat, k \in N PROVE k + 1 \in N
    <2> SUFFICES ASSUME k + 1 <= n PROVE \E g : Fits(g, k + 1)
      OBVIOUS
    <2>1. PICK g : Fits(g, k)
      BY <1>2
    <2> DEFINE h == [s \in SUBSET (1..(k + 1)) |->
                       IF k + 1 \in s THEN F[<<g[s \ {k + 1}], k + 1>>] ELSE g[s]]
    <2>2. \A s \in SUBSET (1..(k + 1)) : k + 1 \notin s => s \in SUBSET (1..k)
      OBVIOUS
    <2>3. \A s \in SUBSET (1..(k + 1)) : s \ {k + 1} \in SUBSET (1..k)
      OBVIOUS
    <2>4. h \in [SUBSET (1..(k + 1)) -> X]
      BY <2>1, <2>2, <2>3 DEF Fits
    <2>5. ASSUME NEW s \in SUBSET (1..(k + 1))
          PROVE  h[s] = IF s = {} THEN b ELSE F[<<h[s \ {Max(s)}], Max(s)>>]
      <3>1. CASE k + 1 \in s
        <4>1. Max(s) = k + 1 /\ s # {}
          BY <3>1, LastOf
        <4>2. h[s \ {k + 1}] = g[s \ {k + 1}]
          BY <2>3
        <4> QED
          BY <3>1, <4>1, <4>2
      <3>2. CASE k + 1 \notin s /\ s # {}
        <4>1. s \in SUBSET (1..k)
          BY <2>2, <3>2
        <4>2. s \ {Max(s)} \in SUBSET (1..k)
          BY <3>2, <4>1, MaxIn
        <4>3. h[s] = g[s] /\ h[s \ {Max(s)}] = g[s \ {Max(s)}]
          BY <3>2, <4>1, <4>2
        <4> QED
          BY <2>1, <3>2, <4>1, <4>3 DEF Fits
      <3>3. CASE s = {}
        <4>1. {} \in SUBSET (1..k) /\ k + 1 \notin s
          BY <3>3
        <4> QED
          BY <2>1, <3>3, <4>1 DEF Fits
      <3> QED
        BY <3>1, <3>2, <3>3
    <2> HIDE DEF h
    <2>6. Fits(h, k + 1)
      BY <2>4, <2>5 DEF Fits
    <2> QED
      BY <2>6
  <1> HIDE DEF N
  <1>3. n \in N
    BY <1>1, <1>2, Counting
  <1>4. \E g : Fits(g, n)
    BY <1>3 DEF N
  <1> QED
    BY <1>4 DEF Fits, IsFold

\* The same for the elements of a list.
IsFoldOf(b, F, seq, n, g) ==
  \A s \in SUBSET (1..n) :
    g[s] = IF s = {} THEN b ELSE F[<<g[s \ {Max(s)}], seq[Max(s)]>>]

LEMMA FoldOf ==
  ASSUME NEW X, NEW E, NEW b \in X, NEW F \in [X \X E -> X], NEW n \in Nat,
         NEW seq, \A k \in 1..n : seq[k] \in E
  PROVE  \E g \in [SUBSET (1..n) -> X] : IsFoldOf(b, F, seq, n, g)
  <1> DEFINE G == [p \in X \X (1..n) |-> F[<<p[1], seq[p[2]]>>]]
  <1>1. G \in [X \X (1..n) -> X]
    OBVIOUS
  <1>2. \A x \in X, k \in 1..n : G[<<x, k>>] = F[<<x, seq[k]>>]
    OBVIOUS
  <1> HIDE DEF G
  <1>3. PICK g \in [SUBSET (1..n) -> X] : IsFold(b, G, n, g)
    BY <1>1, FoldExists, Zenon
  <1>4. \A s \in SUBSET (1..n) : s # {} =>
          s \ {Max(s)} \in SUBSET (1..n) /\ Max(s) \in 1..n
    BY MaxIn
  <1>5. ASSUME NEW s \in SUBSET (1..n)
        PROVE  g[s] = IF s = {} THEN b ELSE F[<<g[s \ {Max(s)}], seq[Max(s)]>>]
    <2>1. s # {} => g[s \ {Max(s)}] \in X /\ Max(s) \in 1..n
      BY <1>4
    <2> QED
      BY <1>2, <1>3, <2>1 DEF IsFold
  <1> QED
    BY <1>5 DEF IsFoldOf

\* v is what F makes of the elements of seq, one after the other, starting from b.
Folds(X, F, b, seq, v) ==
  \E h \in [0..Len(seq) -> X] :
    /\ h[0] = b /\ h[Len(seq)] = v
    /\ \A k \in 1..Len(seq) : h[k] = F[<<h[k - 1], seq[k]>>]

\* The function of FoldLeft, over sets of indices, on the initial ones.
LEMMA FoldValue ==
  ASSUME NEW X, NEW E, NEW b \in X, NEW F \in [X \X E -> X], NEW seq \in Seq(E), NEW it,
         it[{}] = b,
         \A s \in SUBSET (1..Len(seq)) : s # {} /\ it[s \ {Max(s)}] \in X =>
           it[s] = F[<<it[s \ {Max(s)}], seq[Max(s)]>>]
  PROVE  Folds(X, F, b, seq, it[1..Len(seq)])
  <1> DEFINE n == Len(seq)
             h == [k \in 0..n |-> it[1..k]]
  <1>1. n \in Nat /\ \A k \in 1..n : seq[k] \in E
    OBVIOUS
  <1>2. h[0] = b
    <2>1. 1..0 = {}
      OBVIOUS
    <2> QED
      BY <1>1, <2>1
  <1>3. ASSUME NEW k \in 1..n, h[k - 1] \in X PROVE h[k] = F[<<h[k - 1], seq[k]>>]
    <2>1. k - 1 \in Nat /\ (k - 1) + 1 = k /\ k \in 1..k
      BY <1>1
    <2>2. 1..k \in SUBSET (1..n) /\ 1..k # {} /\ (1..k) \ {k} = 1..(k - 1)
      <3> HIDE DEF n, h
      <3>1. 1..k \in SUBSET (1..n)
        BY <1>1
      <3>2. (1..k) \ {k} = 1..(k - 1)
        BY <1>1
      <3> QED
        BY <2>1, <3>1, <3>2
    <2>3. Max(1..k) = k
      <3>1. 1..k \in SUBSET (1..((k - 1) + 1)) /\ (k - 1) + 1 \in 1..k
        BY <2>1
      <3> QED
        BY <2>1, <3>1, LastOf
    <2>4. h[k] = it[1..k] /\ h[k - 1] = it[1..(k - 1)]
      BY <1>1
    <2> HIDE DEF h
    <2> QED
      BY <1>3, <2>2, <2>3, <2>4
  <1> DEFINE N == {k \in Nat : k <= n => h[k] \in X}
  <1> HIDE DEF h, n
  <1>4. 0 \in N
    BY <1>2
  <1>5. ASSUME NEW k \in Nat, k \in N PROVE k + 1 \in N
    <2> SUFFICES ASSUME k + 1 <= n PROVE h[k + 1] \in X
      OBVIOUS
    <2>1. k + 1 \in 1..n /\ (k + 1) - 1 = k /\ h[k] \in X
      BY <1>1, <1>5
    <2>2. h[k + 1] = F[<<h[k], seq[k + 1]>>] /\ seq[k + 1] \in E
      BY <1>1, <1>3, <2>1
    <2> QED
      BY <2>1, <2>2
  <1>6. \A k \in Nat : k \in N
    <2> HIDE DEF N
    <2> QED
      BY <1>4, <1>5, Counting
  <1>7. \A k \in 0..n : h[k] \in X
    BY <1>1, <1>6
  <1>8. h \in [0..n -> X]
    BY <1>7 DEF h
  <1>9. \A k \in 1..n : h[k] = F[<<h[k - 1], seq[k]>>]
    <2>1. \A k \in 1..n : k - 1 \in 0..n
      BY <1>1
    <2> QED
      BY <1>3, <1>7, <2>1
  <1>10. h[n] = it[1..n]
    BY <1>1 DEF h
  <1> QED
    BY <1>2, <1>8, <1>9, <1>10 DEF Folds, n

\* One more element is one more step.
LEMMA FoldAppended ==
  ASSUME NEW X, NEW E, NEW F, NEW b, NEW seq \in Seq(E), NEW e \in E, NEW v, NEW w,
         Folds(X, F, b, seq, v), Folds(X, F, b, Append(seq, e), w)
  PROVE  w = F[<<v, e>>]
  <1> DEFINE n == Len(seq)
             long == Append(seq, e)
  <1>1. n \in Nat /\ Len(long) = n + 1 /\ long[n + 1] = e /\ \A k \in 1..n : long[k] = seq[k]
    OBVIOUS
  <1>2. PICK g \in [0..n -> X] : /\ g[0] = b /\ g[n] = v
                                 /\ \A k \in 1..n : g[k] = F[<<g[k - 1], seq[k]>>]
    BY DEF Folds
  <1> HIDE DEF n, long
  <1>3. PICK h \in [0..Len(long) -> X] :
          /\ h[0] = b /\ h[Len(long)] = w
          /\ \A k \in 1..Len(long) : h[k] = F[<<h[k - 1], long[k]>>]
    BY DEF Folds, long
  <1> DEFINE N == {k \in Nat : k <= n => g[k] = h[k]}
  <1>4. 0 \in N
    BY <1>2, <1>3
  <1>5. ASSUME NEW k \in Nat, k \in N PROVE k + 1 \in N
    <2> SUFFICES ASSUME k + 1 <= n PROVE g[k + 1] = h[k + 1]
      OBVIOUS
    <2>1. k + 1 \in 1..n /\ k + 1 \in 1..(n + 1) /\ (k + 1) - 1 = k /\ g[k] = h[k]
      BY <1>1, <1>5
    <2> QED
      BY <1>1, <1>2, <1>3, <2>1, ZenonT(60)
  <1>6. \A k \in Nat : k \in N
    <2> HIDE DEF N
    <2> QED
      BY <1>4, <1>5, Counting
  <1>7. n + 1 \in 1..(n + 1) /\ (n + 1) - 1 = n /\ g[n] = h[n]
    BY <1>1, <1>6
  <1> QED
    BY <1>1, <1>2, <1>3, <1>7

LEMMA FoldEmpty ==
  ASSUME NEW X, NEW F, NEW b, NEW v, Folds(X, F, b, <<>>, v)
  PROVE  v = b
  BY DEF Folds

\* Every list can be folded.
LEMMA Foldable ==
  ASSUME NEW X, NEW E, NEW b \in X, NEW F \in [X \X E -> X], NEW seq \in Seq(E)
  PROVE  \E v : Folds(X, F, b, seq, v)
  <1> DEFINE n == Len(seq)
  <1>1. n \in Nat /\ \A k \in 1..n : seq[k] \in E
    OBVIOUS
  <1>2. PICK g \in [SUBSET (1..n) -> X] : IsFoldOf(b, F, seq, n, g)
    <2> HIDE DEF n
    <2>1. \A k \in 1..n : seq[k] \in E
      BY <1>1
    <2>2. n \in Nat
      BY <1>1
    <2> QED
      BY <2>1, <2>2, FoldOf, Zenon
  <1>3. g[{}] = b
    <2>1. {} \in SUBSET (1..n)
      OBVIOUS
    <2> QED
      BY <1>2, <2>1 DEF IsFoldOf
  <1>4. \A s \in SUBSET (1..n) : s # {} => g[s] = F[<<g[s \ {Max(s)}], seq[Max(s)]>>]
    BY <1>2 DEF IsFoldOf
  <1>5. Folds(X, F, b, seq, g[1..n])
    <2>1. \A s \in SUBSET (1..Len(seq)) : s # {} /\ g[s \ {Max(s)}] \in X =>
            g[s] = F[<<g[s \ {Max(s)}], seq[Max(s)]>>]
      BY <1>4
    <2> QED
      BY <1>3, <2>1, FoldValue
  <1> QED
    BY <1>5

-----------------------------------------------------------------------------
(* Selections. *)

\* One more element.
Keep(E, S) == [p \in Seq(E) \X E |-> IF p[2] \in S THEN Append(p[1], p[2]) ELSE p[1]]

LEMMA AmongFolds ==
  ASSUME NEW E, NEW seq \in Seq(E), NEW S
  PROVE  Folds(Seq(E), Keep(E, S), <<>>, seq, Among(seq, S))
  <1> DEFINE n == Len(seq)
             X == Seq(E)
             Op(x, e) == IF e \in S THEN Append(x, e) ELSE x
             IsIt(g) == g = [i \in 0..n |-> IF i = 0 THEN <<>> ELSE Op(g[i - 1], seq[i])]
             it == CHOOSE g : IsIt(g)
  <1>1. Among(seq, S) = it[n]
    BY DEF Among
  <1>2. n \in Nat /\ \A k \in 1..n : seq[k] \in E
    OBVIOUS
  <1>3. <<>> \in X /\ \A x \in X, e \in E : Op(x, e) \in X
    OBVIOUS
  <1>4. Keep(E, S) \in [X \X E -> X]
    BY <1>3 DEF Keep
  <1>5. \A x \in X, e \in E : Keep(E, S)[<<x, e>>] = Op(x, e)
    BY DEF Keep
  <1> HIDE DEF X, Op, it
  <1>6. PICK v : Folds(X, Keep(E, S), <<>>, seq, v)
    BY <1>3, <1>4, Foldable
  <1>7. PICK h \in [0..n -> X] : /\ h[0] = <<>>
                                 /\ \A k \in 1..n : h[k] = Keep(E, S)[<<h[k - 1], seq[k]>>]
    BY <1>6 DEF Folds
  <1> HIDE DEF n
  <1>8. \A k \in 1..n : h[k] = Op(h[k - 1], seq[k])
    <2>1. \A k \in 1..n : k - 1 \in 0..n
      BY <1>2
    <2> QED
      BY <1>2, <1>5, <1>7, <2>1
  <1>9. IsIt(h)
    BY <1>2, <1>7, <1>8
  <1>10. IsIt(it)
    <2> HIDE DEF IsIt
    <2> QED
      BY <1>9 DEF it
  <1>11. /\ DOMAIN it = 0..n /\ it[0] = <<>>
         /\ \A k \in 1..n : it[k] = Op(it[k - 1], seq[k])
    BY <1>2, <1>10
  <1> DEFINE M == {m \in Nat : m <= n => it[m] \in X}
  <1>12. 0 \in M
    BY <1>3, <1>11
  <1>13. ASSUME NEW m \in Nat, m \in M PROVE m + 1 \in M
    <2> SUFFICES ASSUME m + 1 <= n PROVE it[m + 1] \in X
      OBVIOUS
    <2>1. m + 1 \in 1..n /\ (m + 1) - 1 = m /\ it[m] \in X
      BY <1>2, <1>13
    <2> QED
      BY <1>2, <1>3, <1>11, <2>1
  <1>14. \A m \in Nat : m \in M
    <2> HIDE DEF M
    <2> QED
      BY <1>12, <1>13, Counting
  <1>15. \A k \in 0..n : it[k] \in X
    BY <1>2, <1>14
  <1>16. it \in [0..n -> X]
    BY <1>10, <1>11, <1>15
  <1> HIDE DEF IsIt
  <1>17. \A k \in 1..n : it[k] = Keep(E, S)[<<it[k - 1], seq[k]>>]
    <2>1. \A k \in 1..n : k - 1 \in 0..n
      BY <1>2
    <2> QED
      BY <1>2, <1>5, <1>11, <1>15, <2>1
  <1> QED
    BY <1>1, <1>11, <1>16, <1>17 DEF Folds, n, X

LEMMA AmongNone ==
  ASSUME NEW S
  PROVE  Among(<<>>, S) = <<>>
  <1>1. <<>> \in Seq({})
    OBVIOUS
  <1>2. Folds(Seq({}), Keep({}, S), <<>>, <<>>, Among(<<>>, S))
    BY <1>1, AmongFolds
  <1> QED
    BY <1>2, FoldEmpty

LEMMA AmongAppended ==
  ASSUME NEW E, NEW seq \in Seq(E), NEW e \in E, NEW S
  PROVE  /\ Among(seq, S) \in Seq(E)
         /\ Among(Append(seq, e), S) =
              IF e \in S THEN Append(Among(seq, S), e) ELSE Among(seq, S)
  <1>1. Append(seq, e) \in Seq(E)
    OBVIOUS
  <1>2. Folds(Seq(E), Keep(E, S), <<>>, seq, Among(seq, S))
    BY AmongFolds
  <1>3. Folds(Seq(E), Keep(E, S), <<>>, Append(seq, e), Among(Append(seq, e), S))
    BY <1>1, AmongFolds
  <1>4. Among(seq, S) \in Seq(E)
    <2>1. Len(seq) \in 0..Len(seq)
      OBVIOUS
    <2> QED
      BY <1>2, <2>1 DEF Folds
  <1>5. \A x \in Seq(E) : Keep(E, S)[<<x, e>>] = IF e \in S THEN Append(x, e) ELSE x
    BY DEF Keep
  <1>6. Among(Append(seq, e), S) = Keep(E, S)[<<Among(seq, S), e>>]
    BY <1>2, <1>3, FoldAppended
  <1> QED
    BY <1>4, <1>5, <1>6

\* Lists of the elements of any set.
LEMMA ElementIn ==
  ASSUME NEW E, NEW seq \in Seq(E), NEW k \in DOMAIN seq
  PROVE  seq[k] \in E
  OBVIOUS

LEMMA SeqWider ==
  ASSUME NEW E, NEW F, NEW seq \in Seq(E), \A e \in E : e \in F
  PROVE  seq \in Seq(F)
  <1>1. \A k \in 1..Len(seq) : seq[k] \in F
    OBVIOUS
  <1> QED
    BY <1>1

LEMMA JoinedIn ==
  ASSUME NEW E, NEW p \in Seq(E), NEW q \in Seq(E)
  PROVE  p \o q \in Seq(E) /\ Len(p \o q) = Len(p) + Len(q)
  OBVIOUS

LEMMA ToSetEmpty ==
  ASSUME NEW E, NEW seq \in Seq(E), ToSet(seq) = {}
  PROVE  seq = <<>>
  <1>1. DOMAIN seq = 1..Len(seq) /\ Len(seq) \in Nat
    OBVIOUS
  <1>2. \A k \in DOMAIN seq : FALSE
    BY DEF ToSet
  <1>3. Len(seq) = 0
    <2>1. Len(seq) # 0 => 1 \in DOMAIN seq
      BY <1>1
    <2> QED
      BY <1>2, <2>1
  <1> QED
    BY <1>3

LEMMA ToSetAppended ==
  ASSUME NEW E, NEW seq \in Seq(E), NEW e \in E
  PROVE  ToSet(Append(seq, e)) = ToSet(seq) \cup {e}
  <1>1. /\ Len(Append(seq, e)) = Len(seq) + 1 /\ Len(seq) \in Nat
        /\ Append(seq, e)[Len(seq) + 1] = e
        /\ \A k \in 1..Len(seq) : Append(seq, e)[k] = seq[k]
        /\ DOMAIN seq = 1..Len(seq) /\ DOMAIN Append(seq, e) = 1..(Len(seq) + 1)
    OBVIOUS
  <1>2. \A x \in ToSet(seq) \cup {e} : x \in ToSet(Append(seq, e))
    BY <1>1 DEF ToSet
  <1>3. \A x \in ToSet(Append(seq, e)) : x \in ToSet(seq) \cup {e}
    BY <1>1 DEF ToSet
  <1> QED
    BY <1>2, <1>3

\* What is selected is a list of elements of the set, no longer than the list it is
\* selected from, and none is left out.
LEMMA AmongElements ==
  ASSUME NEW E, NEW seq \in Seq(E), NEW S
  PROVE  /\ Among(seq, S) \in Seq(E \cap S) /\ Len(Among(seq, S)) <= Len(seq)
         /\ ToSet(Among(seq, S)) = ToSet(seq) \cap S
  <1> DEFINE T == {q \in Seq(E) : /\ Among(q, S) \in Seq(E \cap S)
                                  /\ Len(Among(q, S)) <= Len(q)
                                  /\ ToSet(Among(q, S)) = ToSet(q) \cap S}
  <1>1. <<>> \in T
    <2>1. ToSet(<<>>) = {}
      BY DEF ToSet
    <2>2. Among(<<>>, S) = <<>>
      BY AmongNone
    <2>3. <<>> \in Seq(E) /\ <<>> \in Seq(E \cap S) /\ Len(<<>>) <= Len(<<>>)
      OBVIOUS
    <2> QED
      BY <2>1, <2>2, <2>3
  <1>2. ASSUME NEW q \in Seq(E), NEW e \in E, q \in T PROVE Append(q, e) \in T
    <2> DEFINE a == Among(q, S)
    <2>1. /\ a \in Seq(E \cap S) /\ Len(a) <= Len(q) /\ ToSet(a) = ToSet(q) \cap S
      BY <1>2
    <2>2. Among(Append(q, e), S) = IF e \in S THEN Append(a, e) ELSE a
      BY AmongAppended
    <2>3. ToSet(Append(q, e)) = ToSet(q) \cup {e}
      BY ToSetAppended
    <2> HIDE DEF a
    <2>4. e \in S => ToSet(Append(a, e)) = ToSet(a) \cup {e} /\ Append(a, e) \in Seq(E \cap S)
      BY <2>1, ToSetAppended
    <2>5. /\ Append(q, e) \in Seq(E) /\ Len(Append(q, e)) = Len(q) + 1
          /\ Len(Append(a, e)) = Len(a) + 1 /\ Len(a) \in Nat /\ Len(q) \in Nat
      BY <2>1
    <2> DEFINE long == Append(q, e)
    <2> HIDE DEF long
    <2>6. /\ Among(long, S) \in Seq(E \cap S) /\ Len(Among(long, S)) <= Len(long)
          /\ ToSet(Among(long, S)) = ToSet(long) \cap S
      <3>1. CASE e \in S
        <4>1. Among(long, S) = Append(a, e)
          BY <2>2, <3>1 DEF long
        <4>2. ToSet(Append(a, e)) = ToSet(long) \cap S
          BY <2>1, <2>3, <2>4, <3>1 DEF long
        <4> QED
          BY <2>1, <2>4, <2>5, <3>1, <4>1, <4>2 DEF long
      <3>2. CASE e \notin S
        <4>1. Among(long, S) = a
          BY <2>2, <3>2 DEF long
        <4>2. ToSet(a) = ToSet(long) \cap S
          BY <2>1, <2>3, <3>2 DEF long
        <4> QED
          BY <2>1, <2>5, <4>1, <4>2 DEF long
      <3> QED
        BY <3>1, <3>2
    <2> QED
      BY <2>5, <2>6 DEF long
  <1>3. seq \in T
    <2> HIDE DEF T
    <2>1. \A q \in Seq(E), e \in E : q \in T => Append(q, e) \in T
      BY <1>2
    <2> QED
      BY <1>1, <2>1, Appending
  <1> QED
    BY <1>3

\* Sets that agree on the elements of a list select the same.
LEMMA AmongSame ==
  ASSUME NEW E, NEW seq \in Seq(E), NEW R, NEW S, ToSet(seq) \cap R = ToSet(seq) \cap S
  PROVE  Among(seq, R) = Among(seq, S)
  <1> DEFINE T == {q \in Seq(E) : ToSet(q) \cap R = ToSet(q) \cap S => Among(q, R) = Among(q, S)}
  <1>1. <<>> \in T
    BY AmongNone
  <1>2. ASSUME NEW q \in Seq(E), NEW e \in E, q \in T PROVE Append(q, e) \in T
    <2>1. Append(q, e) \in Seq(E) /\ ToSet(Append(q, e)) = ToSet(q) \cup {e}
      BY ToSetAppended
    <2>2. Among(Append(q, e), R) = IF e \in R THEN Append(Among(q, R), e) ELSE Among(q, R)
      BY AmongAppended
    <2>4. Among(Append(q, e), S) = IF e \in S THEN Append(Among(q, S), e) ELSE Among(q, S)
      BY AmongAppended
    <2>3. ASSUME ToSet(Append(q, e)) \cap R = ToSet(Append(q, e)) \cap S
          PROVE  ToSet(q) \cap R = ToSet(q) \cap S /\ (e \in R <=> e \in S)
      BY <2>1, <2>3
    <2> QED
      BY <1>2, <2>1, <2>2, <2>3, <2>4
  <1>3. seq \in T
    <2> HIDE DEF T
    <2>1. \A q \in Seq(E), e \in E : q \in T => Append(q, e) \in T
      BY <1>2
    <2> QED
      BY <1>1, <2>1, Appending
  <1> QED
    BY <1>3

-----------------------------------------------------------------------------
(* Concatenations. *)

\* A list of lists, flattened up to each of them.
LEMMA Flattening ==
  ASSUME NEW E, NEW seqs \in Seq(Seq(E)), seqs # <<>>
  PROVE  \E h \in [1..Len(seqs) -> Seq(E)] :
           /\ FlattenSeq(seqs) = h[Len(seqs)]
           /\ \A k \in 1..Len(seqs) : h[k] = IF k = 1 THEN seqs[k] ELSE h[k - 1] \o seqs[k]
  <1> DEFINE n == Len(seqs)
             Fits(g, m) == /\ g \in [1..m -> Seq(E)]
                           /\ \A k \in 1..m : g[k] = IF k = 1 THEN seqs[k] ELSE g[k - 1] \o seqs[k]
             IsIt(g) == g = [k \in 1..n |-> IF k = 1 THEN seqs[k] ELSE g[k - 1] \o seqs[k]]
             it == CHOOSE g : IsIt(g)
             N == {m \in Nat : m <= n => \E g : Fits(g, m)}
  <1>1. n \in Nat /\ n # 0 /\ \A k \in 1..n : seqs[k] \in Seq(E)
    OBVIOUS
  <1>2. FlattenSeq(seqs) = it[n]
    BY <1>1 DEF FlattenSeq
  <1> HIDE DEF n, it
  <1>3. 0 \in N
    <2> DEFINE g == [k \in 1..0 |-> <<>>]
    <2>1. Fits(g, 0)
      OBVIOUS
    <2>2. 0 \in Nat
      OBVIOUS
    <2> HIDE DEF g, Fits
    <2> QED
      BY <2>1, <2>2
  <1>4. ASSUME NEW m \in Nat, m \in N PROVE m + 1 \in N
    <2> SUFFICES ASSUME m + 1 <= n PROVE \E g : Fits(g, m + 1)
      <3> HIDE DEF Fits
      <3> QED
        OBVIOUS
    <2>1. PICK g : Fits(g, m)
      <3> HIDE DEF Fits
      <3>1. m <= n
        BY <1>1
      <3> QED
        BY <1>4, <3>1
    <2> DEFINE w == IF m = 0 THEN seqs[m + 1] ELSE g[m] \o seqs[m + 1]
               h == [k \in 1..(m + 1) |-> IF k = m + 1 THEN w ELSE g[k]]
    <2>2. w \in Seq(E)
      <3>1. seqs[m + 1] \in Seq(E)
        BY <1>1
      <3>2. m # 0 => g[m] \in Seq(E)
        BY <2>1
      <3> QED
        BY <3>1, <3>2
    <2>3. h \in [1..(m + 1) -> Seq(E)]
      BY <2>1, <2>2
    <2>4. ASSUME NEW k \in 1..(m + 1)
          PROVE  h[k] = IF k = 1 THEN seqs[k] ELSE h[k - 1] \o seqs[k]
      <3>1. CASE k = m + 1
        <4>1. m # 0 => h[k - 1] = g[m]
          BY <3>1
        <4> QED
          BY <3>1, <4>1
      <3>2. CASE k # m + 1
        <4>1. k \in 1..m /\ h[k] = g[k] /\ (k # 1 => h[k - 1] = g[k - 1])
          BY <3>2
        <4> QED
          BY <2>1, <4>1
      <3> QED
        BY <3>1, <3>2
    <2> HIDE DEF h
    <2>5. Fits(h, m + 1)
      BY <2>3, <2>4
    <2> HIDE DEF Fits
    <2> QED
      BY <2>5
  <1>5. n \in N
    <2> HIDE DEF N
    <2> QED
      BY <1>1, <1>3, <1>4, Counting
  <1>6. PICK g : Fits(g, n)
    <2> HIDE DEF Fits
    <2>1. n <= n
      BY <1>1
    <2> QED
      BY <1>5, <2>1
  <1>7. IsIt(g)
    BY <1>6
  <1>8. IsIt(it)
    <2> HIDE DEF IsIt
    <2> QED
      BY <1>7 DEF it
  <1>9. DOMAIN it = 1..n /\ \A k \in 1..n : it[k] = IF k = 1 THEN seqs[k] ELSE it[k - 1] \o seqs[k]
    BY <1>8
  <1> DEFINE M == {m \in Nat : m \in 1..n => it[m] \in Seq(E)}
  <1> HIDE DEF IsIt, Fits, N
  <1>10. 0 \in M
    OBVIOUS
  <1>11. ASSUME NEW m \in Nat, m \in M PROVE m + 1 \in M
    <2> SUFFICES ASSUME m + 1 \in 1..n PROVE it[m + 1] \in Seq(E)
      OBVIOUS
    <2>1. (m + 1) - 1 = m /\ (m # 0 => m \in 1..n) /\ (m + 1 = 1 <=> m = 0)
      BY <1>1
    <2>2. m # 0 => it[m] \in Seq(E)
      BY <1>11, <2>1
    <2>3. seqs[m + 1] \in Seq(E) /\ it[m + 1] = IF m = 0 THEN seqs[m + 1] ELSE it[m] \o seqs[m + 1]
      BY <1>1, <1>9, <2>1
    <2> QED
      BY <2>2, <2>3
  <1>12. \A m \in Nat : m \in M
    <2> HIDE DEF M
    <2> QED
      BY <1>10, <1>11, Counting
  <1>13. \A k \in 1..n : it[k] \in Seq(E)
    BY <1>1, <1>12
  <1>14. it \in [1..n -> Seq(E)]
    BY <1>8, <1>9, <1>13 DEF IsIt
  <1> QED
    BY <1>2, <1>9, <1>14 DEF n

LEMMA ToSetJoined ==
  ASSUME NEW E, NEW p \in Seq(E), NEW q \in Seq(E)
  PROVE  ToSet(p \o q) = ToSet(p) \cup ToSet(q)
  <1>1. /\ DOMAIN p = 1..Len(p) /\ DOMAIN q = 1..Len(q) /\ Len(p) \in Nat /\ Len(q) \in Nat
        /\ DOMAIN (p \o q) = 1..(Len(p) + Len(q))
        /\ \A k \in 1..(Len(p) + Len(q)) :
             (p \o q)[k] = IF k <= Len(p) THEN p[k] ELSE q[k - Len(p)]
    OBVIOUS
  <1>2. ASSUME NEW k \in 1..Len(q) PROVE q[k] \in ToSet(p \o q)
    <2>1. /\ k + Len(p) \in 1..(Len(p) + Len(q)) /\ ~ (k + Len(p) <= Len(p))
          /\ (k + Len(p)) - Len(p) = k
      BY <1>1
    <2>2. (p \o q)[k + Len(p)] = q[k]
      BY <1>1, <2>1
    <2> QED
      BY <1>1, <2>1, <2>2 DEF ToSet
  <1>3. ASSUME NEW k \in 1..Len(p) PROVE p[k] \in ToSet(p \o q)
    <2>1. k \in 1..(Len(p) + Len(q)) /\ (p \o q)[k] = p[k]
      BY <1>1
    <2> QED
      BY <1>1, <2>1 DEF ToSet
  <1>4. ASSUME NEW k \in 1..(Len(p) + Len(q)) PROVE (p \o q)[k] \in ToSet(p) \cup ToSet(q)
    <2>1. CASE k <= Len(p)
      BY <1>1, <2>1 DEF ToSet
    <2>2. CASE ~ (k <= Len(p))
      <3>1. k - Len(p) \in 1..Len(q) /\ (p \o q)[k] = q[k - Len(p)]
        BY <1>1, <2>2
      <3> QED
        BY <1>1, <3>1 DEF ToSet
    <2> QED
      BY <2>1, <2>2
  <1> QED
    BY <1>1, <1>2, <1>3, <1>4 DEF ToSet

\* The lists of E, one after the other, are a list of E, with the elements of each.
LEMMA Flattened ==
  ASSUME NEW E, NEW seqs \in Seq(Seq(E))
  PROVE  /\ FlattenSeq(seqs) \in Seq(E)
         /\ ToSet(FlattenSeq(seqs)) = UNION {ToSet(seqs[k]) : k \in DOMAIN seqs}
  <1>1. CASE seqs = <<>>
    <2>1. FlattenSeq(seqs) = <<>>
      BY <1>1 DEF FlattenSeq
    <2>2. ToSet(<<>>) = {} /\ DOMAIN seqs = {}
      BY <1>1 DEF ToSet
    <2> QED
      BY <2>1, <2>2
  <1>2. CASE seqs # <<>>
    <2> DEFINE n == Len(seqs)
    <2>1. n \in Nat /\ n # 0 /\ DOMAIN seqs = 1..n /\ \A k \in 1..n : seqs[k] \in Seq(E)
      BY <1>2
    <2>2. PICK h \in [1..n -> Seq(E)] :
            /\ FlattenSeq(seqs) = h[n]
            /\ \A k \in 1..n : h[k] = IF k = 1 THEN seqs[k] ELSE h[k - 1] \o seqs[k]
      BY <1>2, Flattening
    <2> HIDE DEF n
    <2> DEFINE In(e, m) == \E k \in 1..m : e \in ToSet(seqs[k])
    <2> DEFINE M == {m \in Nat : m \in 1..n => \A e : e \in ToSet(h[m]) <=> In(e, m)}
    <2>3. 0 \in M
      OBVIOUS
    <2>4. ASSUME NEW m \in Nat, m \in M PROVE m + 1 \in M
      <3> SUFFICES ASSUME m + 1 \in 1..n PROVE \A e : e \in ToSet(h[m + 1]) <=> In(e, m + 1)
        OBVIOUS
      <3>1. /\ (m + 1) - 1 = m /\ (m # 0 => m \in 1..n) /\ (m + 1 = 1 <=> m = 0)
            /\ 1..(m + 1) = (1..m) \cup {m + 1}
        BY <2>1
      <3>2. \A e : In(e, m + 1) <=> (In(e, m) \/ e \in ToSet(seqs[m + 1]))
        BY <3>1
      <3>3. CASE m = 0
        <4>1. h[m + 1] = seqs[m + 1]
          BY <2>2, <3>1, <3>3
        <4>2. \A e : ~In(e, m)
          BY <3>3
        <4> HIDE DEF In
        <4> QED
          BY <3>2, <4>1, <4>2
      <3>4. CASE m # 0
        <4>1. h[m + 1] = h[m] \o seqs[m + 1] /\ h[m] \in Seq(E) /\ seqs[m + 1] \in Seq(E)
          BY <2>1, <2>2, <3>1, <3>4
        <4>2. ToSet(h[m + 1]) = ToSet(h[m]) \cup ToSet(seqs[m + 1])
          BY <4>1, ToSetJoined
        <4>3. \A e : e \in ToSet(h[m]) <=> In(e, m)
          BY <2>4, <3>1, <3>4
        <4> HIDE DEF In
        <4> QED
          BY <3>2, <4>2, <4>3
      <3> QED
        BY <3>3, <3>4
    <2>5. n \in M
      <3> HIDE DEF M
      <3> QED
        BY <2>1, <2>3, <2>4, Counting
    <2>6. \A e : e \in ToSet(FlattenSeq(seqs)) <=> \E k \in DOMAIN seqs : e \in ToSet(seqs[k])
      <3>1. n \in 1..n
        BY <2>1
      <3>2. \A e : e \in ToSet(h[n]) <=> In(e, n)
        BY <2>5, <3>1
      <3> QED
        BY <2>1, <2>2, <3>2
    <2> QED
      BY <2>1, <2>2, <2>6
  <1> QED
    BY <1>1, <1>2
=============================================================================
