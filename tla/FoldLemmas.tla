----------------------------- MODULE FoldLemmas -----------------------------
(***************************************************************************)
(* What FoldLeft computes over a sequence of any length, in a form the     *)
(* provers can use: the fold is the last of a series of results, one for   *)
(* each prefix of the sequence.  Induction is stated of a set instead of a *)
(* predicate, so that no theorem takes an operator for a parameter.        *)
(*                                                                         *)
(* FoldLeft is defined by a function on sets of positions that CHOOSE      *)
(* picks: FoldExists shows that there is such a function, FoldRounds reads *)
(* the series of results off it.                                           *)
(***************************************************************************)
EXTENDS Integers, Sequences, SequencesExt, TLAPS, FiniteSetTheorems

(* A set of numbers that is not empty has a least one.                      *)
LEMMA LeastNat ==
  ASSUME NEW T \in SUBSET Nat, T # {}
  PROVE  \E n \in T : \A m \in T : n <= m
<1> DEFINE Below == {1 .. n : n \in T}
<1>1. Below \subseteq FiniteSubsetsOf(Nat)
  <2>1. ASSUME NEW n \in T PROVE IsFiniteSet(1 .. n) /\ 1 .. n \subseteq Nat
    BY FS_Interval
  <2> QED BY <2>1 DEF FiniteSubsetsOf
<1>2. Below # {}
  OBVIOUS
<1>3. PICK b \in Below : \A c \in Below : <<c, b>> \notin StrictSubsetOrdering(Nat)
  <2> HIDE DEF Below
  <2> QED BY <1>1, <1>2, FS_StrictSubsetOrderingWellFounded, WFMin, Zenon
<1>4. PICK n \in T : b = 1 .. n
  OBVIOUS
<1>5. ASSUME NEW m \in T, m < n PROVE FALSE
  <2> DEFINE c == 1 .. m
  <2>1. c \in Below /\ c \subseteq b /\ n \in b /\ n \notin c
    BY <1>4, <1>5
  <2>2. c \in SUBSET Nat /\ b \in SUBSET Nat
    BY <1>4
  <2>3. <<c, b>> \notin StrictSubsetOrdering(Nat)
    BY <1>3, <2>1
  <2> HIDE DEF c
  <2> QED BY <2>1, <2>2, <2>3 DEF StrictSubsetOrdering
<1> QED BY <1>5

(* Induction up to n, of the set of numbers a property holds of.            *)
LEMMA SetInduction ==
  ASSUME NEW n \in Nat, NEW T, 0 \in T,
         \A i \in 0 .. n - 1 : i \in T => i + 1 \in T
  PROVE  0 .. n \subseteq T
<1> DEFINE M == {i \in 0 .. n : i \notin T}
<1> SUFFICES ASSUME M # {} PROVE FALSE
  OBVIOUS
<1>0. M \in SUBSET Nat
  OBVIOUS
<1>1. PICK m \in M : \A k \in M : m <= k
  <2> HIDE DEF M
  <2> QED BY <1>0, LeastNat
<1>2. m - 1 \in 0 .. n - 1 /\ m - 1 \notin M
  BY <1>1
<1> QED BY <1>1, <1>2

(* The greatest member of a set of positions.                               *)
LEMMA MaxOf ==
  ASSUME NEW n \in Nat, NEW s \in SUBSET (1 .. n), s # {}
  PROVE  /\ Max(s) \in s
         /\ n \in s => Max(s) = n
<1>1. \E x \in s : \A y \in s : x >= y
  <2> DEFINE T == {n - x : x \in s}
  <2>1. \A x \in s : x \in 1 .. n /\ n - x \in Nat
    OBVIOUS
  <2>2. T \in SUBSET Nat /\ T # {}
    BY <2>1, Zenon
  <2>3. PICK m \in T : \A k \in T : m <= k
    <3> HIDE DEF T
    <3> QED BY <2>2, LeastNat
  <2>4. PICK x \in s : m = n - x
    OBVIOUS
  <2>5. \A y \in s : n - x <= n - y
    BY <2>3, <2>4
  <2>6. \A y \in s : x >= y
    BY <2>1, <2>5
  <2> QED BY <2>6
<1>2. Max(s) \in s /\ \A y \in s : Max(s) >= y
  BY <1>1 DEF Max
<1>3. ASSUME n \in s PROVE Max(s) = n
  <2> DEFINE m == Max(s)
  <2>1. m \in 1 .. n /\ m >= n
    BY <1>2, <1>3
  <2> HIDE DEF m
  <2>2. m = n
    BY <2>1
  <2> QED BY <2>2 DEF m
<1> QED BY <1>2, <1>3

(* g folds the elements of ss at sets of positions up to k, the lowest first;
   F[<<v, c>>] is the step from v with the element c.                       *)
FoldFcn(g, k, ss, b, F) ==
  g = [s \in SUBSET (1 .. k) |->
         IF s = {} THEN b ELSE F[<<g[s \ {Max(s)}], ss[Max(s)]>>]]

(* There is a fold with every step function.                                *)
LEMMA FoldExists ==
  ASSUME NEW C, NEW S, NEW ss \in Seq(C), NEW b \in S, NEW F \in [S \X C -> S]
  PROVE  \E g \in [SUBSET (1 .. Len(ss)) -> S] : FoldFcn(g, Len(ss), ss, b, F)
<1> DEFINE n == Len(ss)
           T == {k \in 0 .. n : \E g \in [SUBSET (1 .. k) -> S] : FoldFcn(g, k, ss, b, F)}
<1>0. n \in Nat /\ \A i \in 1 .. n : ss[i] \in C
  OBVIOUS
<1>1. 0 \in T
  <2> DEFINE g == [s \in SUBSET (1 .. 0) |-> b]
  <2>1. SUBSET (1 .. 0) = {{}}
    OBVIOUS
  <2>2. g \in [SUBSET (1 .. 0) -> S] /\ FoldFcn(g, 0, ss, b, F)
    BY <2>1 DEF FoldFcn
  <2> QED BY <1>0, <2>2
<1>2. ASSUME NEW k \in 0 .. n - 1, k \in T PROVE k + 1 \in T
  <2>1. PICK g \in [SUBSET (1 .. k) -> S] : FoldFcn(g, k, ss, b, F)
    BY <1>2
  <2> DEFINE next == [s \in SUBSET (1 .. k + 1) |->
                        IF k + 1 \in s THEN F[<<g[s \ {k + 1}], ss[k + 1]>>] ELSE g[s]]
  <2>0. k \in Nat /\ k + 1 \in 1 .. n /\ k + 1 \in 0 .. n /\ ss[k + 1] \in C
    BY <1>0
  <2>2. \A s \in SUBSET (1 .. k + 1) : /\ k + 1 \in s => s \ {k + 1} \in SUBSET (1 .. k)
                                      /\ k + 1 \notin s => s \in SUBSET (1 .. k)
    BY <2>0
  <2>3. next \in [SUBSET (1 .. k + 1) -> S]
    BY <2>0, <2>2
  <2>4. ASSUME NEW s \in SUBSET (1 .. k + 1)
        PROVE  next[s] = IF s = {} THEN b ELSE F[<<next[s \ {Max(s)}], ss[Max(s)]>>]
    <3>1. CASE k + 1 \in s
      <4>1. Max(s) = k + 1
        BY <2>0, <3>1, MaxOf
      <4>2. next[s \ {k + 1}] = g[s \ {k + 1}]
        BY <3>1, <2>2
      <4> QED BY <3>1, <4>1, <4>2
    <3>2. CASE k + 1 \notin s
      <4>1. next[s] = g[s] /\ next[s \ {Max(s)}] = g[s \ {Max(s)}]
        BY <3>2, <2>2
      <4>2. g[s] = IF s = {} THEN b ELSE F[<<g[s \ {Max(s)}], ss[Max(s)]>>]
        BY <2>1, <2>2, <3>2 DEF FoldFcn
      <4> QED BY <4>1, <4>2
    <3> QED BY <3>1, <3>2
  <2>5. FoldFcn(next, k + 1, ss, b, F)
    BY <2>4 DEF FoldFcn
  <2> HIDE DEF next
  <2> QED BY <2>0, <2>3, <2>5
<1>3. 0 .. n \subseteq T
  <2> HIDE DEF T
  <2> QED BY <1>0, <1>1, <1>2, SetInduction
<1>4. n \in T
  <2>1. n \in 0 .. n
    BY <1>0
  <2> HIDE DEF T
  <2> QED BY <1>3, <2>1
<1> QED BY <1>4

(* The prefixes 1 .. i of 1 .. n: each is the one before it and its greatest. *)
LEMMA PrefixMax ==
  ASSUME NEW n \in Nat, NEW i \in 1 .. n
  PROVE  /\ 1 .. i \in SUBSET (1 .. n) /\ 1 .. i # {}
         /\ Max(1 .. i) = i /\ (1 .. i) \ {i} = 1 .. i - 1
<1>1. i \in Nat /\ i \in 1 .. i /\ (1 .. i) \in SUBSET (1 .. n)
  OBVIOUS
<1>2. Max(1 .. i) = i
  <2> DEFINE s == 1 .. i
  <2>1. s \in SUBSET (1 .. i) /\ s # {} /\ i \in s
    BY <1>1
  <2> HIDE DEF s
  <2>2. Max(s) = i
    BY <1>1, <2>1, MaxOf
  <2> QED BY <2>2 DEF s
<1>3. (1 .. i) \ {i} = 1 .. i - 1
  OBVIOUS
<1> QED BY <1>1, <1>2, <1>3

(* f is known to fold ss as far as its values are in S.                     *)
Folds(f, ss, C, S, b, F) ==
  /\ ss \in Seq(C) /\ b \in S /\ F \in [S \X C -> S]
  /\ f[{}] = b
  /\ \A s \in SUBSET (1 .. Len(ss)) :
        s # {} /\ f[s \ {Max(s)}] \in S => f[s] = F[<<f[s \ {Max(s)}], ss[Max(s)]>>]

(* The results of a fold after 0, 1, ... elements.                          *)
Rounds(h, ss, b, F) ==
  h[0] = b /\ \A i \in 1 .. Len(ss) : h[i] = F[<<h[i - 1], ss[i]>>]

(* Each result is the step from the one before it; the fold is the last.    *)
LEMMA FoldRounds ==
  ASSUME NEW f, NEW ss, NEW C, NEW S, NEW b, NEW F, Folds(f, ss, C, S, b, F)
  PROVE  \E h \in [0 .. Len(ss) -> S] : Rounds(h, ss, b, F) /\ h[Len(ss)] = f[1 .. Len(ss)]
<1> DEFINE n == Len(ss)
<1>0. /\ n \in Nat /\ b \in S /\ F \in [S \X C -> S]
      /\ \A i \in 1 .. n : ss[i] \in C
  BY DEF Folds
<1>1. ASSUME NEW i \in 1 .. n, f[1 .. i - 1] \in S
      PROVE  f[1 .. i] = F[<<f[1 .. i - 1], ss[i]>>] /\ f[1 .. i] \in S
  <2>1. f[1 .. i] = F[<<f[1 .. i - 1], ss[i]>>]
    BY <1>0, <1>1, PrefixMax DEF Folds
  <2> QED BY <1>0, <1>1, <2>1
<1> DEFINE T == {i \in 0 .. n : f[1 .. i] \in S}
<1>2. 0 \in T
  <2>1. 1 .. 0 = {} /\ 0 \in 0 .. n
    BY <1>0
  <2> QED BY <2>1, <1>0 DEF Folds
<1>3. ASSUME NEW i \in 0 .. n - 1, i \in T PROVE i + 1 \in T
  <2>1. i + 1 \in 1 .. n /\ (i + 1) - 1 = i /\ i + 1 \in 0 .. n
    BY <1>0
  <2> QED BY <2>1, <1>1, <1>3
<1>4. 0 .. n \subseteq T
  <2> HIDE DEF T
  <2> QED BY <1>0, <1>2, <1>3, SetInduction
<1> DEFINE h == [i \in 0 .. n |-> f[1 .. i]]
<1>5. h \in [0 .. n -> S]
  BY <1>4
<1>6. h[0] = b /\ h[n] = f[1 .. n]
  <2>1. 1 .. 0 = {} /\ 0 \in 0 .. n /\ n \in 0 .. n
    BY <1>0
  <2> QED BY <2>1 DEF Folds
<1>7. ASSUME NEW i \in 1 .. n PROVE h[i] = F[<<h[i - 1], ss[i]>>]
  <2>1. i \in 0 .. n /\ i - 1 \in 0 .. n
    BY <1>0
  <2>2. f[1 .. i - 1] \in S
    BY <2>1, <1>4
  <2> QED BY <2>1, <2>2, <1>1
<1> HIDE DEF h
<1> QED BY <1>5, <1>6, <1>7 DEF Rounds

(* One element more is one step more.                                       *)
LEMMA RoundsAppend ==
  ASSUME NEW C, NEW ss \in Seq(C), NEW c \in C, NEW b, NEW F, NEW g, NEW h,
         Rounds(g, ss, b, F), Rounds(h, Append(ss, c), b, F)
  PROVE  h[Len(ss) + 1] = F[<<g[Len(ss)], c>>]
<1> DEFINE n == Len(ss)
           T == {i \in 0 .. n : h[i] = g[i]}
<1>0. /\ n \in Nat /\ Len(Append(ss, c)) = n + 1 /\ Append(ss, c)[n + 1] = c
      /\ \A i \in 1 .. n : Append(ss, c)[i] = ss[i]
  OBVIOUS
<1>1. 0 \in T
  BY <1>0 DEF Rounds
<1>2. ASSUME NEW i \in 0 .. n - 1, i \in T PROVE i + 1 \in T
  <2>1. i + 1 \in 1 .. n /\ i + 1 \in 1 .. n + 1 /\ (i + 1) - 1 = i /\ i + 1 \in 0 .. n
    BY <1>0
  <2>2. h[i + 1] = F[<<h[i], ss[i + 1]>>] /\ g[i + 1] = F[<<g[i], ss[i + 1]>>]
    BY <1>0, <2>1 DEF Rounds
  <2> QED BY <1>2, <2>1, <2>2
<1>3. 0 .. n \subseteq T
  <2> HIDE DEF T
  <2> QED BY <1>0, <1>1, <1>2, SetInduction
<1>4. h[n] = g[n]
  BY <1>0, <1>3
<1>5. n + 1 \in 1 .. n + 1 /\ (n + 1) - 1 = n
  BY <1>0
<1> QED BY <1>0, <1>4, <1>5 DEF Rounds
=============================================================================
