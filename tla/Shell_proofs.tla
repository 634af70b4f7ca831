---------------------------- MODULE Shell_proofs ----------------------------
(***************************************************************************)
(* Proofs about Shell, for every keyboard, set of commands and buffer      *)
(* size: first that the splitting makes of every line what ArgsOf says,    *)
(* then what the shell runs and keeps.                                     *)
(***************************************************************************)
EXTENDS Shell, CmdList_proofs, FoldLemmas

(***************************************************************************)
(* Argument k runs from the k-th start to the end of its run, or, if it is *)
(* the last that fits, to the end of the line.  The loop is followed       *)
(* through the states it has after each character.                         *)
(***************************************************************************)

(* The states of the loop: inside an argument, there is one.                *)
ArgStates(C) == {st \in [in : BOOLEAN, argv : Seq(Seq(C))] : st.in => st.argv # <<>>}
NoArgs == [in |-> FALSE, argv |-> <<>>]

(* A character takes a state of the loop to a state of the loop.            *)
LEMMA AppendCharStates ==
  ASSUME NEW C, NEW size \in Nat \ {0}, NEW st \in ArgStates(C), NEW c \in C
  PROVE  AppendChar(size, st, c) \in ArgStates(C)
<1> DEFINE n == Len(st.argv)
<1>1. /\ st.in \in BOOLEAN /\ st.argv \in Seq(Seq(C)) /\ n \in Nat
      /\ st = [in |-> st.in, argv |-> st.argv] /\ (st.in => n > 0)
  BY DEF ArgStates
<1>2. CASE n = size \/ (st.in /\ c \in TokenChars)
  <2> DEFINE a == [st.argv EXCEPT ![n] = Append(@, c)]
  <2>1. n \in 1 .. Len(st.argv) /\ st.argv[n] \in Seq(C)
    BY <1>1, <1>2
  <2>2. Append(st.argv[n], c) \in Seq(C)
    BY <2>1
  <2>3. a \in Seq(Seq(C)) /\ Len(a) = n
    BY <1>1, <2>1, <2>2
  <2>4. AppendChar(size, st, c) = [in |-> st.in, argv |-> a]
    BY <1>1, <1>2 DEF AppendChar
  <2>5. st.in => a # <<>>
    BY <1>1, <2>3
  <2> HIDE DEF a, n
  <2> QED BY <1>1, <2>3, <2>4, <2>5 DEF ArgStates
<1>3. CASE ~ (n = size \/ (st.in /\ c \in TokenChars)) /\ c \in TokenChars
  <2>1. Append(st.argv, <<c>>) \in Seq(Seq(C)) /\ Append(st.argv, <<c>>) # <<>>
    BY <1>1
  <2>2. AppendChar(size, st, c) = [in |-> TRUE, argv |-> Append(st.argv, <<c>>)]
    BY <1>3 DEF AppendChar
  <2> QED BY <2>1, <2>2 DEF ArgStates
<1>4. CASE ~ (n = size \/ (st.in /\ c \in TokenChars)) /\ c \notin TokenChars
  <2>1. AppendChar(size, st, c) = [in |-> FALSE, argv |-> st.argv]
    BY <1>1, <1>4 DEF AppendChar
  <2> QED BY <1>1, <2>1 DEF ArgStates
<1> QED BY <1>2, <1>3, <1>4

(* The states of the loop, one after the other.                             *)
ArgRounds(h, l, size) ==
  h[0] = NoArgs /\ \A i \in 1 .. Len(l) : h[i] = AppendChar(size, h[i - 1], l[i])

(* What the loop leaves is its last state.                                  *)
LEMMA ArgsFold ==
  ASSUME NEW C, NEW l \in Seq(C), NEW size \in Nat \ {0}
  PROVE  \E h \in [0 .. Len(l) -> ArgStates(C)] :
            ArgRounds(h, l, size) /\ Args(l, size) = h[Len(l)].argv
<1> DEFINE D == 1 .. Len(l)
           S == ArgStates(C)
           F == [p \in S \X C |-> AppendChar(size, p[1], p[2])]
           Eq(g) == g = [s \in SUBSET D |-> IF s = {} THEN NoArgs
                                            ELSE AppendChar(size, g[s \ {Max(s)}], l[Max(s)])]
           f == CHOOSE g : Eq(g)
<1>1. Len(l) \in Nat /\ DOMAIN l = D /\ (\A i \in D : l[i] \in C)
  OBVIOUS
<1>2. Args(l, size) = f[D].argv
  BY <1>1 DEF Args, FoldLeft, MapThenFoldSet, NoArgs
<1>3. F \in [S \X C -> S] /\ NoArgs \in S
  <2>1. NoArgs \in S
    BY DEF NoArgs, ArgStates
  <2> HIDE DEF S
  <2> QED BY <2>1, AppendCharStates DEF S
<1>4. \A s \in SUBSET D : s # {} => Max(s) \in D
  BY <1>1, MaxOf
<1>5. PICK g \in [SUBSET D -> S] : FoldFcn(g, Len(l), l, NoArgs, F)
  <2> HIDE DEF F, S
  <2> QED BY <1>3, FoldExists
<1>6. Eq(g)
  <2>1. ASSUME NEW s \in SUBSET D, s # {}
        PROVE  F[<<g[s \ {Max(s)}], l[Max(s)]>>] = AppendChar(size, g[s \ {Max(s)}], l[Max(s)])
    <3>1. l[Max(s)] \in C /\ g[s \ {Max(s)}] \in S
      BY <1>1, <1>4, <2>1
    <3> QED BY <3>1
  <2> HIDE DEF F, S
  <2> QED BY <1>5, <2>1 DEF FoldFcn
<1>7. Eq(f)
  <2> HIDE DEF Eq
  <2> QED BY <1>6
<1>8. Folds(f, l, C, S, NoArgs, F)
  <2>1. ASSUME NEW s \in SUBSET D, s # {}, f[s \ {Max(s)}] \in S
        PROVE  f[s] = F[<<f[s \ {Max(s)}], l[Max(s)]>>]
    <3>1. l[Max(s)] \in C
      BY <1>1, <1>4, <2>1
    <3>2. f[s] = AppendChar(size, f[s \ {Max(s)}], l[Max(s)])
      <4> HIDE DEF f, S
      <4> QED BY <1>7, <2>1
    <3> HIDE DEF f, S
    <3> QED BY <2>1, <3>1, <3>2
  <2>2. f[{}] = NoArgs
    <3> HIDE DEF f, S
    <3> QED BY <1>7
  <2> HIDE DEF f, F, S
  <2> QED BY <1>3, <2>1, <2>2 DEF Folds
<1>9. PICK h \in [0 .. Len(l) -> S] : Rounds(h, l, NoArgs, F) /\ h[Len(l)] = f[D]
  <2> HIDE DEF f, F, S
  <2> QED BY <1>8, FoldRounds
<1>10. ASSUME NEW i \in 1 .. Len(l) PROVE h[i] = AppendChar(size, h[i - 1], l[i])
  <2>1. i - 1 \in 0 .. Len(l)
    BY <1>1
  <2>2. h[i - 1] \in S /\ l[i] \in C
    BY <1>1, <1>9, <2>1
  <2> HIDE DEF S
  <2> QED BY <1>9, <2>2 DEF Rounds
<1> HIDE DEF f, F, S
<1> QED BY <1>2, <1>9, <1>10 DEF S, ArgRounds, Rounds

(* The starts among the first i characters.                                 *)
StartsUpTo(l, i) == {j \in Starts(l) : j <= i}

(* The starts up to a character, and one more if the next one is a start.   *)
LEMMA StartsCount ==
  ASSUME NEW C, NEW l \in Seq(C), NEW i \in 0 .. Len(l)
  PROVE  /\ IsFiniteSet(StartsUpTo(l, i)) /\ Cardinality(StartsUpTo(l, i)) \in Nat
         /\ i < Len(l) =>
              /\ StartsBefore(l, i + 1) = StartsUpTo(l, i)
              /\ Cardinality(StartsUpTo(l, i + 1)) =
                   IF i + 1 \in Starts(l) THEN Cardinality(StartsUpTo(l, i)) + 1
                                          ELSE Cardinality(StartsUpTo(l, i))
<1>0. Len(l) \in Nat /\ Starts(l) \subseteq 1 .. Len(l)
  BY DEF Starts
<1>1. IsFiniteSet(Starts(l))
  <2>1. IsFiniteSet(1 .. Len(l)) /\ Starts(l) \in SUBSET (1 .. Len(l))
    BY <1>0, FS_Interval
  <2> QED BY <2>1, FS_Subset, Zenon
<1>2. IsFiniteSet(StartsUpTo(l, i)) /\ Cardinality(StartsUpTo(l, i)) \in Nat
  <2>1. StartsUpTo(l, i) \in SUBSET Starts(l)
    BY DEF StartsUpTo
  <2> QED BY <1>1, <2>1, FS_Subset, FS_CardinalityType
<1>3. ASSUME i < Len(l) PROVE StartsBefore(l, i + 1) = StartsUpTo(l, i)
  BY <1>0 DEF StartsBefore, StartsUpTo
<1>4. CASE i + 1 \in Starts(l)
  <2>1. StartsUpTo(l, i + 1) = StartsUpTo(l, i) \cup {i + 1} /\ i + 1 \notin StartsUpTo(l, i)
    BY <1>0, <1>4 DEF StartsUpTo
  <2> QED BY <1>2, <1>3, <1>4, <2>1, FS_AddElement
<1>5. CASE i + 1 \notin Starts(l)
  <2>1. StartsUpTo(l, i + 1) = StartsUpTo(l, i)
    BY <1>0, <1>5 DEF StartsUpTo
  <2> QED BY <1>2, <1>3, <1>5, <2>1
<1> QED BY <1>4, <1>5

(* Argument k of a state after i characters: it starts at the k-th start p
   and goes up to e, where it ended unless it can still grow.               *)
Grows(size, st, k) == k = Len(st.argv) /\ (k = size \/ st.in)
ArgAt(l, size, i, st, k, p, e) ==
  /\ p \in Starts(l) /\ Cardinality(StartsBefore(l, p)) = k - 1
  /\ p <= e /\ e <= i /\ st.argv[k] = SubSeq(l, p, e)
  /\ k < size => \A j \in p .. e : l[j] \in TokenChars
  /\ IF Grows(size, st, k) THEN e = i ELSE e < i /\ l[e + 1] \notin TokenChars

(* The arguments after i characters.                                        *)
ArgsUpTo(l, size, i, st) ==
  LET firsts == Cardinality(StartsUpTo(l, i))
  IN  /\ Len(st.argv) = IF firsts < size THEN firsts ELSE size
      /\ Len(st.argv) < size => (st.in <=> i > 0 /\ l[i] \in TokenChars)
      /\ \A k \in 1 .. Len(st.argv) : \E p, e \in 1 .. i : ArgAt(l, size, i, st, k, p, e)

(* A part of the line, one character longer.                                *)
LEMMA SubSeqGrows ==
  ASSUME NEW C, NEW l \in Seq(C), NEW i \in 0 .. Len(l) - 1, NEW p \in 1 .. i
  PROVE  SubSeq(l, p, i + 1) = Append(SubSeq(l, p, i), l[i + 1])
<1>0. Len(l) \in Nat /\ i \in Nat /\ i + 1 \in 1 .. Len(l)
  OBVIOUS
<1>1. SubSeq(l, p, i + 1) = [k \in 1 .. i + 1 - p + 1 |-> l[p + k - 1]]
  BY <1>0
<1>2. SubSeq(l, p, i) = [k \in 1 .. i - p + 1 |-> l[p + k - 1]]
  BY <1>0
<1> QED BY <1>0, <1>1, <1>2

(* The next character goes to the last argument: inside it, or because no
   other fits.                                                              *)
LEMMA GrowLast ==
  ASSUME NEW C, NEW l \in Seq(C), NEW size \in Nat \ {0}, NEW i \in 0 .. Len(l) - 1,
         NEW st \in ArgStates(C), ArgsUpTo(l, size, i, st),
         Len(st.argv) = size \/ (st.in /\ l[i + 1] \in TokenChars)
  PROVE  ArgsUpTo(l, size, i + 1, AppendChar(size, st, l[i + 1]))
<1> DEFINE n == Len(st.argv)
           c == l[i + 1]
           new == AppendChar(size, st, c)
           a == [st.argv EXCEPT ![n] = Append(@, c)]
<1>1. /\ st.in \in BOOLEAN /\ st.argv \in Seq(Seq(C)) /\ n \in Nat
      /\ st = [in |-> st.in, argv |-> st.argv] /\ n > 0 /\ n <= size
      /\ Len(l) \in Nat /\ i \in Nat /\ i + 1 \in 1 .. Len(l) /\ c \in C
  <2>1. n > 0 /\ n <= size
    BY DEF ArgStates, ArgsUpTo
  <2> QED BY <2>1 DEF ArgStates
<1>2. new = [in |-> st.in, argv |-> a]
  BY <1>1 DEF AppendChar
<1>3. Len(a) = n /\ a[n] = Append(st.argv[n], c) /\ \A k \in 1 .. n : k # n => a[k] = st.argv[k]
  BY <1>1
<1>4. /\ n = IF Cardinality(StartsUpTo(l, i)) < size THEN Cardinality(StartsUpTo(l, i)) ELSE size
      /\ n < size => (st.in <=> i > 0 /\ l[i] \in TokenChars)
      /\ \A k \in 1 .. n : \E p, e \in 1 .. i : ArgAt(l, size, i, st, k, p, e)
  BY DEF ArgsUpTo
<1>5. n < size => st.in /\ c \in TokenChars /\ i > 0 /\ l[i] \in TokenChars
  BY <1>1, <1>4
<1>6. n = IF Cardinality(StartsUpTo(l, i + 1)) < size
            THEN Cardinality(StartsUpTo(l, i + 1)) ELSE size
  <2>1. n < size => i + 1 \notin Starts(l)
    BY <1>1, <1>5 DEF Starts
  <2>0. i \in 0 .. Len(l) /\ i < Len(l)
    BY <1>1
  <2>2. /\ Cardinality(StartsUpTo(l, i)) \in Nat
        /\ Cardinality(StartsUpTo(l, i + 1)) = IF i + 1 \in Starts(l)
             THEN Cardinality(StartsUpTo(l, i)) + 1 ELSE Cardinality(StartsUpTo(l, i))
    BY <2>0, StartsCount
  <2> HIDE DEF n
  <2> QED BY <1>4, <2>1, <2>2
<1>7. ASSUME NEW k \in 1 .. n PROVE \E p, e \in 1 .. i + 1 : ArgAt(l, size, i + 1, new, k, p, e)
  <2>1. PICK p \in 1 .. i, e \in 1 .. i : ArgAt(l, size, i, st, k, p, e)
    BY <1>4
  <2>2. /\ p \in Starts(l) /\ Cardinality(StartsBefore(l, p)) = k - 1
        /\ p <= e /\ e <= i /\ st.argv[k] = SubSeq(l, p, e)
        /\ k < size => \A j \in p .. e : l[j] \in TokenChars
        /\ IF Grows(size, st, k) THEN e = i ELSE e < i /\ l[e + 1] \notin TokenChars
    BY <2>1 DEF ArgAt
  <2>3. Grows(size, new, k) <=> Grows(size, st, k)
    <3> HIDE DEF new, a
    <3> QED BY <1>1, <1>2, <1>3 DEF Grows
  <2>4. Grows(size, st, k) <=> k = n
    BY <1>1, <1>4, <1>5 DEF Grows
  <2>5. CASE k = n
    <3>1. e = i /\ p \in 1 .. i
      BY <2>2, <2>4, <2>5
    <3>2. new.argv[k] = SubSeq(l, p, i + 1)
      <4>1. new.argv[k] = Append(SubSeq(l, p, i), c)
        <5> HIDE DEF new, a
        <5> QED BY <1>2, <1>3, <2>2, <2>5, <3>1
      <4> QED BY <4>1, <3>1, SubSeqGrows
    <3>3. k < size => \A j \in p .. i + 1 : l[j] \in TokenChars
      <4> SUFFICES ASSUME k < size, NEW j \in p .. i + 1 PROVE l[j] \in TokenChars
        OBVIOUS
      <4>1. j = i + 1 \/ j \in p .. e
        BY <1>1, <3>1
      <4> QED BY <4>1, <1>5, <2>2, <2>5
    <3>4. p \in 1 .. i + 1 /\ i + 1 \in 1 .. i + 1 /\ p <= i + 1
      BY <1>1
    <3>5. ArgAt(l, size, i + 1, new, k, p, i + 1)
      <4> HIDE DEF new, n, c
      <4> QED BY <2>2, <2>3, <2>4, <2>5, <3>2, <3>3, <3>4 DEF ArgAt
    <3> QED BY <3>4, <3>5
  <2>6. CASE k # n
    <3>1. p \in 1 .. i + 1 /\ e \in 1 .. i + 1 /\ e <= i + 1 /\ (e < i => e < i + 1)
      BY <1>1
    <3>2. new.argv[k] = st.argv[k]
      <4> HIDE DEF new, a
      <4> QED BY <1>2, <1>3, <2>6
    <3>3. ArgAt(l, size, i + 1, new, k, p, e)
      <4> HIDE DEF new, n, c
      <4> QED BY <2>2, <2>3, <2>4, <2>6, <3>1, <3>2 DEF ArgAt
    <3> QED BY <3>1, <3>3
  <2> QED BY <2>5, <2>6
<1>8. Len(new.argv) = n /\ new.in = st.in
  <2> HIDE DEF new, a
  <2> QED BY <1>2, <1>3
<1>9. n < size => (st.in <=> i + 1 > 0 /\ l[i + 1] \in TokenChars)
  BY <1>1, <1>5
<1> HIDE DEF n
<1> QED BY <1>6, <1>7, <1>8, <1>9 DEF ArgsUpTo

(* The next character starts an argument.                                   *)
LEMMA BeginArg ==
  ASSUME NEW C, NEW l \in Seq(C), NEW size \in Nat \ {0}, NEW i \in 0 .. Len(l) - 1,
         NEW st \in ArgStates(C), ArgsUpTo(l, size, i, st),
         Len(st.argv) # size, ~ st.in, l[i + 1] \in TokenChars
  PROVE  ArgsUpTo(l, size, i + 1, AppendChar(size, st, l[i + 1]))
<1> DEFINE n == Len(st.argv)
           c == l[i + 1]
           new == AppendChar(size, st, c)
           a == Append(st.argv, <<c>>)
<1>1. /\ st.in = FALSE /\ st.argv \in Seq(Seq(C)) /\ n \in Nat /\ n # size
      /\ Len(l) \in Nat /\ i \in Nat /\ i + 1 \in 1 .. Len(l) /\ c \in C
  BY DEF ArgStates
<1>2. new.in = TRUE /\ new.argv = a
  BY DEF AppendChar
<1>3. Len(a) = n + 1 /\ a[n + 1] = <<c>> /\ \A k \in 1 .. n : a[k] = st.argv[k]
  BY <1>1
<1>4. /\ n = IF Cardinality(StartsUpTo(l, i)) < size THEN Cardinality(StartsUpTo(l, i)) ELSE size
      /\ n < size => (st.in <=> i > 0 /\ l[i] \in TokenChars)
      /\ \A k \in 1 .. n : \E p, e \in 1 .. i : ArgAt(l, size, i, st, k, p, e)
  BY DEF ArgsUpTo
<1>5. n < size /\ n = Cardinality(StartsUpTo(l, i)) /\ i + 1 \in Starts(l)
  <2>1. n < size /\ n = Cardinality(StartsUpTo(l, i))
    <3> HIDE DEF n
    <3> QED BY <1>1, <1>4
  <2> QED BY <2>1, <1>1, <1>4 DEF Starts
<1>6. /\ Cardinality(StartsUpTo(l, i + 1)) = n + 1
      /\ Cardinality(StartsBefore(l, i + 1)) = n
  <2>1. i \in 0 .. Len(l) /\ i < Len(l)
    BY <1>1
  <2>2. /\ StartsBefore(l, i + 1) = StartsUpTo(l, i)
        /\ Cardinality(StartsUpTo(l, i + 1)) = Cardinality(StartsUpTo(l, i)) + 1
    BY <1>5, <2>1, StartsCount
  <2> HIDE DEF n
  <2> QED BY <1>5, <2>2
<1>7. ASSUME NEW k \in 1 .. n + 1
      PROVE  \E p, e \in 1 .. i + 1 : ArgAt(l, size, i + 1, new, k, p, e)
  <2>1. CASE k = n + 1
    <3>1. SubSeq(l, i + 1, i + 1) = <<c>>
      <4> DEFINE s == SubSeq(l, i + 1, i + 1)
      <4>1. s \in Seq(C) /\ Len(s) = 1 /\ s[1] = c
        BY <1>1
      <4> HIDE DEF c, s
      <4>2. s = <<s[1]>>
        BY <4>1
      <4> QED BY <4>1, <4>2 DEF s
    <3>2. Grows(size, new, k) /\ new.argv[k] = <<c>>
      <4> HIDE DEF new, a, n
      <4> QED BY <1>2, <1>3, <2>1 DEF Grows
    <3>3. \A j \in i + 1 .. i + 1 : l[j] \in TokenChars
      BY <1>1
    <3>4. i + 1 \in 1 .. i + 1 /\ i + 1 <= i + 1 /\ k - 1 = n
      BY <1>1, <2>1
    <3>5. ArgAt(l, size, i + 1, new, k, i + 1, i + 1)
      <4> HIDE DEF new, a, n, c
      <4> QED BY <1>5, <1>6, <3>1, <3>2, <3>3, <3>4 DEF ArgAt
    <3> QED BY <3>4, <3>5
  <2>2. CASE k # n + 1
    <3>0. k \in 1 .. n
      BY <1>1, <2>2
    <3>1. PICK p \in 1 .. i, e \in 1 .. i : ArgAt(l, size, i, st, k, p, e)
      BY <1>4, <3>0
    <3>2. ~ Grows(size, st, k) /\ ~ Grows(size, new, k)
      <4>1. Len(new.argv) = n + 1
        <5> HIDE DEF new, a
        <5> QED BY <1>2, <1>3
      <4>2. n # size /\ k # Len(new.argv)
        <5> HIDE DEF new
        <5> QED BY <1>5, <2>2, <4>1
      <4> QED BY <1>1, <4>2 DEF Grows
    <3>3. p \in 1 .. i + 1 /\ e \in 1 .. i + 1 /\ e <= i + 1 /\ (e < i => e < i + 1)
      BY <1>1
    <3>4. new.argv[k] = st.argv[k]
      <4> HIDE DEF new, a
      <4> QED BY <1>2, <1>3, <3>0
    <3>5. ArgAt(l, size, i + 1, new, k, p, e)
      <4> HIDE DEF new, n, c
      <4> QED BY <3>1, <3>2, <3>3, <3>4 DEF ArgAt
    <3> QED BY <3>3, <3>5
  <2> QED BY <2>1, <2>2
<1>8. Len(new.argv) = n + 1
  <2> HIDE DEF new, a
  <2> QED BY <1>2, <1>3
<1>9. /\ n + 1 = IF Cardinality(StartsUpTo(l, i + 1)) < size
                   THEN Cardinality(StartsUpTo(l, i + 1)) ELSE size
      /\ i + 1 > 0 /\ l[i + 1] \in TokenChars
  <2> HIDE DEF n
  <2> QED BY <1>1, <1>5, <1>6
<1> HIDE DEF n
<1> QED BY <1>2, <1>7, <1>8, <1>9 DEF ArgsUpTo

(* The next character is a space, while another argument fits.              *)
LEMMA EndArg ==
  ASSUME NEW C, NEW l \in Seq(C), NEW size \in Nat \ {0}, NEW i \in 0 .. Len(l) - 1,
         NEW st \in ArgStates(C), ArgsUpTo(l, size, i, st),
         Len(st.argv) # size, l[i + 1] \notin TokenChars
  PROVE  ArgsUpTo(l, size, i + 1, AppendChar(size, st, l[i + 1]))
<1> DEFINE n == Len(st.argv)
           c == l[i + 1]
           new == AppendChar(size, st, c)
<1>1. /\ st.in \in BOOLEAN /\ st.argv \in Seq(Seq(C)) /\ n \in Nat /\ n # size
      /\ st = [in |-> st.in, argv |-> st.argv]
      /\ Len(l) \in Nat /\ i \in Nat /\ i + 1 \in 1 .. Len(l)
  BY DEF ArgStates
<1>2. new.in = FALSE /\ new.argv = st.argv
  BY <1>1 DEF AppendChar
<1>4. /\ n = IF Cardinality(StartsUpTo(l, i)) < size THEN Cardinality(StartsUpTo(l, i)) ELSE size
      /\ \A k \in 1 .. n : \E p, e \in 1 .. i : ArgAt(l, size, i, st, k, p, e)
  BY DEF ArgsUpTo
<1>5. n < size
  <2> HIDE DEF n
  <2> QED BY <1>1, <1>4
<1>6. Cardinality(StartsUpTo(l, i + 1)) = Cardinality(StartsUpTo(l, i))
  <2>1. i \in 0 .. Len(l) /\ i < Len(l) /\ i + 1 \notin Starts(l)
    BY <1>1 DEF Starts
  <2> QED BY <2>1, StartsCount
<1>7. ASSUME NEW k \in 1 .. n
      PROVE  \E p, e \in 1 .. i + 1 : ArgAt(l, size, i + 1, new, k, p, e)
  <2>1. PICK p \in 1 .. i, e \in 1 .. i : ArgAt(l, size, i, st, k, p, e)
    BY <1>4
  <2>2. e < i + 1 /\ l[e + 1] \notin TokenChars
    <3>1. (IF Grows(size, st, k) THEN e = i ELSE e < i /\ l[e + 1] \notin TokenChars)
      BY <2>1 DEF ArgAt
    <3>2. CASE e = i
      BY <1>1, <3>2
    <3>3. CASE e # i
      <4>1. e < i /\ l[e + 1] \notin TokenChars
        BY <3>1, <3>3
      <4>2. e < i + 1
        BY <1>1, <4>1
      <4> QED BY <4>1, <4>2
    <3> QED BY <3>2, <3>3
  <2>3. ~ Grows(size, new, k) /\ new.argv[k] = st.argv[k]
    <3>1. k # size
      BY <1>1, <1>5
    <3> HIDE DEF new
    <3> QED BY <1>2, <3>1 DEF Grows
  <2>4. p \in 1 .. i + 1 /\ e \in 1 .. i + 1 /\ e <= i + 1
    BY <1>1
  <2>5. ArgAt(l, size, i + 1, new, k, p, e)
    <3> HIDE DEF new, n, c
    <3> QED BY <2>1, <2>2, <2>3, <2>4 DEF ArgAt
  <2> QED BY <2>4, <2>5
<1>8. Len(new.argv) = n
  <2> HIDE DEF new
  <2> QED BY <1>2
<1> HIDE DEF n
<1> QED BY <1>2, <1>4, <1>6, <1>7, <1>8 DEF ArgsUpTo

(* Before the first character there is no argument.                         *)
LEMMA ArgsUpToStart == ASSUME NEW C, NEW l \in Seq(C), NEW size \in Nat \ {0}
                       PROVE  ArgsUpTo(l, size, 0, NoArgs)
<1>1. StartsUpTo(l, 0) = {}
  BY DEF StartsUpTo, Starts
<1>2. Cardinality(StartsUpTo(l, 0)) = 0
  BY <1>1, FS_EmptySet
<1>3. NoArgs.argv = <<>> /\ NoArgs.in = FALSE
  BY DEF NoArgs
<1> QED BY <1>2, <1>3 DEF ArgsUpTo

(* The k-th start is the only start with k - 1 before it.                   *)
LEMMA NthStartIs ==
  ASSUME NEW C, NEW l \in Seq(C), NEW k \in Nat, NEW p \in Starts(l),
         Cardinality(StartsBefore(l, p)) = k - 1
  PROVE  NthStart(l, k) = p
<1>1. /\ Starts(l) \subseteq Nat /\ IsFiniteSet(Starts(l))
  <2>1. Starts(l) \in SUBSET (1 .. Len(l)) /\ IsFiniteSet(1 .. Len(l)) /\ 1 .. Len(l) \subseteq Nat
    BY FS_Interval DEF Starts
  <2>2. IsFiniteSet(Starts(l))
    BY <2>1, FS_Subset, Zenon
  <2> QED BY <2>1, <2>2
<1>2. ASSUME NEW i \in Starts(l), NEW j \in Starts(l), i < j
      PROVE  Cardinality(StartsBefore(l, i)) # Cardinality(StartsBefore(l, j))
  <2>1. /\ StartsBefore(l, i) \in SUBSET StartsBefore(l, j)
        /\ StartsBefore(l, j) \in SUBSET Starts(l)
        /\ i \in StartsBefore(l, j) /\ i \notin StartsBefore(l, i)
    BY <1>1, <1>2 DEF StartsBefore
  <2>2. IsFiniteSet(StartsBefore(l, j))
    BY <1>1, <2>1, FS_Subset, Zenon
  <2>3. Cardinality(StartsBefore(l, j)) = Cardinality(StartsBefore(l, i)) =>
           StartsBefore(l, j) = StartsBefore(l, i)
    BY <2>1, <2>2, FS_Subset, Zenon
  <2> QED BY <2>1, <2>3
<1>3. ASSUME NEW i \in Starts(l), Cardinality(StartsBefore(l, i)) = k - 1 PROVE i = p
  BY <1>1, <1>2, <1>3
<1> QED BY <1>3 DEF NthStart

(* RunEnd is the last of the characters before a space.                     *)
LEMMA RunEndIs ==
  ASSUME NEW C, NEW l \in Seq(C), NEW p \in 1 .. Len(l), NEW e \in p .. Len(l),
         \A j \in p .. e : l[j] \in TokenChars,
         e = Len(l) \/ l[e + 1] \notin TokenChars
  PROVE  RunEnd(l, p) = e
<1>1. ASSUME NEW j \in p .. Len(l), \A k \in p .. j : l[k] \in TokenChars,
             j = Len(l) \/ l[j + 1] \notin TokenChars
      PROVE  j = e
  <2>0. Len(l) \in Nat /\ p \in Nat /\ e \in Nat /\ j \in Nat
    OBVIOUS
  <2>1. CASE j < e
    <3>1. j + 1 \in p .. e /\ j # Len(l)
      BY <2>0, <2>1
    <3> QED BY <1>1, <3>1
  <2>2. CASE e < j
    <3>1. e + 1 \in p .. j /\ e # Len(l)
      BY <2>0, <2>2
    <3> QED BY <1>1, <3>1
  <2> QED BY <2>0, <2>1, <2>2
<1> QED BY <1>1 DEF RunEnd

(* What convert_cmd_buf_to_substr makes of any line: the line's arguments.  *)
LEMMA ArgsAreArgs ==
  ASSUME NEW C, NEW l \in Seq(C), NEW size \in Nat \ {0}
  PROVE  Args(l, size) = ArgsOf(l, size) /\ Args(l, size) \in Seq(Seq(C))
<1>1. PICK h \in [0 .. Len(l) -> ArgStates(C)] :
              ArgRounds(h, l, size) /\ Args(l, size) = h[Len(l)].argv
  BY ArgsFold
<1> DEFINE N == Len(l)
           T == {i \in 0 .. N : ArgsUpTo(l, size, i, h[i])}
<1>2. N \in Nat
  OBVIOUS
<1>3. 0 \in T
  BY <1>1, <1>2, ArgsUpToStart DEF ArgRounds
<1>4. ASSUME NEW i \in 0 .. N - 1, i \in T PROVE i + 1 \in T
  <2>1. i + 1 \in 1 .. N /\ i + 1 \in 0 .. N /\ (i + 1) - 1 = i /\ i \in 0 .. N
    BY <1>2
  <2>2. h[i + 1] = AppendChar(size, h[i], l[i + 1]) /\ h[i] \in ArgStates(C)
    BY <1>1, <2>1 DEF ArgRounds
  <2>3. ArgsUpTo(l, size, i, h[i])
    BY <1>4
  <2>4. ArgsUpTo(l, size, i + 1, AppendChar(size, h[i], l[i + 1]))
    BY <2>2, <2>3, GrowLast, BeginArg, EndArg
  <2> QED BY <2>1, <2>2, <2>4
<1>5. ArgsUpTo(l, size, N, h[N])
  <2>1. 0 .. N \subseteq T
    <3> HIDE DEF T, N
    <3> QED BY <1>2, <1>3, <1>4, SetInduction
  <2> QED BY <1>2, <2>1
<1> DEFINE a == h[N].argv
           firsts == Cardinality(Starts(l))
           final(k) == IF k = size THEN Len(l) ELSE RunEnd(l, NthStart(l, k))
<1>6. a \in Seq(Seq(C)) /\ Len(a) = IF firsts < size THEN firsts ELSE size
  <2>1. StartsUpTo(l, N) = Starts(l)
    BY <1>2 DEF StartsUpTo, Starts
  <2>2. h[N] \in ArgStates(C)
    BY <1>1, <1>2
  <2> QED BY <1>5, <2>1, <2>2 DEF ArgsUpTo, ArgStates
<1>7. ASSUME NEW k \in 1 .. Len(a) PROVE a[k] = SubSeq(l, NthStart(l, k), final(k))
  <2>1. PICK p \in 1 .. N, e \in 1 .. N : ArgAt(l, size, N, h[N], k, p, e)
    BY <1>5 DEF ArgsUpTo
  <2>2. /\ p \in Starts(l) /\ Cardinality(StartsBefore(l, p)) = k - 1
        /\ p <= e /\ e <= N /\ a[k] = SubSeq(l, p, e)
        /\ k < size => \A j \in p .. e : l[j] \in TokenChars
        /\ IF Grows(size, h[N], k) THEN e = N ELSE e < N /\ l[e + 1] \notin TokenChars
    BY <2>1 DEF ArgAt
  <2>3. NthStart(l, k) = p
    BY <1>6, <2>2, NthStartIs
  <2>4. k <= size
    BY <1>6
  <2>5. final(k) = e
    <3>1. CASE k = size
      <4>1. k = Len(a)
        BY <1>6, <3>1
      <4>2. e = N
        BY <2>2, <3>1, <4>1 DEF Grows
      <4> QED BY <3>1, <4>2
    <3>2. CASE k # size
      <4>1. k < size /\ (e = N \/ l[e + 1] \notin TokenChars) /\ e \in p .. Len(l)
        BY <1>2, <1>6, <2>2, <2>4, <3>2
      <4>2. RunEnd(l, p) = e
        BY <2>2, <4>1, RunEndIs
      <4> QED BY <2>3, <3>2, <4>2
    <3> QED BY <3>1, <3>2
  <2> QED BY <2>2, <2>3, <2>5
<1>8. a = ArgsOf(l, size)
  <2>1. a = [k \in 1 .. Len(a) |-> a[k]]
    BY <1>6
  <2>2. a = [k \in 1 .. Len(a) |-> SubSeq(l, NthStart(l, k), final(k))]
    <3> HIDE DEF a, final
    <3> QED BY <2>1, <1>7
  <2>3. ArgsOf(l, size) = [k \in 1 .. (IF firsts < size THEN firsts ELSE size) |->
                             SubSeq(l, NthStart(l, k), final(k))]
    BY DEF ArgsOf
  <2> HIDE DEF a, final, firsts
  <2> QED BY <1>6, <2>2, <2>3
<1> QED BY <1>1, <1>6, <1>8

(* The screen shows the line without the spaces it starts with.             *)
Shows(l, s) ==
  /\ Len(l) - Len(s) >= 0
  /\ \A i \in 1 .. Len(l) - Len(s) : l[i] \in SpaceChars
  /\ \A i \in 1 .. Len(s) : l[(Len(l) - Len(s)) + i] = s[i]

(* Spaces before a line make no difference to its arguments.                *)
LEMMA SpacesSkipped ==
  ASSUME NEW C, NEW l \in Seq(C), NEW s \in Seq(C), NEW size \in Nat \ {0},
         TokenChars \cap SpaceChars = {}, Shows(l, s)
  PROVE  Args(l, size) = Args(s, size)
<1> DEFINE d == Len(l) - Len(s)
<1>1. PICK g \in [0 .. Len(l) -> ArgStates(C)] :
              ArgRounds(g, l, size) /\ Args(l, size) = g[Len(l)].argv
  BY ArgsFold
<1>2. PICK h \in [0 .. Len(s) -> ArgStates(C)] :
              ArgRounds(h, s, size) /\ Args(s, size) = h[Len(s)].argv
  BY ArgsFold
<1>3. /\ Len(l) \in Nat /\ Len(s) \in Nat /\ d \in Nat /\ Len(l) = d + Len(s)
      /\ \A i \in 1 .. d : l[i] \in SpaceChars
      /\ \A i \in 1 .. Len(s) : l[d + i] = s[i]
  <2>1. Len(l) \in Nat /\ Len(s) \in Nat
    OBVIOUS
  <2> QED BY <2>1 DEF Shows
<1> HIDE DEF d
<1>4. g[d] = NoArgs
  <2> DEFINE T == {i \in 0 .. d : g[i] = NoArgs}
  <2>1. 0 \in T
    BY <1>1, <1>3 DEF ArgRounds
  <2>2. ASSUME NEW i \in 0 .. d - 1, i \in T PROVE i + 1 \in T
    <3>1. i + 1 \in 1 .. d /\ i + 1 \in 1 .. Len(l) /\ (i + 1) - 1 = i /\ i + 1 \in 0 .. d
      <4>1. Len(l) \in Nat /\ Len(s) \in Nat /\ d \in Nat /\ Len(l) = d + Len(s)
        BY <1>3
      <4> QED BY ONLY <4>1, i \in 0 .. d - 1
    <3>2. g[i + 1] = AppendChar(size, g[i], l[i + 1]) /\ l[i + 1] \notin TokenChars
      BY <1>1, <1>3, <3>1 DEF ArgRounds
    <3>3. AppendChar(size, NoArgs, l[i + 1]) = NoArgs
      BY <3>2 DEF AppendChar, NoArgs
    <3> QED BY <2>2, <3>1, <3>2, <3>3
  <2>3. 0 .. d \subseteq T
    <3> HIDE DEF T
    <3> QED BY <1>3, <2>1, <2>2, SetInduction
  <2> QED BY <1>3, <2>3
<1>5. g[d + Len(s)] = h[Len(s)]
  <2> DEFINE T == {i \in 0 .. Len(s) : g[d + i] = h[i]}
  <2>1. 0 \in T
    <3>1. d + 0 = d /\ 0 \in 0 .. Len(s)
      BY <1>3
    <3> QED BY <1>2, <1>4, <3>1 DEF ArgRounds
  <2>2. ASSUME NEW i \in 0 .. Len(s) - 1, i \in T PROVE i + 1 \in T
    <3>1. /\ i + 1 \in 1 .. Len(s) /\ d + (i + 1) \in 1 .. Len(l) /\ (i + 1) - 1 = i
          /\ i + 1 \in 0 .. Len(s) /\ (d + (i + 1)) - 1 = d + i
      BY <1>3
    <3>2. g[d + (i + 1)] = AppendChar(size, g[d + i], l[d + (i + 1)])
      BY <1>1, <3>1 DEF ArgRounds
    <3>3. h[i + 1] = AppendChar(size, h[i], s[i + 1])
      BY <1>2, <3>1 DEF ArgRounds
    <3>4. g[d + i] = h[i] /\ l[d + (i + 1)] = s[i + 1]
      BY <1>3, <2>2, <3>1
    <3>5. g[d + (i + 1)] = h[i + 1]
      BY ONLY <3>2, <3>3, <3>4
    <3> QED BY <3>1, <3>5
  <2>3. 0 .. Len(s) \subseteq T
    <3> HIDE DEF T
    <3> QED BY <1>3, <2>1, <2>2, SetInduction
  <2>4. Len(s) \in T
    <3>1. Len(s) \in 0 .. Len(s)
      BY <1>3
    <3> HIDE DEF T
    <3> QED BY <2>3, <3>1
  <2> QED BY <2>4
<1> QED BY <1>1, <1>2, <1>3, <1>5

(* A line of spaces has no argument.                                        *)
LEMMA BlankNoArgs ==
  ASSUME NEW C, NEW l \in Seq(C), NEW size \in Nat \ {0},
         \A i \in 1 .. Len(l) : l[i] \notin TokenChars
  PROVE  ArgsOf(l, size) = <<>>
<1>1. Starts(l) = {}
  BY DEF Starts
<1>2. Cardinality(Starts(l)) = 0
  BY <1>1, FS_EmptySet
<1> QED BY <1>2 DEF ArgsOf

(* A character typed goes to the end of the line and of the screen.         *)
LEMMA ShowsAppend ==
  ASSUME NEW C, NEW l \in Seq(C), NEW s \in Seq(C), NEW b \in C, Shows(l, s)
  PROVE  Shows(Append(l, b), Append(s, b))
<1> DEFINE d == Len(l) - Len(s)
<1>1. /\ Len(l) \in Nat /\ Len(s) \in Nat /\ d \in Nat /\ Len(l) = d + Len(s)
      /\ \A i \in 1 .. d : l[i] \in SpaceChars
      /\ \A i \in 1 .. Len(s) : l[d + i] = s[i]
  <2>1. Len(l) \in Nat /\ Len(s) \in Nat
    OBVIOUS
  <2> QED BY <2>1 DEF Shows
<1>2. /\ Len(Append(l, b)) = Len(l) + 1 /\ Append(l, b)[Len(l) + 1] = b
      /\ \A i \in 1 .. Len(l) : Append(l, b)[i] = l[i]
  OBVIOUS
<1>3. /\ Len(Append(s, b)) = Len(s) + 1 /\ Append(s, b)[Len(s) + 1] = b
      /\ \A i \in 1 .. Len(s) : Append(s, b)[i] = s[i]
  OBVIOUS
<1>4. Len(Append(l, b)) - Len(Append(s, b)) = d
  BY <1>1, <1>2, <1>3
<1> DEFINE lb == Append(l, b)
           sb == Append(s, b)
<1> HIDE DEF d, lb, sb
<1>5. ASSUME NEW i \in 1 .. d PROVE lb[i] \in SpaceChars
  <2>1. i \in 1 .. Len(l)
    BY <1>1
  <2> QED BY <1>1, <1>2, <2>1 DEF lb
<1>6. ASSUME NEW i \in 1 .. Len(s) + 1 PROVE lb[d + i] = sb[i]
  <2>1. CASE i = Len(s) + 1
    <3>1. d + i = Len(l) + 1
      BY <1>1, <2>1
    <3> QED BY <1>2, <1>3, <2>1, <3>1 DEF lb, sb
  <2>2. CASE i # Len(s) + 1
    <3>1. i \in 1 .. Len(s) /\ d + i \in 1 .. Len(l)
      BY <1>1, <2>2
    <3> QED BY <1>1, <1>2, <1>3, <3>1 DEF lb, sb
  <2> QED BY <2>1, <2>2
<1>7. Len(lb) - Len(sb) = d /\ Len(sb) = Len(s) + 1
  BY <1>3, <1>4 DEF lb, sb
<1>8. Shows(lb, sb)
  <2>1. Len(lb) - Len(sb) \in Nat
    BY <1>1, <1>7
  <2>2. \A i \in 1 .. Len(lb) - Len(sb) : lb[i] \in SpaceChars
    BY ONLY <1>5, <1>7
  <2>3. \A i \in 1 .. Len(sb) : lb[(Len(lb) - Len(sb)) + i] = sb[i]
    BY ONLY <1>6, <1>7
  <2> QED BY ONLY <1>1, <1>7, <2>1, <2>2, <2>3 DEF Shows
<1> QED BY <1>8 DEF lb, sb
-----------------------------------------------------------------------------
LEMMA ErasedLine ==
  ASSUME NEW l \in Lines
  PROVE  /\ Erased(l) \in Lines
         /\ Len(Erased(l)) = IF l = <<>> THEN 0 ELSE Len(l) - 1
         /\ \A i \in 1 .. Len(Erased(l)) : Erased(l)[i] = l[i]
<1>1. CASE l = <<>>
  BY <1>1 DEF Erased
<1>2. CASE l # <<>>
  <2>1. l \in Seq(Chars) /\ Len(l) \in Nat /\ Len(l) >= 1
    BY <1>2 DEF Lines
  <2> DEFINE n == Len(l) - 1
  <2>2. n \in 0 .. Len(l) /\ Erased(l) = SubSeq(l, 1, n)
    BY <1>2, <2>1 DEF Erased, Front
  <2>3. /\ SubSeq(l, 1, n) \in Seq(Chars) /\ Len(SubSeq(l, 1, n)) = n
        /\ \A i \in 1 .. n : SubSeq(l, 1, n)[i] = l[i]
    <3>1. n \in Nat /\ n <= Len(l) /\ \A i \in 1 .. n : l[i] \in Chars
      BY <2>1
    <3> HIDE DEF n
    <3>2. Len(SubSeq(l, 1, n)) = n /\ \A i \in 1 .. n : SubSeq(l, 1, n)[i] = l[i]
      BY <2>1, <3>1
    <3>3. SubSeq(l, 1, n) \in Seq(Chars)
      BY <2>1, <3>1
    <3> QED BY <3>2, <3>3
  <2> QED BY <1>2, <2>2, <2>3 DEF Lines
<1> QED BY <1>1, <1>2

LEMMA AddedLine ==
  ASSUME NEW l \in Lines, NEW b \in Chars
  PROVE  /\ Append(l, b) \in Lines /\ Len(Append(l, b)) = Len(l) + 1
         /\ Append(l, b)[Len(l) + 1] = b
         /\ \A i \in 1 .. Len(l) : Append(l, b)[i] = l[i]
BY DEF Lines

(* What every line that is done leaves behind, whatever became of it.       *)
LEMMA ProcessEffect ==
  ASSUME NEW l, NEW s, Process(l, s)
  PROVE  /\ line' = <<>> /\ has_data' = 0 /\ shown' = <<>> /\ qrun' = 0
         /\ arg' \in {0, 1} /\ pass_to' \in {1, pass_to} /\ q_count' \in {0, q_count}
         /\ UNCHANGED <<links, boot>>
<1> DEFINE argv == Args(l, MaxArgs)
           verdict == Verdict(argv)
           cmd == IF verdict = "ran" THEN Find(argv[1]) ELSE Null
<1>1. /\ \/ verdict = "ran" /\ Effect(cmd)
         \/ verdict = "no argument" /\ arg' = 0 /\ UNCHANGED pass_to
         \/ verdict \notin {"ran", "no argument"} /\ arg' = 1 /\ UNCHANGED pass_to
      /\ q_count' = IF verdict = "no argument" THEN q_count ELSE 0
      /\ LineDone /\ shown' = <<>> /\ qrun' = 0
      /\ UNCHANGED <<links, boot>>
  BY DEF Process
<1> HIDE DEF verdict, cmd
<1> QED BY <1>1 DEF LineDone, Effect

(* While the flag is clear the line is blank: an empty line leaves spaces only. *)
FlagCovers == has_data = 0 => \A i \in 1 .. Len(line) : line[i] \in SpaceChars

ShellInv == ShellTypeOK /\ LineIsShown /\ SessionOwnsInput /\ FlagCovers

LEMMA ShellInvInit == ShellInit => ShellInv
<1> SUFFICES ASSUME ShellInit PROVE ShellInv
  OBVIOUS
<1>1. ShellTypeOK
  BY BufAssumption, BoundAssumption, StartupAssumption
  DEF ShellInit, ShellTypeOK, Lines, Bit
<1>2. LineIsShown
  BY DEF ShellInit, LineIsShown, Left
<1>3. SessionOwnsInput /\ FlagCovers
  BY DEF ShellInit, SessionOwnsInput, FlagCovers
<1> QED BY <1>1, <1>2, <1>3 DEF ShellInv

LEMMA ProcessInv ==
  ASSUME ShellInv, NEW l, NEW s, Process(l, s)
  PROVE  ShellInv'
<1>1. /\ line' = <<>> /\ has_data' = 0 /\ shown' = <<>> /\ qrun' = 0
      /\ arg' \in {0, 1} /\ pass_to' \in {1, pass_to} /\ q_count' \in {0, q_count}
      /\ UNCHANGED boot
  BY ProcessEffect DEF boot
<1>2. ShellTypeOK'
  BY <1>1, BufAssumption DEF ShellInv, ShellTypeOK, Lines, Bit, boot
<1>3. LineIsShown' /\ SessionOwnsInput' /\ FlagCovers'
  BY <1>1 DEF LineIsShown, Left, SessionOwnsInput, FlagCovers
<1> QED BY <1>2, <1>3 DEF ShellInv

LEMMA EraseInv ==
  ASSUME ShellInv, NEW b, EraseChar(b)
  PROVE  ShellInv'
<1>1. /\ line' = Erased(line) /\ shown' = Erased(shown) /\ arg' = 0 /\ qrun' = 0
      /\ pass_to = 0 /\ UNCHANGED <<has_data, q_count, pass_to, boot>>
  BY DEF EraseChar, Edits
<1>2. /\ line \in Lines /\ shown \in Lines /\ Left >= 0
      /\ \A i \in 1 .. Left : line[i] \in SpaceChars
      /\ \A i \in 1 .. Len(shown) : line[Left + i] = shown[i]
  BY DEF ShellInv, ShellTypeOK, LineIsShown
<1>3. /\ Erased(line) \in Lines /\ Erased(shown) \in Lines
      /\ Len(line) \in Nat /\ Len(shown) \in Nat
      /\ Len(Erased(line)) = IF Len(line) = 0 THEN 0 ELSE Len(line) - 1
      /\ Len(Erased(shown)) = IF Len(shown) = 0 THEN 0 ELSE Len(shown) - 1
      /\ \A i \in 1 .. Len(Erased(line)) : Erased(line)[i] = line[i]
      /\ \A i \in 1 .. Len(Erased(shown)) : Erased(shown)[i] = shown[i]
  BY <1>2, ErasedLine DEF Lines
<1>4. ShellTypeOK'
  <2>1. Len(line') <= BufLen - 2
    BY <1>1, <1>3, BufAssumption DEF ShellInv, ShellTypeOK
  <2> QED BY <2>1, <1>1, <1>3 DEF ShellInv, ShellTypeOK, boot
<1>5. LineIsShown'
  <2>1. Len(line') = Len(Erased(line)) /\ Len(shown') = Len(Erased(shown))
    BY <1>1
  <2>2. Left' = IF Len(shown) = 0 THEN Len(Erased(line)) ELSE Left
    BY <2>1, <1>2, <1>3 DEF Left
  <2>3. Left' >= 0 /\ Left' <= Left
    BY <2>2, <1>2, <1>3 DEF Left
  <2>4. ASSUME NEW i \in 1 .. Left' PROVE line'[i] \in SpaceChars
    <3>1. i \in 1 .. Left /\ i \in 1 .. Len(Erased(line))
      BY <2>1, <2>3, <1>2, <1>3 DEF Left
    <3> QED BY <3>1, <1>1, <1>2, <1>3
  <2>5. ASSUME NEW i \in 1 .. Len(shown') PROVE line'[Left' + i] = shown'[i]
    <3>1. /\ Left' = Left /\ i \in 1 .. Len(shown) /\ i \in 1 .. Len(Erased(shown))
          /\ Left + i \in 1 .. Len(Erased(line))
      BY <2>1, <2>2, <1>2, <1>3 DEF Left
    <3> QED BY <3>1, <1>1, <1>2, <1>3
  <2> QED BY <2>3, <2>4, <2>5 DEF LineIsShown
<1>6. FlagCovers'
  <2> SUFFICES ASSUME has_data = 0, NEW i \in 1 .. Len(line')
               PROVE  line'[i] \in SpaceChars
    BY <1>1 DEF FlagCovers
  <2>1. i \in 1 .. Len(Erased(line)) /\ i \in 1 .. Len(line)
    BY <1>1, <1>3
  <2> QED BY <2>1, <1>1, <1>3 DEF ShellInv, FlagCovers
<1>7. SessionOwnsInput'
  BY <1>1 DEF SessionOwnsInput
<1> QED BY <1>4, <1>5, <1>6, <1>7 DEF ShellInv

LEMMA AddInv ==
  ASSUME ShellInv, NEW b \in Chars, AddChar(b)
  PROVE  ShellInv'
<1>1. /\ line' = Append(line, b) /\ shown' = Append(shown, b) /\ arg' = 0 /\ qrun' = 0
      /\ has_data' = DataFlag(b) /\ Len(Append(line, b)) # BufLen - 1
      /\ pass_to = 0 /\ UNCHANGED <<q_count, pass_to, boot>>
  BY DEF AddChar, Edits, Full
<1>2. /\ line \in Lines /\ shown \in Lines /\ Left >= 0
      /\ Len(line) \in Nat /\ Len(shown) \in Nat
      /\ \A i \in 1 .. Left : line[i] \in SpaceChars
      /\ \A i \in 1 .. Len(shown) : line[Left + i] = shown[i]
  BY DEF ShellInv, ShellTypeOK, LineIsShown, Lines
<1>3. /\ line' \in Lines /\ Len(line') = Len(line) + 1 /\ line'[Len(line) + 1] = b
      /\ \A i \in 1 .. Len(line) : line'[i] = line[i]
      /\ shown' \in Lines /\ Len(shown') = Len(shown) + 1 /\ shown'[Len(shown) + 1] = b
      /\ \A i \in 1 .. Len(shown) : shown'[i] = shown[i]
  BY <1>1, <1>2, AddedLine
<1>4. ShellTypeOK'
  <2>1. Len(line') <= BufLen - 2
    BY <1>1, <1>2, <1>3, BufAssumption DEF ShellInv, ShellTypeOK
  <2>2. has_data' \in Bit
    BY <1>1 DEF DataFlag, Bit, ShellInv, ShellTypeOK
  <2> QED BY <2>1, <2>2, <1>1, <1>3 DEF ShellInv, ShellTypeOK, boot
<1>5. LineIsShown'
  <2>1. Left' = Left
    BY <1>2, <1>3 DEF Left
  <2>2. ASSUME NEW i \in 1 .. Left PROVE line'[i] \in SpaceChars
    <3>1. i \in 1 .. Len(line)
      BY <1>2 DEF Left
    <3> QED BY <3>1, <1>2, <1>3
  <2>3. ASSUME NEW i \in 1 .. Len(shown') PROVE line'[Left + i] = shown'[i]
    <3>1. CASE i = Len(shown')
      BY <3>1, <1>2, <1>3 DEF Left
    <3>2. CASE i # Len(shown')
      <4>1. i \in 1 .. Len(shown) /\ Left + i \in 1 .. Len(line)
        BY <3>2, <1>2, <1>3 DEF Left
      <4> QED BY <4>1, <1>2, <1>3
    <3> QED BY <3>1, <3>2
  <2> QED BY <2>1, <2>2, <2>3, <1>2 DEF LineIsShown
<1>6. FlagCovers'
  <2> SUFFICES ASSUME has_data' = 0, NEW i \in 1 .. Len(line')
               PROVE  line'[i] \in SpaceChars
    BY DEF FlagCovers
  <2>1. b \in SpaceChars /\ has_data = 0
    BY <1>1 DEF DataFlag
  <2>2. CASE i = Len(line')
    BY <2>1, <2>2, <1>2, <1>3
  <2>3. CASE i # Len(line')
    <3>1. i \in 1 .. Len(line)
      BY <2>3, <1>2, <1>3
    <3> QED BY <3>1, <2>1, <1>3 DEF ShellInv, FlagCovers
  <2> QED BY <2>2, <2>3
<1>7. SessionOwnsInput'
  BY <1>1 DEF SessionOwnsInput
<1> QED BY <1>4, <1>5, <1>6, <1>7 DEF ShellInv

LEMMA LowerChar == ASSUME NEW c \in Chars PROVE Lower[c] \in Chars
BY CharAssumption

LEMMA ShellInvNext == ShellInv /\ [ShellNext]_vars => ShellInv'
<1> SUFFICES ASSUME ShellInv, [ShellNext]_vars PROVE ShellInv'
  OBVIOUS
<1> USE DEF ShellInv
<1>1. CASE StartShell
  BY <1>1, BoundAssumption, StartupAssumption
  DEF StartShell, ShellTypeOK, LineIsShown, Left, SessionOwnsInput, FlagCovers, editor, Lines, Bit
<1>2. CASE AddNext
  BY <1>2, StartupAssumption
  DEF AddNext, ShellTypeOK, LineIsShown, Left, SessionOwnsInput, FlagCovers, editor, Lines, Bit
<1>3. CASE StartLoop
  BY <1>3 DEF StartLoop, ShellTypeOK, LineIsShown, Left, SessionOwnsInput, FlagCovers, editor, Lines, Bit
<1>4. CASE NoInput
  BY <1>4 DEF NoInput, ShellTypeOK, LineIsShown, Left, SessionOwnsInput, FlagCovers, editor, boot, Lines, Bit
<1>5. CASE Passed
  BY <1>5 DEF Passed, ShellTypeOK, LineIsShown, Left, SessionOwnsInput, FlagCovers, editor, boot, Lines, Bit
<1>6. ASSUME NEW c \in Chars, Input(Lower[c]) PROVE ShellInv'
  <2> DEFINE b == Lower[c]
  <2>0. b \in Chars
    BY LowerChar
  <2> HIDE DEF b
  <2>1. CASE EmptyLine(b)
    <3>1. /\ line \in Lines /\ Len(line) \in Nat /\ line' = line /\ shown' = <<>>
          /\ arg' = 1 /\ qrun' = 0 /\ pass_to = 0
          /\ UNCHANGED <<has_data, q_count, pass_to, boot>>
      BY <2>1 DEF EmptyLine, ShellTypeOK, editor, Lines
    <3>2. ShellTypeOK'
      BY <3>1 DEF ShellTypeOK, Lines, boot
    <3>3. \A i \in 1 .. Len(line) : line[i] \in SpaceChars
      <4>1. CASE line = <<>>
        BY <4>1
      <4> QED BY <4>1, <2>1 DEF EmptyLine, IsEmpty, FlagCovers
    <3>4. LineIsShown'
      <4>1. Left' = Len(line) /\ Len(shown') = 0
        BY <3>1 DEF Left
      <4> QED BY <4>1, <3>1, <3>3 DEF LineIsShown
    <3> QED BY <3>1, <3>2, <3>4 DEF SessionOwnsInput, FlagCovers
  <2>2. CASE Quit(b)
    BY <2>2 DEF Quit, QuitResult, ShellTypeOK, LineIsShown, Left, SessionOwnsInput, FlagCovers, editor, Lines, Bit
  <2>3. CASE EraseChar(b)
    BY <2>3, EraseInv
  <2>4. CASE AddChar(b)
    BY <2>4, <2>0, AddInv
  <2>5. CASE EndLine(b)
    BY <2>5, ProcessInv DEF EndLine
  <2>6. CASE FillLine(b)
    BY <2>6, ProcessInv DEF FillLine
  <2> QED BY <1>6, <2>1, <2>2, <2>3, <2>4, <2>5, <2>6 DEF Input, b
<1>7. CASE UNCHANGED vars
  BY <1>7 DEF vars, ShellTypeOK, LineIsShown, Left, SessionOwnsInput, FlagCovers, editor, boot, Lines, Bit
<1> QED BY <1>1, <1>2, <1>3, <1>4, <1>5, <1>6, <1>7 DEF ShellNext

LEMMA ShellInvAlways == ShellSpec => []ShellInv
BY ShellInvInit, ShellInvNext, PTL DEF ShellSpec

(* Types, and the line buffer is never written past its end (shell.c:351).  *)
THEOREM ShellTypes == ShellSpec => []ShellTypeOK
<1>1. ShellInv => ShellTypeOK
  BY DEF ShellInv
<1> QED BY <1>1, ShellInvAlways, PTL

(* The line that will run is the one on the screen, but for leading spaces. *)
THEOREM LineOnScreen == ShellSpec => []LineIsShown
<1>1. ShellInv => LineIsShown
  BY DEF ShellInv
<1> QED BY <1>1, ShellInvAlways, PTL

(* A session begins and ends with an empty line buffer.                     *)
THEOREM SessionClean == ShellSpec => []SessionOwnsInput
<1>1. ShellInv => SessionOwnsInput
  BY DEF ShellInv
<1> QED BY <1>1, ShellInvAlways, PTL

-----------------------------------------------------------------------------
(* The shell uses the command list only as CmdList describes: what is       *)
(* proved of the list holds in the running program.                         *)
LEMMA LinksStep == ShellTypeOK /\ [ShellNext]_vars => [Next]_links
<1> SUFFICES ASSUME ShellTypeOK, [ShellNext]_vars PROVE [Next]_links
  OBVIOUS
<1>1. CASE StartShell
  BY <1>1 DEF StartShell, Next
<1>2. CASE AddNext
  <2>1. Startup[added + 1] \in Cmds
    BY <1>2, StartupAssumption DEF AddNext, ShellTypeOK
  <2> QED BY <1>2, <2>1 DEF AddNext, Next
<1>3. CASE StartLoop \/ NoInput \/ Passed \/ UNCHANGED vars
  BY <1>3 DEF StartLoop, NoInput, Passed, vars
<1>4. ASSUME NEW b, Input(b) PROVE UNCHANGED links
  <2>1. ASSUME NEW l, NEW s, Process(l, s) PROVE UNCHANGED links
    BY <2>1, ProcessEffect
  <2> QED BY <1>4, <2>1 DEF Input, EmptyLine, Quit, EraseChar, AddChar, EndLine, FillLine
<1> QED BY <1>1, <1>2, <1>3, <1>4 DEF ShellNext

THEOREM ShellUsesList == ShellSpec => Spec
<1>1. ShellInit => Init
  BY DEF ShellInit
<1>2. ShellInv => ShellTypeOK
  BY DEF ShellInv
<1> QED BY <1>1, <1>2, LinksStep, ShellInvAlways, PTL DEF ShellSpec, Spec

THEOREM ShellFindUnambiguous == ShellSpec => []OneAnswer
BY ShellUsesList, FindUnambiguous, PTL

-----------------------------------------------------------------------------
(* While it is started for the first time, as shell.c:555 asks.             *)

Times ==
  /\ starts \in Nat
  /\ phase = "init" <=> starts = 0

LEMMA TimesNext == Times /\ [ShellNext]_vars => Times'
<1> SUFFICES ASSUME Times, [ShellNext]_vars PROVE Times'
  OBVIOUS
<1>1. CASE StartShell
  BY <1>1 DEF StartShell, Times
<1>2. CASE AddNext \/ StartLoop \/ NoInput \/ Passed \/ UNCHANGED vars
  BY <1>2 DEF AddNext, StartLoop, NoInput, Passed, vars, boot, Times
<1>3. ASSUME NEW b, Input(b) PROVE Times'
  <2>1. ASSUME NEW l, NEW s, Process(l, s) PROVE UNCHANGED boot
    BY <2>1, ProcessEffect
  <2> QED BY <1>3, <2>1 DEF Input, EmptyLine, Quit, EraseChar, AddChar, EndLine, FillLine,
                            Edits, boot, Times
<1> QED BY <1>1, <1>2, <1>3 DEF ShellNext

QuitInv ==
  /\ Times /\ q_count \in Nat /\ qrun \in Nat
  /\ starts <= 1 => qrun <= q_count
  /\ phase = "init" => q_count = 0
  /\ phase = "add" /\ starts = 1 => q_count = 0
  /\ phase = "run" /\ starts = 1 => q_count <= 2

(* The third 'q' in a row always quits the shell started first.             *)
THEOREM ThirdQuitsOnce == ShellSpec => []ThirdQuits
<1>1. ShellInit => QuitInv
  BY DEF ShellInit, Times, QuitInv
<1>2. QuitInv /\ [ShellNext]_vars => QuitInv'
  <2> SUFFICES ASSUME QuitInv, [ShellNext]_vars PROVE QuitInv'
    OBVIOUS
  <2>0. Times'
    BY TimesNext DEF QuitInv
  <2>1. CASE StartShell
    BY <2>0, <2>1 DEF StartShell, Times, QuitInv
  <2>2. CASE AddNext \/ StartLoop \/ NoInput \/ UNCHANGED vars
    BY <2>0, <2>2 DEF AddNext, StartLoop, NoInput, vars, boot, QuitInv
  <2>3. CASE Passed
    BY <2>0, <2>3 DEF Passed, boot, QuitInv
  <2>4. ASSUME NEW b, Input(b) PROVE QuitInv'
    <3>1. CASE Quit(b)
      BY <2>0, <3>1 DEF Quit, QuitResult, Times, QuitInv
    <3>2. CASE EmptyLine(b) \/ EraseChar(b) \/ AddChar(b)
      BY <2>0, <3>2 DEF EmptyLine, EraseChar, AddChar, boot, QuitInv
    <3>3. ASSUME NEW l, NEW s, Process(l, s), phase = "run" PROVE QuitInv'
      BY <2>0, <3>3, ProcessEffect DEF boot, QuitInv
    <3> QED BY <2>4, <3>1, <3>2, <3>3 DEF Input, EndLine, FillLine, Edits
  <2> QED BY <2>1, <2>2, <2>3, <2>4 DEF ShellNext
<1>3. QuitInv /\ ShellTypeOK => ThirdQuits
  BY DEF QuitInv, Times, ThirdQuits, ShellTypeOK
<1> QED BY <1>1, <1>2, <1>3, ShellTypes, PTL DEF ShellSpec

(* Commands with all their fields, no two of which share a word.            *)
StartupOK ==
  /\ \A i \in DOMAIN Startup : WellFormed(Startup[i])
  /\ \A i, j \in DOMAIN Startup :
        i # j => Words(Startup[i]) \cap Words(Startup[j]) = {}

Tried == {Startup[i] : i \in 1 .. added}

StartupInv ==
  /\ Times
  /\ starts = 0 => \A c \in Cmds : next[c] = Null
  /\ starts = 1 => /\ next[cmd_list] # Null /\ Listed = Tried
                   /\ \A c \in Cmds \ Tried : next[c] = Null
  /\ phase \in {"run", "exit"} => added = Len(Startup)

LEMMA FindNone ==
  ASSUME NEW w, \A d \in Listed : w \notin Words(d)
  PROVE  Find(w) = Null
BY DEF Find, Found

LEMMA AddNextListed ==
  ASSUME StartupOK, ShellTypeOK, ListInv, StartupInv, AddNext, starts = 1
  PROVE  StartupInv'
<1> DEFINE c == Startup[added + 1]
<1>1. /\ phase = "add" /\ added + 1 \in DOMAIN Startup /\ added \in Nat /\ c \in Cmds
      /\ added' = added + 1 /\ phase' = phase /\ starts' = starts /\ AddCmd(c)
  BY StartupAssumption DEF AddNext, ShellTypeOK
<1>2. /\ next[cmd_list] # Null /\ Listed = Tried
      /\ \A d \in Cmds \ Tried : next[d] = Null
  BY DEF StartupInv
<1>3. \A d \in Tried : Words(c) \cap Words(d) = {}
  <2> SUFFICES ASSUME NEW i \in 1 .. added
               PROVE  Words(c) \cap Words(Startup[i]) = {}
    BY DEF Tried
  <2>1. i \in DOMAIN Startup /\ i # added + 1
    BY <1>1, StartupAssumption
  <2> QED BY <1>1, <2>1 DEF StartupOK
<1>4. c \notin Tried
  BY <1>3 DEF Words
<1>5. next[c] = Null /\ prev[c] = Null
  BY <1>1, <1>2, <1>4 DEF ListInv, TypeOK, Nodes
<1>6. New(c)
  BY <1>2, <1>3, FindNone DEF New, Words
<1>7. ListAdd(c)
  BY <1>1, <1>5, <1>6 DEF AddCmd, Valid, Unlinked, StartupOK
<1>8. Listed' = Listed \cup {c}
  BY <1>1, <1>2, <1>5, <1>7, ListedAfterAdd DEF ListInv
<1>9. Tried' = Tried \cup {c}
  <2>1. 1 .. (added + 1) = (1 .. added) \cup {added + 1}
    BY <1>1
  <2> QED BY <1>1, <2>1 DEF Tried
<1>10. next'[cmd_list] # Null /\ \A d \in Cmds \ Tried' : next'[d] = Null
  <2>1. next' = [next EXCEPT ![c] = next[cmd_list], ![cmd_list] = c]
    BY <1>7 DEF ListAdd
  <2> QED BY <1>1, <1>2, <1>9, <2>1, NodeAssumption DEF ListInv, TypeOK, Nodes
<1> QED BY <1>1, <1>2, <1>8, <1>9, <1>10 DEF StartupInv, Times

(* The shell started first knows every command its program adds.            *)
THEOREM StartupComplete == StartupOK => (ShellSpec => []StartupListedOnce)
<1> SUFFICES ASSUME StartupOK PROVE ShellSpec => []StartupListedOnce
  OBVIOUS
<1>1. ShellInit => StartupInv
  BY DEF ShellInit, Init, Times, StartupInv, Nodes
<1>2. ShellTypeOK /\ ListInv /\ StartupInv /\ [ShellNext]_vars => StartupInv'
  <2> SUFFICES ASSUME ShellTypeOK, ListInv, StartupInv, [ShellNext]_vars
               PROVE  StartupInv'
    OBVIOUS
  <2>0. Times'
    BY TimesNext DEF StartupInv
  <2>1. CASE StartShell
    <3>1. starts' = starts + 1 /\ phase' = "add" /\ added' = 0 /\ InitListHead
      BY <2>1 DEF StartShell
    <3>2. Listed' = {} /\ Tried' = {}
      BY <3>1, WalkAfterInit DEF ListInv, Listed, Tried
    <3>3. next'[cmd_list] # Null /\ \A c \in Cmds : next'[c] = next[c]
      BY <3>1, NodeAssumption DEF InitListHead, ListInv, TypeOK, Nodes
    <3> QED BY <2>0, <3>1, <3>2, <3>3 DEF StartupInv, Times
  <2>2. CASE AddNext
    <3>1. CASE starts = 1
      BY <2>2, <3>1, AddNextListed
    <3>2. CASE starts # 1
      <4>1. starts # 0 /\ starts' = starts /\ phase' = "add"
        BY <2>2 DEF AddNext, StartupInv, Times
      <4> QED BY <2>0, <3>2, <4>1 DEF StartupInv
    <3> QED BY <3>1, <3>2
  <2>3. CASE StartLoop
    BY <2>0, <2>3 DEF StartLoop, StartupInv, links, Listed, Walk, Tried
  <2>4. ASSUME UNCHANGED links, UNCHANGED <<added, starts>>,
               phase' = phase \/ (phase = "run" /\ phase' = "exit")
        PROVE  StartupInv'
    BY <2>0, <2>4 DEF StartupInv, links, Listed, Walk, Tried
  <2>5. CASE NoInput \/ Passed \/ UNCHANGED vars
    BY <2>5, <2>4 DEF NoInput, Passed, vars, boot
  <2>6. ASSUME NEW b, Input(b) PROVE StartupInv'
    <3>1. ASSUME NEW l, NEW s, Process(l, s) PROVE StartupInv'
      BY <3>1, <2>4, ProcessEffect DEF boot
    <3>2. CASE Quit(b)
      BY <3>2, <2>4 DEF Quit
    <3>3. CASE EmptyLine(b) \/ EraseChar(b) \/ AddChar(b)
      BY <3>3, <2>4 DEF EmptyLine, EraseChar, AddChar, boot
    <3> QED BY <2>6, <3>1, <3>2, <3>3 DEF Input, EndLine, FillLine
  <2> QED BY <2>1, <2>2, <2>3, <2>5, <2>6 DEF ShellNext
<1>3. StartupInv => StartupListedOnce
  <2> SUFFICES ASSUME StartupInv, starts = 1, phase = "run", NEW i \in DOMAIN Startup
               PROVE  Startup[i] \in Listed
    BY DEF StartupListed, StartupListedOnce
  <2>1. i \in 1 .. added
    BY StartupAssumption DEF StartupInv
  <2> QED BY <2>1 DEF StartupInv, Tried
<1>4. ShellSpec => []ListInv
  BY ShellUsesList, ListInvAlways, PTL
<1> QED BY <1>1, <1>2, <1>3, <1>4, ShellTypes, PTL DEF ShellSpec

-----------------------------------------------------------------------------
(* From the keyboard to the command.                                        *)

(* Find answers with a listed command that has the word, if there is one.   *)
LEMMA FindIs ==
  ASSUME NEW w
  PROVE  /\ Find(w) # Null => Find(w) \in Listed /\ w \in Words(Find(w))
         /\ Find(w) = Null => \A c \in Listed : w \notin Words(c)
<1>1. Null \notin Listed
  BY DEF Listed
<1> QED BY <1>1 DEF Find, Found

(* The argument array is not empty.                                         *)
LEMMA ArgBound == MaxArgs \in Nat \ {0}
BY ArgsAssumption

(* The arguments of the line held are those of the line shown.              *)
LEMMA ArgsOfShown ==
  ASSUME NEW l \in Lines, NEW s \in Lines, Shows(l, s)
  PROVE  Args(l, MaxArgs) = ArgsOf(s, MaxArgs)
<1>1. l \in Seq(Chars) /\ s \in Seq(Chars)
  BY DEF Lines
<1>2. TokenChars \cap SpaceChars = {}
  BY CharAssumption
<1>3. Args(l, MaxArgs) = Args(s, MaxArgs)
  BY <1>1, <1>2, ArgBound, SpacesSkipped
<1>4. Args(s, MaxArgs) = ArgsOf(s, MaxArgs)
  BY <1>1, ArgBound, ArgsAreArgs
<1> QED BY <1>3, <1>4

(* What each answer of the dispatch means.                                  *)
LEMMA VerdictIs ==
  ASSUME NEW argv
  PROVE  /\ Verdict(argv) = "ran" => /\ Find(argv[1]) # Null
                                     /\ ArgCountOK(Find(argv[1]), Len(argv))
         /\ Verdict(argv) = "bad command" => Find(argv[1]) = Null
         /\ Verdict(argv) = "comment" => argv[1][1] = Hash
         /\ Verdict(argv) = "no argument" => argv = <<>>
         /\ Verdict(argv) \in {"ran", "bad command", "comment", "no argument", "wrong count"}
<1> USE DEF Verdict
<1>1. CASE argv = <<>>
  BY <1>1
<1>2. CASE argv # <<>> /\ argv[1][1] = Hash
  BY <1>2
<1>3. CASE argv # <<>> /\ argv[1][1] # Hash
  BY <1>3
<1> QED BY <1>1, <1>2, <1>3

(* What is proved of lines together: no command runs before the loop.       *)
RunInv ==
  /\ RunsWhatWasTyped /\ NoLineLost
  /\ phase \in {"init", "add"} => last.did = "nothing"

(* A line that is done does what was typed.                                 *)
LEMMA ProcessRuns ==
  ASSUME NEW l \in Lines, NEW s \in Lines, Shows(l, s), phase = "run", Process(l, s)
  PROVE  RunInv'
<1> DEFINE argv == Args(l, MaxArgs)
           verdict == Verdict(argv)
           cmd == IF verdict = "ran" THEN Find(argv[1]) ELSE Null
<1>1. /\ last' = [did |-> verdict, typed |-> s, argv |-> argv, cmd |-> cmd]
      /\ UNCHANGED <<next, prev>> /\ phase' = "run"
  BY DEF Process, links, boot
<1>2. argv = ArgsOf(s, MaxArgs)
  BY ArgsOfShown
<1>3. Listed' = Listed
  BY <1>1 DEF Listed, Walk
<1> HIDE DEF argv
<1>4. RunsWhatWasTyped'
  <2>1. verdict = "ran" => /\ cmd \in Listed /\ argv[1] \in Words(cmd)
                           /\ ArgCountOK(cmd, Len(argv))
    BY VerdictIs, FindIs
  <2>2. verdict = "bad command" => \A c \in Listed : argv[1] \notin Words(c)
    BY VerdictIs, FindIs
  <2>3. verdict = "comment" => argv[1][1] = Hash
    BY VerdictIs
  <2> HIDE DEF verdict, cmd
  <2> QED BY <1>1, <1>2, <1>3, <2>1, <2>2, <2>3 DEF RunsWhatWasTyped
<1>5. NoLineLost'
  <2>1. verdict # "empty" /\ (verdict = "no argument" => argv = <<>>)
    BY VerdictIs
  <2> HIDE DEF verdict, cmd
  <2> QED BY <1>1, <1>2, <2>1 DEF NoLineLost
<1> QED BY <1>1, <1>4, <1>5 DEF RunInv

(* A line taken for empty has no argument on the screen.                    *)
LEMMA EmptyLost ==
  ASSUME ShellInv, IsEmpty
  PROVE  ArgsOf(shown, MaxArgs) = <<>>
<1>1. line \in Lines /\ shown \in Lines /\ Shows(line, shown)
  BY DEF ShellInv, ShellTypeOK, LineIsShown, Left, Shows
<1>2. \A i \in 1 .. Len(line) : line[i] \in SpaceChars
  <2>1. CASE line = <<>>
    BY <2>1
  <2> QED BY <2>1 DEF IsEmpty, ShellInv, FlagCovers
<1>3. \A i \in 1 .. Len(line) : line[i] \notin TokenChars
  BY <1>2, CharAssumption
<1>4. line \in Seq(Chars) /\ MaxArgs \in Nat \ {0}
  BY <1>1, ArgBound DEF Lines
<1>5. Args(line, MaxArgs) = ArgsOf(line, MaxArgs)
  BY <1>4, ArgsAreArgs
<1>6. ArgsOf(line, MaxArgs) = <<>>
  BY <1>3, <1>4, BlankNoArgs
<1>7. Args(line, MaxArgs) = ArgsOf(shown, MaxArgs)
  BY <1>1, ArgsOfShown
<1> QED BY <1>5, <1>6, <1>7

(* Every step of the shell keeps it.                                        *)
LEMMA RunInvNext == ShellInv /\ RunInv /\ [ShellNext]_vars => RunInv'
<1> SUFFICES ASSUME ShellInv, RunInv, [ShellNext]_vars PROVE RunInv'
  OBVIOUS
<1>1. ASSUME last'.did \notin {"ran", "bad command", "comment", "empty", "no argument"},
             phase' \in {"init", "add"} => last'.did = "nothing"
      PROVE  RunInv'
  BY <1>1 DEF RunInv, RunsWhatWasTyped, NoLineLost
<1>2. ASSUME UNCHANGED <<links, last>>, phase' = "run" \/ phase' = phase
      PROVE  RunInv'
  <2>1. Listed' = Listed
    BY <1>2 DEF Listed, Walk, links
  <2> QED BY <1>2, <2>1 DEF RunInv, RunsWhatWasTyped, NoLineLost
<1>3. CASE StartShell
  BY <1>1, <1>3 DEF StartShell, Nothing
<1>4. CASE AddNext
  BY <1>1, <1>4 DEF AddNext, RunInv
<1>5. CASE StartLoop \/ UNCHANGED vars
  BY <1>2, <1>5 DEF StartLoop, vars, boot
<1>6. CASE NoInput
  BY <1>1, <1>6 DEF NoInput, Nothing, boot
<1>7. CASE Passed
  BY <1>1, <1>7 DEF Passed, Nothing, Did, boot
<1>8. ASSUME NEW b \in Chars, Input(b) PROVE RunInv'
  <2>0. line \in Lines /\ shown \in Lines /\ Shows(line, shown)
    BY DEF ShellInv, ShellTypeOK, LineIsShown, Left, Shows
  <2>1. CASE EmptyLine(b)
    <3>1. /\ last'.did = "empty" /\ last'.typed = shown /\ phase' = "run" /\ IsEmpty
      BY <2>1 DEF EmptyLine, Did, Nothing, boot
    <3>2. ArgsOf(shown, MaxArgs) = <<>>
      BY <3>1, EmptyLost
    <3> QED BY <3>1, <3>2 DEF RunInv, RunsWhatWasTyped, NoLineLost
  <2>2. CASE Quit(b)
    <3>1. last' = Did("quit") /\ phase' = IF arg' < 0 THEN "exit" ELSE "run"
      BY <2>2 DEF Quit
    <3>2. last'.did = "quit"
      BY <3>1 DEF Did, Nothing
    <3>3. phase' \in {"exit", "run"}
      BY <3>1, Zenon
    <3> QED BY <1>1, <3>2, <3>3
  <2>3. CASE EraseChar(b) \/ AddChar(b)
    <3>1. last' = Nothing /\ phase = "run" /\ UNCHANGED boot
      BY <2>3 DEF EraseChar, AddChar, Edits
    <3> QED BY <1>1, <3>1 DEF Nothing, boot
  <2>4. CASE EndLine(b)
    BY <2>0, <2>4, ProcessRuns DEF EndLine, Edits
  <2>5. CASE FillLine(b)
    <3>1. /\ Append(line, b) \in Lines /\ Append(shown, b) \in Lines
          /\ Shows(Append(line, b), Append(shown, b))
      BY <2>0, ShowsAppend DEF Lines
    <3> QED BY <2>5, <3>1, ProcessRuns DEF FillLine, Edits
  <2> QED BY <1>8, <2>1, <2>2, <2>3, <2>4, <2>5 DEF Input
<1> QED BY <1>3, <1>4, <1>5, <1>6, <1>7, <1>8, LowerChar DEF ShellNext

(* It always holds.                                                         *)
LEMMA RunInvAlways == ShellSpec => []RunInv
<1>1. ShellInit => RunInv
  BY DEF ShellInit, RunInv, RunsWhatWasTyped, NoLineLost, Nothing
<1> QED BY <1>1, RunInvNext, ShellInvAlways, PTL DEF ShellSpec

(* RunsWhatWasTyped: what return makes of a line, whatever was typed and
   erased before, is what the words on the screen say (shell.c:494-534).    *)
THEOREM TypedRuns == ShellSpec => []RunsWhatWasTyped
<1>1. RunInv => RunsWhatWasTyped
  BY DEF RunInv
<1> QED BY <1>1, RunInvAlways, PTL

(* NoLineLost: only a line without arguments on the screen is dropped.      *)
THEOREM NoneLost == ShellSpec => []NoLineLost
<1>1. RunInv => NoLineLost
  BY DEF RunInv
<1> QED BY <1>1, RunInvAlways, PTL
=============================================================================
