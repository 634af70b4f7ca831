------------------------- MODULE PackageSigner_proofs ------------------------
(* Proofs about PackageSigner, for words of any size: block sizes are powers  *)
(* of two, and what is written is the package that was asked for.             *)
EXTENDS PackageSigner, FoldLemmas

(* The power of two that sets have: one more element doubles the subsets.     *)
LEMMA PowerStep ==
  ASSUME NEW n \in Nat
  PROVE  2 ^ n \in Nat /\ 2 ^ n > 0 /\ 2 ^ (n + 1) = 2 * (2 ^ n)
<1> DEFINE S == 1 .. n
           x == n + 1
           A == SUBSET S
           B == {T \cup {x} : T \in A}
<1>1. IsFiniteSet(S) /\ Cardinality(S) = n /\ x \notin S
  BY FS_Interval
<1>2. IsFiniteSet(S \cup {x}) /\ Cardinality(S \cup {x}) = n + 1
  BY <1>1, FS_AddElement
<1>3. /\ IsFiniteSet(A) /\ Cardinality(A) = 2 ^ n
      /\ Cardinality(SUBSET (S \cup {x})) = 2 ^ (n + 1)
  BY <1>1, <1>2, FS_SUBSET
<1> HIDE DEF x, S
<1>4. Cardinality(A) \in Nat /\ Cardinality(A) # 0
  <2>1. A # {}
    OBVIOUS
  <2> QED BY <1>3, <2>1, FS_CardinalityType, FS_EmptySet
<1>5. IsFiniteSet(B) /\ Cardinality(B) = Cardinality(A)
  <2> DEFINE f == [T \in A |-> T \cup {x}]
  <2>1. f \in [A -> B]
    OBVIOUS
  <2>2. \A T, U \in A : f[T] = f[U] => T = U
    BY <1>1
  <2>3. \A U \in B : \E T \in A : f[T] = U
    OBVIOUS
  <2> HIDE DEF f, A, B
  <2>4. f \in Bijection(A, B)
    BY <2>1, <2>2, <2>3 DEF Bijection, Injection, Surjection, IsInjective
  <2> QED BY <1>3, <2>4, FS_Bijection DEF ExistsBijection
<1>6. A \cap B = {} /\ A \cup B = SUBSET (S \cup {x})
  <2>1. A \cap B = {}
    BY <1>1
  <2>2. A \cup B \subseteq SUBSET (S \cup {x})
    OBVIOUS
  <2>3. ASSUME NEW U \in SUBSET (S \cup {x}) PROVE U \in A \cup B
    <3>1. CASE x \notin U
      BY <3>1
    <3>2. CASE x \in U
      <4>1. U \ {x} \in A /\ U = (U \ {x}) \cup {x}
        BY <3>2
      <4> QED BY <4>1
    <3> QED BY <3>1, <3>2
  <2> QED BY <2>1, <2>2, <2>3
<1>7. Cardinality(A \cup B) = Cardinality(A) + Cardinality(B) - Cardinality(A \cap B)
  BY <1>3, <1>5, FS_Union
<1> DEFINE c == Cardinality(A)
           d == 2 ^ (n + 1)
           e == 2 ^ n
<1>8. d = c + c - 0 /\ c = e /\ c \in Nat /\ c # 0
  BY <1>3, <1>4, <1>5, <1>6, <1>7, FS_EmptySet
<1> HIDE DEF c, d, e
<1>9. e \in Nat /\ e > 0 /\ d = 2 * e
  BY <1>8
<1> QED BY <1>9 DEF d, e

(* Division by a number is what is left of it, whatever the number.           *)
LEMMA Quotient ==
  ASSUME NEW m \in Nat, m > 0, NEW q \in Nat, NEW s \in Nat, s < m
  PROVE  (q * m + s) \div m = q /\ (q * m + s) % m = s
<1> DEFINE n == q * m + s
           a == n \div m
           b == n % m
<1>1. n \in Nat /\ a \in Int /\ b \in Int /\ 0 <= b /\ b < m /\ n = a * m + b
  OBVIOUS
<1> HIDE DEF n, a, b
<1>2. q * m + s = a * m + b
  BY <1>1 DEF n
<1>3. a = q
  <2>1. ASSUME a > q PROVE FALSE
    <3>1. (a - q) * m = s - b
      BY <1>1, <1>2
    <3>2. (a - q) * m >= m
      BY <1>1, <2>1
    <3> QED BY <1>1, <3>1, <3>2
  <2>2. ASSUME a < q PROVE FALSE
    <3>1. (q - a) * m = b - s
      BY <1>1, <1>2
    <3>2. (q - a) * m >= m
      BY <1>1, <2>2
    <3> QED BY <1>1, <3>1, <3>2
  <2> QED BY <1>1, <2>1, <2>2
<1>4. b = s
  BY <1>1, <1>2, <1>3
<1> QED BY <1>3, <1>4 DEF n, a, b

(* Words.                                                                     *)
LEMMA WordType == Word \in Nat /\ Word > 0
BY SignerAssumption, PowerStep DEF Word

(* Rounding up, to a size that is a word and not less than what it is for.    *)
LEMMA RoundedUp ==
  ASSUME NEW n \in Nat, NEW b \in Nat, b > 0, b < Word, n <= RoundUp(n, b)
  PROVE  /\ RoundUp(n, b) \in n .. n + b - 1 /\ RoundUp(n, b) % b = 0
<1> DEFINE m == n + b - 1
           q == m \div b
           s == m % b
<1>1. m \in Nat
  OBVIOUS
<1> HIDE DEF m
<1>2. q \in Nat /\ s \in Nat /\ s < b /\ m = q * b + s
  BY <1>1
<1> HIDE DEF q, s
<1>3. q * b \in Nat /\ (q * b + 0) % b = 0
  BY <1>2, Quotient
<1>4. RoundUp(n, b) = (q * b) % Word
  BY DEF RoundUp, q, m
<1> DEFINE r == q * b
<1>5. r \in Nat /\ m = r + s /\ r % b = 0
  BY <1>2, <1>3
<1> HIDE DEF r
<1>6. r \in n .. n + b - 1
  BY <1>2, <1>5 DEF m
<1>7. r % Word = r
  <2> DEFINE W == Word
             t == r \div W
             u == r % W
  <2>1. W \in Nat /\ W > 0
    BY WordType
  <2> HIDE DEF W
  <2>2. t \in Nat /\ u \in Nat /\ r = t * W + u
    BY <1>5, <2>1
  <2>3. u >= n /\ b < W
    BY <1>4 DEF r, W
  <2> HIDE DEF t, u
  <2>4. t = 0
    <3> SUFFICES ASSUME t >= 1 PROVE FALSE
      BY <2>2
    <3>1. t * W >= W
      BY <2>1, <2>2
    <3>2. r >= W + n
      BY <2>1, <2>2, <2>3, <3>1
    <3> QED BY <1>6, <2>1, <2>3, <3>2
  <2> QED BY <2>1, <2>2, <2>4 DEF u, W
<1> QED BY <1>4, <1>5, <1>6, <1>7 DEF r

(* What is left of a number without its low bits, bit after bit.              *)
LEMMA BitStep ==
  ASSUME NEW n \in Nat, NEW j \in Nat
  PROVE  /\ n \div 2 ^ j \in Nat /\ n \div 2 ^ (j + 1) \in Nat
         /\ n \div 2 ^ j = 2 * (n \div 2 ^ (j + 1)) + ((n \div 2 ^ j) % 2)
<1> DEFINE m == 2 ^ j
           mm == 2 ^ (j + 1)
           a == n \div m
           b == n % m
           p == a \div 2
           e == a % 2
<1>1. m \in Nat /\ m > 0 /\ mm = 2 * m
  BY PowerStep
<1> HIDE DEF m, mm
<1>2. a \in Nat /\ b \in Nat /\ b < m /\ n = a * m + b
  BY <1>1
<1> HIDE DEF a, b
<1>3. p \in Nat /\ e \in {0, 1} /\ a = 2 * p + e
  BY <1>2
<1> HIDE DEF p, e
<1>4. n = p * mm + (e * m + b)
  <2>1. CASE e = 0
    BY <1>1, <1>2, <1>3, <2>1
  <2>2. CASE e = 1
    BY <1>1, <1>2, <1>3, <2>2
  <2> QED BY <1>3, <2>1, <2>2
<1> DEFINE s == e * m + b
<1>5. s \in Nat /\ s < mm /\ mm \in Nat /\ mm > 0
  BY <1>1, <1>2, <1>3
<1> HIDE DEF s
<1>6. (p * mm + s) \div mm = p
  BY <1>3, <1>5, Quotient
<1>7. n \div mm = p
  BY <1>4, <1>6 DEF s
<1> QED BY <1>2, <1>3, <1>7 DEF mm, m, a, e

(* A word with a single bit is a power of two.                                *)
LEMMA OneBit ==
  ASSUME NEW n \in Nat, n < Word, Cardinality(BitsOf(n)) = 1
  PROVE  \E k \in 0 .. Bits - 1 : n = 2 ^ k
<1> DEFINE r == [j \in 0 .. Bits |-> n \div 2 ^ j]
<1>0. Bits \in Nat /\ Bits > 0
  BY SignerAssumption
<1>1. PICK k : BitsOf(n) = {k}
  <2>1. BitsOf(n) \subseteq 0 .. Bits - 1
    BY DEF BitsOf
  <2>2. IsFiniteSet(0 .. Bits - 1)
    BY <1>0, FS_Interval
  <2>3. IsFiniteSet(BitsOf(n))
    BY <2>1, <2>2, FS_Subset
  <2> QED BY <2>3, FS_Singleton
<1>2. k \in 0 .. Bits - 1 /\ \A j \in 0 .. Bits - 1 : (n \div 2 ^ j) % 2 = 1 <=> j = k
  BY <1>1 DEF BitsOf
<1>3. ASSUME NEW j \in 0 .. Bits - 1
      PROVE  r[j] \in Nat /\ r[j + 1] \in Nat /\ r[j] = 2 * r[j + 1] + (IF j = k THEN 1 ELSE 0)
  <2> DEFINE a == n \div 2 ^ j
             b == n \div 2 ^ (j + 1)
  <2>1. a \in Nat /\ b \in Nat /\ a = 2 * b + (a % 2)
    BY BitStep
  <2>2. a % 2 = 1 <=> j = k
    BY <1>2
  <2>3. r[j] = a /\ r[j + 1] = b
    BY <1>0
  <2> HIDE DEF a, b, r
  <2>4. a % 2 \in {0, 1}
    BY <2>1
  <2> QED BY <2>1, <2>2, <2>3, <2>4
<1>4. r[0] = n
  <2>1. r[0] = n \div 2 ^ 0
    BY <1>0
  <2>2. 2 ^ 0 = 1
    OBVIOUS
  <2> QED BY <2>1, <2>2
<1>5. r[Bits] = 0
  <2>1. r[Bits] = n \div Word
    BY <1>0 DEF Word
  <2>2. Word \in Nat /\ Word > 0
    BY <1>0, PowerStep DEF Word
  <2>3. (0 * Word + n) \div Word = 0
    BY <2>2, Quotient
  <2> QED BY <2>1, <2>2, <2>3
<1> HIDE DEF r
<1>6. r[k + 1] = 0
  <2> DEFINE m == Bits - k - 1
             T == {i \in 0 .. m : r[Bits - i] = 0}
  <2>1. m \in Nat /\ Bits - m = k + 1
    BY <1>0, <1>2
  <2>2. 0 \in T
    <3>1. Bits - 0 = Bits /\ 0 \in 0 .. m
      BY <1>0, <2>1
    <3> QED BY <1>5, <3>1
  <2>3. ASSUME NEW i \in 0 .. m - 1, i \in T PROVE i + 1 \in T
    <3> DEFINE j == Bits - (i + 1)
    <3>1. j \in 0 .. Bits - 1 /\ j + 1 = Bits - i /\ j # k /\ i + 1 \in 0 .. m
      BY <1>0, <1>2
    <3>2. r[j + 1] = 0
      BY <2>3, <3>1
    <3> HIDE DEF j
    <3>3. r[j] = 0
      BY <1>3, <3>1, <3>2
    <3> QED BY <3>1, <3>3 DEF j
  <2>4. m \in T
    <3>1. m \in 0 .. m
      BY <2>1
    <3> HIDE DEF T, m
    <3> QED BY <2>1, <2>2, <2>3, <3>1, SetInduction
  <2> QED BY <2>1, <2>4
<1>7. r[0] = 2 ^ k
  <2> DEFINE T == {i \in 0 .. k : r[k - i] = 2 ^ i}
  <2>1. 0 \in T
    <3>1. k - 0 = k /\ 0 \in 0 .. k /\ 2 ^ 0 = 1
      BY <1>2
    <3>2. r[k] = 1
      BY <1>2, <1>3, <1>6
    <3> QED BY <3>1, <3>2
  <2>2. ASSUME NEW i \in 0 .. k - 1, i \in T PROVE i + 1 \in T
    <3> DEFINE j == k - (i + 1)
    <3>1. j \in 0 .. Bits - 1 /\ j + 1 = k - i /\ j # k /\ i + 1 \in 0 .. k /\ i \in Nat
      BY <1>0, <1>2
    <3>2. r[j + 1] = 2 ^ i
      BY <2>2, <3>1
    <3>3. 2 ^ (i + 1) = 2 * (2 ^ i)
      BY <3>1, PowerStep
    <3> HIDE DEF j
    <3>4. r[j] = 2 * r[j + 1]
      BY <1>3, <3>1
    <3> QED BY <3>1, <3>2, <3>3, <3>4 DEF j
  <2>3. k \in T
    <3>1. k \in 0 .. k /\ k \in Nat
      BY <1>2
    <3> HIDE DEF T
    <3> QED BY <2>1, <2>2, <3>1, SetInduction
  <2>4. k - k = 0
    BY <1>2
  <2> QED BY <2>3, <2>4
<1> QED BY <1>2, <1>4, <1>7

(* A block size that is taken is a power of two, and a word.                  *)
IsBlock(b) == b < Word /\ \E k \in 0 .. Bits - 1 : b = 2 ^ k

LEMMA BlockTaken ==
  ASSUME NEW a, a.num \in Nat, get_block_size(a) # Hangs
  PROVE  IsBlock(get_block_size(a))
<1> DEFINE size == InBytes(a)
<1>1. Word \in Nat /\ Word > 0
  BY WordType
<1>2. IsBlock(Default.block)
  BY SignerAssumption DEF IsBlock, Default
<1>3. size \in Nat /\ size < Word
  <2> DEFINE u == a.num * Unit(a)
  <2>1. Unit(a) \in Nat
    BY SignerAssumption DEF Unit
  <2>2. u \in Nat
    BY <2>1
  <2> HIDE DEF u
  <2>3. u % Word \in Nat /\ u % Word < Word
    BY <1>1, <2>2
  <2> QED BY <2>3 DEF InBytes, u
<1> HIDE DEF size
<1>4. CASE get_block_size(a) = Default.block
  BY <1>2, <1>4
<1>5. CASE get_block_size(a) = size /\ Cardinality(BitsOf(size)) = 1
  BY <1>3, <1>5, OneBit DEF IsBlock
<1> QED BY <1>4, <1>5 DEF get_block_size, check_block_size, size

-----------------------------------------------------------------------------
(* What stands in the buffer: the image, then the filling; and, once it is
   signed, the signature at the end.                                          *)
Byte == {"image", "fill", "unset", "sig"} \X Nat
Size == RoundUp(Len(image), par.block)
Filled(i) == IF i > Len(image) THEN Padding(Size) ELSE <<"image", image[i]>>

Loaded ==
  /\ file_buf \in Seq(Byte) /\ Len(file_buf) = Size /\ Len(image) <= Size
  /\ \A i \in 1 .. Size : file_buf[i] = Filled(i)

Signed ==
  /\ file_buf \in Seq(Byte) /\ Len(file_buf) = Size /\ Len(image) <= Size /\ Size >= Sig
  /\ \A i \in 1 .. Size : file_buf[i] = IF i > Size - Sig THEN <<"sig", 0>> ELSE Filled(i)
  /\ fbs.image_cksum = Total(SubSeq(file_buf, 1, Size - Sig))

(* The output begins with the buffer; behind it is what the file held.         *)
Written ==
  /\ Size < Word \div 2 /\ Size <= Len(Output) /\ Len(Output) \in Nat
  /\ \A i \in 1 .. Size : Output[i] = file_buf[i]
  /\ SubSeq(Output, 1, Size - Sig) = SubSeq(file_buf, 1, Size - Sig)
  /\ \A i \in Size + 1 .. Len(Output) : Output[i][1] = "old"

SignerInv ==
  /\ "block" \in DOMAIN par /\ IsBlock(par.block)
  /\ image \in Seq(Nat)
  /\ pc \in {"options", "load", "sign", "write"} => outfile \in Old
  /\ pc = "sign" => Loaded
  /\ pc \in {"write", "done"} => Signed
  /\ pc = "done" => Written

(* The size of a package.                                                     *)
LEMMA SizeIs ==
  ASSUME SignerInv, Len(image) <= Size
  PROVE  /\ Size \in Len(image) .. Len(image) + par.block - 1 /\ Size % par.block = 0
         /\ Len(image) \in Nat /\ par.block \in Nat /\ Size \in Nat
<1>1. par.block \in Nat /\ par.block > 0 /\ par.block < Word
  BY PowerStep DEF SignerInv, IsBlock
<1>2. Len(image) \in Nat
  BY DEF SignerInv
<1> DEFINE n == Len(image)
           b == par.block
           m == RoundUp(n, b)
<1>0. n <= m
  BY DEF Size
<1> HIDE DEF n, b
<1>3. m \in n .. n + b - 1 /\ m % b = 0
  BY <1>0, <1>1, <1>2, RoundedUp DEF n, b
<1> HIDE DEF m
<1>4. m \in Nat
  BY <1>2, <1>3 DEF n
<1> QED BY <1>1, <1>2, <1>3, <1>4 DEF Size, m, n, b

(* One sequence after another.                                                *)
Joins(c, f, g, S) ==
  /\ c \in Seq(S) /\ Len(c) = Len(f) + Len(g)
  /\ \A i \in 1 .. Len(f) : c[i] = f[i]
  /\ \A i \in 1 .. Len(g) : c[Len(f) + i] = g[i]

LEMMA Joined ==
  ASSUME NEW S, NEW f \in Seq(S), NEW g \in Seq(S)
  PROVE  Joins(f \o g, f, g, S)
BY DEF Joins

(* Until the image is loaded, there is nothing else to keep.                  *)
LEMMA OptionKeeps ==
  ASSUME SignerInv, pc = "options", pc' \in {"options", "hung", "failed", "load"},
         UNCHANGED outfile, image' = image \/ image' \in Images,
         "block" \in DOMAIN par', IsBlock(par'.block)
  PROVE  SignerInv'
<1>1. image' \in Seq(Nat) /\ outfile' \in Old
  BY SignerAssumption DEF SignerInv
<1>2. IsBlock(par.block)'
  BY DEF IsBlock
<1> QED BY <1>1, <1>2 DEF SignerInv

(* An option that sets a number; a block size that hangs is not set.          *)
LEMMA SetKeeps ==
  ASSUME SignerInv, NEW o \in Options, Option(o)
  PROVE  SignerInv'
<1>1. pc = "options" /\ UNCHANGED <<image, outfile>>
  BY DEF Option, Take, Set, SetNumber, Same
<1>2. ASSUME NEW field, NEW v, Set(field, v) \/ SetNumber(field, v),
             field = "block" => v = Hangs \/ IsBlock(v),
             field = "block" => Set(field, v)
      PROVE  pc' \in {"options", "hung"} /\ "block" \in DOMAIN par' /\ IsBlock(par'.block)
  <2>1. pc' \in {"options", "hung"}
    BY <1>1, <1>2 DEF Set, SetNumber
  <2>2. CASE UNCHANGED par
    BY <2>1, <2>2 DEF SignerInv
  <2>3. CASE par' = [par EXCEPT ![field] = v] /\ (field = "block" => IsBlock(v))
    <3>1. "block" \in DOMAIN par' /\ par'.block = IF field = "block" THEN v ELSE par.block
      BY <2>3 DEF SignerInv
    <3> QED BY <2>1, <2>3, <3>1 DEF SignerInv
  <2> QED BY <1>2, <2>2, <2>3 DEF Set, SetNumber
<1>3. pc' \in {"options", "hung"} /\ "block" \in DOMAIN par' /\ IsBlock(par'.block)
  <2>1. CASE o.opt = "b" /\ Set("block", get_block_size(o.arg))
    <3>1. get_block_size(o.arg) = Hangs \/ IsBlock(get_block_size(o.arg))
      BY <2>1, BlockTaken, SignerAssumption
    <3> QED BY <1>2, <2>1, <3>1
  <2>2. CASE Set("version", get_version(o.arg))
    BY <1>2, <2>2
  <2>3. CASE SetNumber("magic", get_magic_num(o.arg))
    BY <1>2, <2>3
  <2>4. CASE SetNumber("load", get_address(o.arg)) \/ SetNumber("entry", get_address(o.arg))
    BY <1>2, <2>4
  <2>5. CASE UNCHANGED <<pc, par>>
    BY <1>1, <2>5 DEF SignerInv
  <2> QED BY <2>1, <2>2, <2>3, <2>4, <2>5 DEF Option
<1> QED BY <1>1, <1>3, OptionKeeps

(* The other options, and the end of them.                                    *)
LEMMA OptionsKeep ==
  ASSUME SignerInv,
         \/ \E o \in Options : OutputOption(o) \/ BadOption(o) \/ InputFile(o)
         \/ OptionsDone
  PROVE  SignerInv'
<1>1. /\ pc = "options" /\ pc' \in {"options", "failed", "load"} /\ UNCHANGED <<outfile, par>>
      /\ image' = image \/ image' \in Images
  <2>1. CASE \E o \in Options : OutputOption(o)
    BY <2>1 DEF OutputOption, Take, Same
  <2>2. CASE \E o \in Options : BadOption(o)
    BY <2>2 DEF BadOption, Take, Exit, Same
  <2>3. CASE \E o \in Options : InputFile(o)
    BY <2>3 DEF InputFile, Take, Exit, Same
  <2>4. CASE OptionsDone
    BY <2>4 DEF OptionsDone, Exit, Same
  <2> QED BY <2>1, <2>2, <2>3, <2>4
<1> QED BY <1>1, OptionKeeps DEF SignerInv

(* The image and the filling, one after the other.                            *)
LEMMA LoadKeeps == ASSUME SignerInv, Load PROVE SignerInv'
<1> DEFINE n == Len(image)
           b == [i \in 1 .. Size - n |-> Padding(Size)]
           a == Bytes("image", image)
<1>1. pc = "load" /\ UNCHANGED <<par, image, outfile>>
  BY DEF Load
<1>3. CASE pc' \in {"failed", "fault"}
  BY <1>1, <1>3 DEF SignerInv, IsBlock
<1>4. CASE pc' = "sign" /\ n <= Size /\ file_buf' = a \o b
  <2>0. /\ n \in Nat /\ Size \in Nat /\ n <= Size
        /\ image \in Seq(Nat)
    BY <1>4, SizeIs DEF SignerInv
  <2> DEFINE k == Size - n
  <2>1. k \in Nat /\ b = [i \in 1 .. k |-> Padding(Size)] /\ n + k = Size
    BY <2>0
  <2>2. a \in Seq(Byte) /\ Len(a) = n /\ \A i \in 1 .. n : a[i] = <<"image", image[i]>>
    <3>1. a = [i \in 1 .. n |-> <<"image", image[i]>>]
      BY <2>0 DEF Bytes
    <3>2. \A i \in 1 .. n : <<"image", image[i]>> \in Byte
      BY <2>0 DEF Byte
    <3> HIDE DEF a, n
    <3> QED BY <2>0, <3>1, <3>2
  <2>3. b \in Seq(Byte) /\ Len(b) = k /\ \A i \in 1 .. k : b[i] = Padding(Size)
    <3>1. Padding(Size) \in Byte
      BY DEF Byte, Padding
    <3> HIDE DEF b, k
    <3> QED BY <2>1, <3>1
  <2> HIDE DEF a, b, k, n
  <2> DEFINE c == a \o b
  <2>4. /\ c \in Seq(Byte) /\ Len(c) = n + k
        /\ \A i \in 1 .. n : c[i] = a[i]
        /\ \A i \in 1 .. k : c[n + i] = b[i]
    <3>1. Joins(c, a, b, Byte)
      BY <2>2, <2>3, Joined
    <3> HIDE DEF c
    <3> QED BY <2>2, <2>3, <3>1 DEF Joins
  <2> HIDE DEF c
  <2>5. ASSUME NEW i \in 1 .. Size PROVE c[i] = Filled(i)
    <3>1. CASE i <= n
      <4>1. i \in 1 .. n /\ ~ (i > n) /\ i \in 1 .. n + k
        BY <2>0, <2>1, <3>1
      <4> QED BY <2>2, <2>4, <4>1, <3>1 DEF Filled, n
    <3>2. CASE ~ (i <= n)
      <4>1. i - n \in 1 .. k /\ i > n /\ n + (i - n) = i
        BY <2>0, <2>1, <3>2
      <4> QED BY <2>3, <2>4, <4>1, <3>2 DEF Filled, n
    <3> QED BY <3>1, <3>2
  <2>6. file_buf' = c /\ Size' = Size /\ \A i : Filled(i)' = Filled(i)
    BY <1>1, <1>4 DEF c, Size, Filled
  <2>7. Loaded'
    <3>1. Len(image)' = n /\ n <= Size
      BY <1>1, <2>0 DEF n
    <3> QED BY <2>1, <2>4, <2>5, <2>6, <3>1 DEF Loaded
  <2>8. IsBlock(par.block)'
    BY <1>1 DEF SignerInv, IsBlock
  <2> QED BY <1>1, <1>4, <2>7, <2>8 DEF SignerInv
<1> QED BY <1>3, <1>4 DEF Load, Size

(* The signature in place of the last bytes.                                  *)
LEMMA SignKeeps == ASSUME SignerInv, Sign PROVE SignerInv'
<1> DEFINE room == Size - Sig
           a == SubSeq(file_buf, 1, room)
           zeros == [j \in 1 .. Sig |-> 0]
           b == Bytes("sig", zeros)
<1>1. pc = "sign" /\ UNCHANGED <<par, image, outfile>> /\ Loaded
  BY DEF Sign, SignerInv
<1>2. /\ Size \in Nat /\ Len(file_buf) = Size /\ Len(image) <= Size
      /\ Sig \in Nat /\ file_buf \in Seq(Byte)
  BY <1>1, SizeIs, SignerAssumption DEF Loaded
<1>3. IsBlock(par.block)'
  BY <1>1 DEF SignerInv, IsBlock
<1>4. CASE pc' = "fault"
  BY <1>1, <1>3, <1>4 DEF SignerInv
<1>5. CASE /\ Size >= Sig /\ pc' = "write"
           /\ fbs'.image_cksum = Total(a) /\ file_buf' = a \o b
  <2>1. room \in Nat /\ room <= Size /\ room + Sig = Size
    BY <1>2, <1>5
  <2> HIDE DEF room
  <2>2. a \in Seq(Byte) /\ Len(a) = room /\ \A i \in 1 .. room : a[i] = file_buf[i]
    BY <1>2, <2>1
  <2>3. b \in Seq(Byte) /\ Len(b) = Sig /\ \A i \in 1 .. Sig : b[i] = <<"sig", 0>>
    <3>1. DOMAIN zeros = 1 .. Sig /\ \A i \in 1 .. Sig : zeros[i] = 0
      OBVIOUS
    <3> HIDE DEF zeros
    <3>2. b = [i \in 1 .. Sig |-> <<"sig", 0>>]
      BY <3>1 DEF Bytes
    <3>3. <<"sig", 0>> \in Byte
      BY DEF Byte
    <3> HIDE DEF b
    <3> QED BY <1>2, <3>2, <3>3
  <2> HIDE DEF a, b, zeros
  <2> DEFINE c == a \o b
  <2>4. /\ c \in Seq(Byte) /\ Len(c) = Size
        /\ \A i \in 1 .. room : c[i] = a[i]
        /\ \A i \in 1 .. Sig : c[room + i] = b[i]
    <3>1. Joins(c, a, b, Byte)
      BY <2>2, <2>3, Joined
    <3> HIDE DEF c
    <3> QED BY <2>1, <2>2, <2>3, <3>1 DEF Joins
  <2> HIDE DEF c
  <2>5. ASSUME NEW i \in 1 .. Size
        PROVE  c[i] = IF i > room THEN <<"sig", 0>> ELSE Filled(i)
    <3>1. CASE i <= room
      <4>1. i \in 1 .. room /\ ~ (i > room)
        BY <1>2, <2>1, <3>1
      <4>2. file_buf[i] = Filled(i)
        BY <1>1 DEF Loaded
      <4> QED BY <2>2, <2>4, <3>1, <4>1, <4>2
    <3>2. CASE ~ (i <= room)
      <4>1. i - room \in 1 .. Sig /\ i > room /\ room + (i - room) = i
        BY <1>2, <2>1, <3>2
      <4> QED BY <2>3, <2>4, <3>2, <4>1
    <3> QED BY <3>1, <3>2
  <2>6. SubSeq(c, 1, room) = a
    <3>1. SubSeq(c, 1, room) = [i \in 1 .. room |-> c[i]]
      BY <2>1, <2>4
    <3>2. \A i \in 1 .. room : c[i] = a[i]
      BY <1>2, <2>1, <2>4
    <3>3. a = [i \in 1 .. room |-> a[i]]
      BY <2>2
    <3> QED BY <3>1, <3>2, <3>3
  <2>7. file_buf' = c /\ Size' = Size /\ \A i : Filled(i)' = Filled(i)
    BY <1>1, <1>5 DEF c, Size, Filled
  <2>8. Signed'
    BY <1>1, <1>2, <1>5, <2>4, <2>5, <2>6, <2>7 DEF Signed, room
  <2> QED BY <1>1, <1>3, <1>5, <2>8 DEF SignerInv
<1>6. \/ pc' = "fault"
      \/ /\ ~ (Len(file_buf) < Sig) /\ pc' = "write"
         /\ fbs'.image_cksum = Total(SubSeq(file_buf, 1, Len(file_buf) - Sig))
         /\ file_buf' = SubSeq(file_buf, 1, Len(file_buf) - Sig) \o b
  <2>1. CASE Len(file_buf) < Sig
    BY <2>1 DEF Sign
  <2>2. CASE ~ (Len(file_buf) < Sig)
    <3>1. /\ pc' = "write"
          /\ fbs' = [magic |-> par.magic, length |-> Len(image), version |-> par.version,
                     image_cksum |-> Total(SubSeq(file_buf, 1, Len(file_buf) - Sig)),
                     load_addr |-> par.load, entry_point |-> par.entry]
          /\ file_buf' = SubSeq(file_buf, 1, Len(file_buf) - Sig) \o b
      BY <2>2, Zenon DEF Sign
    <3> HIDE DEF b
    <3> QED BY <2>2, <3>1
  <2> QED BY <2>1, <2>2
<1> HIDE DEF b
<1>7. ~ (Len(file_buf) < Sig) => Size >= Sig
  BY <1>2
<1>8. Len(file_buf) - Sig = room
  BY <1>2
<1> HIDE DEF room
<1> QED BY <1>4, <1>5, <1>6, <1>7, <1>8

(* What is written is the buffer.                                             *)
LEMMA WriteKeeps == ASSUME SignerInv, Write PROVE SignerInv'
<1> DEFINE n == Len(file_buf)
<1>1. /\ pc = "write" /\ UNCHANGED <<par, image, out_fd, file_buf, fbs>>
      /\ Signed /\ outfile \in Old
  BY DEF Write, SignerInv
<1>2. IsBlock(par.block)'
  BY <1>1 DEF SignerInv, IsBlock
<1>3. Signed'
  <2>1. Size' = Size /\ \A i : Filled(i)' = Filled(i)
    BY <1>1 DEF Size, Filled
  <2> QED BY <1>1, <2>1 DEF Signed
<1>4. CASE pc' = "failed"
  BY <1>1, <1>2, <1>4 DEF SignerInv
<1>5. CASE pc' = "done" /\ n <= Transfer /\ WriteOut(n)
  <2> DEFINE Old1 == {"old"} \X Nat
             U == Byte \cup Old1
             f == file_buf
             g == SubSeq(outfile, n + 1, Len(outfile))
             room == Size - Sig
  <2>1. f \in Seq(Byte) /\ f \in Seq(U) /\ n \in Nat /\ n = Size /\ outfile \in Seq(Old1)
    BY <1>1, SignerAssumption DEF Signed
  <2>2. SubSeq(f, 1, n) = f
    <3>1. SubSeq(f, 1, n) = [i \in 1 .. n |-> f[i]]
      BY <2>1
    <3>2. f = [i \in 1 .. n |-> f[i]]
      BY <2>1
    <3> QED BY <3>1, <3>2
  <2>3. Size < Word \div 2
    <3> DEFINE h == Word \div 2
    <3>1. h \in Nat
      BY WordType
    <3> HIDE DEF h
    <3>2. Transfer \in Nat /\ Transfer < h
      BY SignerAssumption DEF h
    <3>3. Size < h
      BY <1>5, <2>1, <3>1, <3>2
    <3> QED BY <3>3 DEF h
  <2>4. room \in Nat /\ room <= n
    BY <1>1, <2>1, SignerAssumption DEF Signed
  <2> HIDE DEF room
  <2>5. CASE out_fd = "stdout"
    <3>1. Output' = f
      BY <1>1, <1>5, <2>2, <2>5 DEF WriteOut, Output
    <3>2. Written'
      BY <1>1, <2>1, <2>3, <2>4, <3>1 DEF Written, Size
    <3> QED BY <1>1, <1>2, <1>3, <1>5, <3>2 DEF SignerInv
  <2>6. CASE out_fd # "stdout"
    <3> DEFINE c == f \o g
    <3>1. Output' = c
      BY <1>1, <1>5, <2>2, <2>6 DEF WriteOut, Over, Output
    <3>2. g \in Seq(Old1)
      BY <2>1
    <3>3. g \in Seq(U)
      BY <3>2
    <3>4. Joins(c, f, g, U)
      BY <2>1, <3>3, Joined
    <3> HIDE DEF c, g, Old1
    <3>5. /\ c \in Seq(U) /\ Len(c) \in Nat /\ n <= Len(c)
          /\ \A i \in 1 .. n : c[i] = f[i]
      BY <2>1, <3>3, <3>4 DEF Joins
    <3>6. \A i \in n + 1 .. Len(c) : c[i][1] = "old"
      <4> SUFFICES ASSUME NEW i \in n + 1 .. Len(c) PROVE c[i][1] = "old"
        OBVIOUS
      <4>1. i - n \in 1 .. Len(g) /\ n + (i - n) = i
        BY <2>1, <3>3, <3>4 DEF Joins
      <4>2. c[i] = g[i - n]
        BY <3>4, <4>1 DEF Joins
      <4>3. g[i - n] \in Old1
        BY <3>2, <4>1
      <4> QED BY <4>2, <4>3 DEF Old1
    <3>7. SubSeq(c, 1, room) = SubSeq(f, 1, room)
      <4>1. SubSeq(c, 1, room) = [i \in 1 .. room |-> c[i]]
        BY <2>1, <2>4, <3>5
      <4>2. SubSeq(f, 1, room) = [i \in 1 .. room |-> f[i]]
        BY <2>1, <2>4
      <4>3. \A i \in 1 .. room : c[i] = f[i]
        BY <2>1, <2>4, <3>5
      <4> QED BY <4>1, <4>2, <4>3
    <3>8. Size' = Size /\ file_buf' = f /\ (Size - Sig)' = room
      BY <1>1 DEF Size, room
    <3>9. Written'
      BY <2>1, <2>3, <3>1, <3>5, <3>6, <3>7, <3>8 DEF Written
    <3> QED BY <1>1, <1>2, <1>3, <1>5, <3>9 DEF SignerInv
  <2> QED BY <2>5, <2>6
<1> QED BY <1>4, <1>5 DEF Write

(* The invariant is kept by every step.                                       *)
LEMMA SignerNext == SignerInv /\ [Next]_vars => SignerInv'
<1> SUFFICES ASSUME SignerInv, [Next]_vars PROVE SignerInv'
  OBVIOUS
<1>1. CASE UNCHANGED vars
  BY <1>1 DEF vars, SignerInv, IsBlock, Loaded, Signed, Written, Filled, Size, Output
<1> QED BY <1>1, SetKeeps, OptionsKeep, LoadKeeps, SignKeeps, WriteKeeps DEF Next

(* The invariant says what the property does.                                 *)
LEMMA SignerWhole == ASSUME SignerInv PROVE SignedWhole
<1> SUFFICES ASSUME pc = "done" PROVE SignedWhole
  BY DEF SignedWhole
<1>1. Signed /\ Written /\ Len(image) <= Size
  BY DEF SignerInv, Signed
<1>2. /\ Size \in Len(image) .. Len(image) + par.block - 1 /\ Size % par.block = 0
      /\ IsBlock(par.block) /\ Size \in Nat
  BY <1>1, SizeIs DEF SignerInv
<1>3. \A i \in 1 .. Size :
        Output[i] = IF i > Size - Sig THEN <<"sig", 0>>
                    ELSE IF i > Len(image) THEN <<"fill", 255>> ELSE <<"image", image[i]>>
  BY <1>1 DEF Signed, Written, Filled, Padding
<1>4. /\ fbs.image_cksum = Total(SubSeq(Output, 1, Size - Sig))
      /\ \A i \in Size + 1 .. Len(Output) : Output[i][1] = "old"
      /\ Size \in 0 .. Len(Output)
  <2>1. fbs.image_cksum = Total(SubSeq(file_buf, 1, Size - Sig))
    BY <1>1 DEF Signed
  <2>2. /\ SubSeq(Output, 1, Size - Sig) = SubSeq(file_buf, 1, Size - Sig)
        /\ \A i \in Size + 1 .. Len(Output) : Output[i][1] = "old"
        /\ Size <= Len(Output) /\ Len(Output) \in Nat
    BY <1>1 DEF Written
  <2>3. fbs.image_cksum = Total(SubSeq(Output, 1, Size - Sig))
    BY <2>1, <2>2, Zenon
  <2> DEFINE l == Len(Output)
  <2>4. l \in Nat /\ Size <= l
    BY <2>2
  <2> HIDE DEF l
  <2>5. Size \in 0 .. l
    BY <1>2, <2>4
  <2> QED BY <2>2, <2>3, <2>5 DEF l
<1> QED BY <1>2, <1>3, <1>4 DEF SignedWhole, IsBlock

(* SignedWhole: what has been written begins with whole blocks of a power of
   two, image, filling and signature, with the checksum of what stands before
   it, and goes on with what the file held: for any options, sizes, block and
   length of the file (package_signer.c:82, 208, 351-409).                    *)
THEOREM WholePackage == Spec => []SignedWhole
<1>1. Init => SignerInv
  <2>1. <<>> \in Seq(Nat)
    OBVIOUS
  <2>2. ASSUME Init PROVE "block" \in DOMAIN par /\ IsBlock(par.block)
    BY <2>2, SignerAssumption DEF Init, Default, IsBlock
  <2> QED BY <2>1, <2>2 DEF Init, SignerInv
<1> QED BY <1>1, SignerNext, SignerWhole, PTL DEF Spec
==============================================================================
