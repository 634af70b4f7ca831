------------------------------- MODULE Format -------------------------------
(* Numbers as text: format.c, and micro_strtol of micro_util.c.  A text is a *)
(* sequence of characters, each a string of length one.                      *)
EXTENDS Integers, Sequences, SequencesExt

CONSTANT Top   \* the words of the machine: 2^32

ASSUME TopAssumption == Top \in Nat /\ Top > 0

hexchar == <<"0", "1", "2", "3", "4", "5", "6", "7",
             "8", "9", "a", "b", "c", "d", "e", "f">>

Decimal   == {hexchar[d] : d \in 1 .. 10}
ValueOf(c) == (CHOOSE d \in 1 .. 16 : hexchar[d] = c) - 1

(* The low len digits of a number; nothing for a length that does not fit.   *)
format_x(val, len) ==
  IF len \in 1 .. 8
  THEN [i \in 1 .. len |-> hexchar[((val \div 16 ^ (len - i)) % 16) + 1]]
  ELSE <<>>

-----------------------------------------------------------------------------
(* A slip: the comparison is with power itself, which ends one too high.      *)
PowerAtMost(val) == CHOOSE k \in 0 .. 9 : val <= 10 ^ k /\ (k = 0 \/ 10 ^ (k - 1) < val)

(* format_d.  The digits are '0' + digit, and what follows '9' is ':'.  The
   power stops one short of a number that is a power of ten itself, whose
   leading "digit" is then ten.  Numbers below 10^9: above, power * 10 leaves
   the range of int32_t.                                                     *)
PowerBelow(val) ==
  CHOOSE k \in 0 .. 8 : val <= 10 ^ (k + 1) /\ (k = 0 \/ 10 ^ k < val)

Unsigned(val) ==
  LET k == PowerBelow(val)
      digit(j) == IF j = k THEN val \div 10 ^ k ELSE (val \div 10 ^ j) % 10
  IN  [i \in 1 .. k + 1 |-> IF digit(k + 1 - i) = 10 THEN ":"
                            ELSE hexchar[digit(k + 1 - i) + 1]]

format_d(val) ==
  IF val = 0 THEN <<"0">> ELSE IF val < 0 THEN <<"-">> \o Unsigned(-val) ELSE Unsigned(val)

PowersOfTen == {10 ^ k : k \in 1 .. 8}

-----------------------------------------------------------------------------
(* micro_strtol: a leading '0' means hexadecimal, any other character up to
   '9' decimal, the rest is 0.  Whatever is not a digit shifts all the same.
   The characters up to '9' of those that are printed.                        *)
LeadsDecimal ==
  Decimal \cup {" ", "!", "\"", "#", "$", "%", "&", "'", "(", ")", "*", "+", ",", "-", ".", "/"}

HexStep(v, c) ==
  IF c = "x" THEN 0 ELSE ((v * 16) % Top) + (IF c \in Range(hexchar) THEN ValueOf(c) ELSE 0)

DecimalStep(v, c) == (v * 10 + (IF c \in Decimal THEN ValueOf(c) ELSE 0)) % Top

micro_strtol(ss) ==
  IF ss = <<>> THEN 0
  ELSE IF ss[1] = "0" THEN FoldLeft(HexStep, 0, ss)
  ELSE IF ss[1] \in LeadsDecimal THEN FoldLeft(DecimalStep, 0, ss) ELSE 0
=============================================================================
