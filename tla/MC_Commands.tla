----------------------------- MODULE MC_Commands ----------------------------
(* Words that each command understands, nearly understands, or that begin    *)
(* like ones it does.                                                         *)
EXTENDS Commands

MCSpell ==
  [acc |-> <<"a", "c", "c">>, mag |-> <<"m", "a", "g">>, all |-> <<"a", "l", "l">>] @@
  [cr1 |-> <<"c", "r", "1">>, cr9 |-> <<"c", "r", "9">>, sr |-> <<"s", "r">>,
   out_yl |-> <<"o", "u", "t", "_", "y", "l">>, temp_l |-> <<"t", "e", "m", "p", "_", "l">>] @@
  [p |-> <<"p">>, d |-> <<"d">>, r |-> <<"r">>, w |-> <<"w">>, x |-> <<"x">>,
   b |-> <<"b">>, s |-> <<"s">>, l |-> <<"l">>] @@
  ("0" :> <<"0">>) @@ ("2" :> <<"2">>) @@ ("5" :> <<"5">>) @@ ("9" :> <<"9">>) @@
  ("18" :> <<"1", "8">>) @@ ("33" :> <<"3", "3">>) @@
  ("0x32" :> <<"0", "x", "3", "2">>) @@ ("0x101" :> <<"0", "x", "1", "0", "1">>) @@
  ("0xfff7" :> <<"0", "x", "f", "f", "f", "7">>)
MCWords == DOMAIN MCSpell

Places(a, b, c, d, e) == <<a, b, c, d, e>>
MCTried ==
  [loop    |-> Places({"5", "0x101"}, {"b", "s", "l", "r", "w"}, {"r", "w", "9", "0"}, {"r", "w", "5", "0x101"}, {"9"}),
   dump    |-> Places({"5", "0", "0xfff7"}, {"0", "5", "18", "33", "0xfff7"}, {"b", "s", "l", "x"}, {"9"}, {"9"}),
   map     |-> Places({"5"}, {"9"}, {"9"}, {"9"}, {"9"}),
   i2c_reg |-> Places({"r", "w", "p", "x"}, {"all", "cr1", "cr9", "sr"}, {"5", "cr1"}, {"9"}, {"9"}),
   spi_reg |-> Places({"r", "w", "p", "x"}, {"all", "cr1", "cr9", "sr"}, {"5", "cr1"}, {"9"}, {"9"}),
   lsm303  |-> Places({"acc", "mag", "0x32", "5"}, {"p", "d", "r", "w", "x"},
                      {"all", "cr1", "cr9", "out_yl", "temp_l", "33", "2"}, {"5"}, {"9"})]

MCShown == -130 .. 130 \cup {998, 999, 1000, 1001, 9999, 10000, 10001, 32767, 65535}
MCData  == {18, 64}   \* 0x12 and 0x40
MCStrays == {0, 32, 200}
MCKeys  == {"+", "-", "\n", "bs", ".", "1", "a", "z"}
=============================================================================
