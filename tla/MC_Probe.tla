------------------------------ MODULE MC_Probe ------------------------------
(* Memory of eight addresses and a peripheral of two registers, probed       *)
(* with three-bit values typed in binary; memory holds one, two or three of  *)
(* the bits.                                                                 *)
EXTENDS Probe

CONSTANTS probe, i2c_reg, memory, i2c

F(name) ==
  [name |-> <<name>>, abrev |-> <<name>>, help |-> "help", func |-> "func",
   min |-> 1, max |-> 2]

MCCmd     == (probe :> F("m")) @@ (i2c_reg :> F("r"))
MCDoes    == (probe :> "session") @@ (i2c_reg :> "session")
MCStartup == <<probe, i2c_reg>>
MCTarget  == (probe :> memory) @@ (i2c_reg :> i2c)
MCCount   == i2c :> 2

MCWidth  == (1 :> 2) @@ (2 :> 4) @@ (4 :> 8)
MCDigits == {"0", "1"}
MCHex    == ("0" :> 0) @@ ("1" :> 1)
MCTokens == MCDigits \cup {"m", "r", "q", "#"}
MCSpaces == {" "}
MCEol    == {"cr"}
MCErase  == {"bs"}
MCClose  == {".", "q"}
MCChars  == MCTokens \cup MCSpaces \cup MCEol \cup MCErase \cup MCClose \cup {"+", "-"}
MCLower  == [c \in MCChars |-> c]
=============================================================================
