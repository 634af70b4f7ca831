-------------------------- MODULE MC_UsartConsole --------------------------
(* Small consoles for TLC: buffers of three or four slots and enough bytes to
   go round them twice.                                                     *)
EXTENDS UsartConsole

NoData    == <<>>
OneByte   == <<1>>
TwoBytes  == <<1, 2>>
FourBytes == <<1, 2, 3, 4>>
SixBytes  == <<1, 2, 3, 4, 5, 6>>
=============================================================================
