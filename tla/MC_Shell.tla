------------------------------ MODULE MC_Shell ------------------------------
(* Four commands over a small keyboard: 'a' and 'q', '#', space, '+', return *)
(* and backspace, and a capital letter.                                      *)
EXTENDS Shell

CONSTANTS help, break, quit, probe

F(name, abrev, min, max) ==
  [name |-> name, abrev |-> abrev, help |-> "help", func |-> "func",
   min |-> min, max |-> max]

MCCmd ==
  (help  :> F(<<"a">>, <<"a">>, 1, 2))             @@
  (break :> F(<<"a", "a">>, <<"a", "#">>, 1, 1))   @@
  (quit  :> F(<<"q">>, <<"q">>, 1, 1))             @@
  (probe :> F(<<"a", "q">>, <<"q", "a">>, 2, 2))

MCDoes == (help :> "prompt") @@ (break :> "prompt") @@ (quit :> "quiet") @@ (probe :> "session")
MCStartup == <<help, break, quit, probe>>

MCTokens == {"a", "q", "#"}
MCSpaces == {" "}
MCEol    == {"cr"}
MCErase  == {"bs"}
MCChars  == {"A", "+"} \cup MCTokens \cup MCSpaces \cup MCEol \cup MCErase
MCLower  == [c \in MCChars |-> IF c = "A" THEN "a" ELSE c]
=============================================================================
