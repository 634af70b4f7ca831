----------------------------- MODULE MC_CmdList -----------------------------
(* Commands of the repository whose words are close, one that is not        *)
(* well formed and one that clashes with another by its abbreviation only.  *)
EXTENDS CmdList, TLC

CONSTANTS map, loop, lsm, quit, clash, bad

F(name, abrev, min, max) ==
  [name |-> name, abrev |-> abrev, help |-> "help", func |-> "func",
   min |-> min, max |-> max]

MCCmd ==
  (map   :> F("map", "map", 1, 1))   @@
  (loop  :> F("loop", "l", 3, 6))    @@
  (lsm   :> F("lsm303", "lsm", 3, 5)) @@
  (quit  :> F("q", "q", 1, 1))       @@
  (clash :> F("list", "l", 1, 10))   @@
  (bad   :> F("bad", "bd", 3, 2))
=============================================================================
