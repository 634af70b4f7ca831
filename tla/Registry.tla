------------------------------ MODULE Registry ------------------------------
(* What the command list promises: a set of commands no two of which answer *)
(* to the same word.  A command can be registered once in its life.         *)
CONSTANTS Cmds, Answers   \* the commands, and the words each answers to
VARIABLES known, used

Disjoint(c, d) == Answers[c] \cap Answers[d] = {}

Init == known = {} /\ used = {}

Clear == known' = {} /\ UNCHANGED used

Register(c) ==
  /\ c \notin used
  /\ \A d \in known : Disjoint(c, d)
  /\ known' = known \cup {c}
  /\ used' = used \cup {c}

Next == Clear \/ \E c \in Cmds : Register(c)
Spec == Init /\ [][Next]_<<known, used>>
=============================================================================
