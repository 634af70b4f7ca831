-------------------------------- MODULE Args --------------------------------
(* The arguments of a command, as shell.c hands them over: sargc of them are *)
(* the words of the line.  The rest of sargv is what earlier lines left: the  *)
(* array is not cleared, and its entries point into a buffer that has been    *)
(* written over since, so that they are any word.                             *)
EXTENDS Format

CONSTANTS
  Words,    \* the words that are tried
  Spell,    \* the characters of a word
  Tried     \* bound: the words tried for a command in each place

ASSUME WordAssumption ==
  /\ \A w \in Words : Spell[w] \in Seq(STRING) /\ Spell[w] # <<>>
  /\ {"loop", "dump", "map", "i2c_reg", "spi_reg", "lsm303"} \subseteq DOMAIN Tried
  /\ \A c \in DOMAIN Tried : Tried[c] \in [1 .. 5 -> SUBSET Words]

VARIABLES
  cmd,      \* the command that ran last
  sargc, sargv,
  did,      \* history: what it did to memory and devices
  mode      \* who has the input: the shell, the prompt after a command, a
            \* session, a display, or nobody

argVars == <<cmd, sargc, sargv>>

Nothing == [op |-> "nothing"]

Letter(k) == Spell[sargv'[k]][1]
Num(k)    == micro_strtol(Spell[sargv'[k]])

(* sargv[0] is the command and is not looked at again.                       *)
Call(c, min, max) ==
  /\ mode = "shell"
  /\ cmd' = c
  /\ sargc' \in min .. max
  /\ \E v1 \in Tried[c][1], v2 \in Tried[c][2], v3 \in Tried[c][3],
        v4 \in Tried[c][4], v5 \in Tried[c][5] : sargv' = <<v1, v2, v3, v4, v5>>

(* The line is over; which words it has left behind is forgotten here.        *)
Over(c) == cmd' = c /\ sargc' = 0 /\ sargv' = <<>>

Reprompt == mode = "prompt" /\ mode' = "shell" /\ Over("none") /\ did' = Nothing

(* The arguments that were typed.                                            *)
Typed == SubSeq(sargv, 1, sargc - 1)
=============================================================================
