------------------------------ MODULE BytePipe ------------------------------
(***************************************************************************)
(* What a byte fifo promises to the code on its two ends: the bytes that   *)
(* come out are the bytes that were accepted, each once and in order, and  *)
(* never more than Cap of them are under way.  A byte that finds no space  *)
(* is not accepted; the pipe says nothing about it.                        *)
(***************************************************************************)
EXTENDS Naturals, Sequences, SequencesExt

CONSTANTS Byte, Cap

VARIABLES accepted,     \* every byte accepted so far
          delivered     \* every byte handed out so far

vars == <<accepted, delivered>>

Init == accepted = <<>> /\ delivered = <<>>

Accept(b) ==
  /\ Len(accepted) - Len(delivered) < Cap
  /\ accepted' = Append(accepted, b)
  /\ UNCHANGED delivered

Deliver ==
  /\ Len(delivered) < Len(accepted)
  /\ delivered' = Append(delivered, accepted[Len(delivered) + 1])
  /\ UNCHANGED accepted

Next == (\E b \in Byte : Accept(b)) \/ Deliver

Spec == Init /\ [][Next]_vars

Fifo    == IsPrefix(delivered, accepted)
Bounded == Len(accepted) - Len(delivered) <= Cap
=============================================================================
