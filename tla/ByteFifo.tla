------------------------------ MODULE ByteFifo ------------------------------
(***************************************************************************)
(* The index arithmetic of code/byte_fifo.c: a ring of n byte slots with a *)
(* write index h (bf_head), a read index t (bf_tail) and one slot that is  *)
(* always left free.  The operators take the indices as arguments because  *)
(* the two rings of the console (UsartConsole) are read and written by an  *)
(* interrupt handler and by the program at different granularities.        *)
(***************************************************************************)
EXTENDS Integers

\* The value a uint16_t holds after x is assigned to it.
U16(x) == x % 65536

(* The branches of bf_space_avail and bf_data_avail for indices that differ, as
   the C expressions evaluate, and plausible slips in them (the mutants of
   PROJECT.json).                                                           *)
SpaceAheadShort(h, t, n) == U16(n - 2 - (h - t))
SpaceAhead(h, t, n)      == U16(n - 1 - (h - t))

SpaceBehindNoGap(h, t) == U16(t - h)
SpaceBehindShort(h, t) == U16(t - h - 2)
SpaceBehind(h, t)      == U16(t - h - 1)

DataAhead(h, t) == U16(h - t)

DataBehindShort(h, t, n) == U16(n - 2 - (t - h))
DataBehind(h, t, n)      == U16(n - 1 - (t - h))

SpaceAvail(h, t, n) ==
  CASE h = t -> n - 1
    [] h > t -> SpaceAhead(h, t, n)
    [] h < t -> SpaceBehind(h, t)

DataAvail(h, t, n) ==
  CASE h = t -> 0
    [] h > t -> DataAhead(h, t)
    [] h < t -> DataBehind(h, t, n)

\* The "if(index >= count) index = 0" that ends bf_write and bf_read.
WrapLate(i, n) == IF i > n THEN 0 ELSE i
Wrap(i, n)     == IF i >= n THEN 0 ELSE i


-----------------------------------------------------------------------------
(* What the indices mean: the number of slots from a up to b in ring order.*)
Dist(a, b, n) == IF b >= a THEN b - a ELSE b - a + n
=============================================================================
