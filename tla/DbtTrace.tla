------------------------------ MODULE DbtTrace ------------------------------
(***************************************************************************)
(* The trace buffer of dbt.c: dbt_write called by the program and by       *)
(* handlers that preempt it and each other, and dbt_print.                 *)
(*                                                                         *)
(* A context is the program (level 0) or the handlers of one priority      *)
(* (level 1 and up).  A context runs only while no higher one is in a      *)
(* write, and one step of a write is one access to shared memory.          *)
(***************************************************************************)
EXTENDS Integers, Sequences, SequencesExt

CONSTANTS
  Size,       \* DBT_LOG_SIZE, in words; a record is two
  Levels,     \* contexts that write
  MaxWrites,  \* bound: records written
  MaxPrint    \* bound: records asked for by one print command

ASSUME SizeAssumption   == Size \in Nat /\ Size >= 4 /\ Size % 2 = 0
ASSUME LevelsAssumption == Levels \in Nat \ {0} /\ 2 * Levels <= Size + 4
ASSUME BoundsAssumption == MaxWrites \in Nat /\ MaxPrint \in Nat

Indices == 0 .. 2 * Size + 3
Context == 0 .. Levels - 1
Kept    == Size \div 2 - 1    \* records in the ring, the stop record taken off
NoIndex == -1

(* Words are numbers: the stop record's, what the buffer holds at first, what
   is in memory around the buffer, and the two of record r.                 *)
Bars       == 0
Blank      == 1
Stray      == -1
Word(r, k) == 2 * r + k

VARIABLES
  dbt_log_buf, dbt_log_index,
  reloads,   \* the build: 1 if every statement reads dbt_log_index again
  pc,        \* the statement of dbt_write each context is at, 0 for none
  reg,       \* the index it has read, or NoIndex
  rec,       \* the record it writes
  writes,    \* records begun
  hit,       \* history: 1 if the outermost write has been preempted by a write
  recent,    \* history: the records written since that last happened
  print      \* dbt_print

Idle(l) == pc[l] = 0
Runs(l) == \A m \in Context : m > l => Idle(m)
Quiet   == \A m \in Context : Idle(m)
memory  == <<dbt_log_buf, dbt_log_index>>
history == <<hit, recent>>
vars    == <<memory, reloads, pc, reg, rec, writes, history, print>>

LastOf(s, n) == IF Len(s) <= n THEN s ELSE SubSeq(s, Len(s) - n + 1, Len(s))

(* A print command: whether it is forward, the records to go, where the next
   one is read, and what is out.  History: the index it began at, the records
   written last, and whether no write has begun since.                      *)
NoPrint == [forward |-> 0, left |-> 0, at |-> 0, out |-> <<>>,
            from |-> 0, newest |-> <<>>, clean |-> 0]

(* After dbt_cmd_init.                                                      *)
Init ==
  /\ dbt_log_buf = [i \in Indices |-> IF i \in {0, 1} THEN Bars ELSE Blank]
  /\ dbt_log_index = 0
  /\ reloads \in {0, 1}
  /\ pc = [l \in Context |-> 0] /\ reg = [l \in Context |-> NoIndex]
  /\ rec = [l \in Context |-> 0] /\ writes = 0
  /\ hit = 0 /\ recent = <<>> /\ print = NoPrint

-----------------------------------------------------------------------------
(* dbt_write.  The six statements that use dbt_log_index are numbered.      *)

(* A context enters it: the program when it is not printing, a handler over
   whatever runs.                                                           *)
Enter(l) ==
  /\ Idle(l) /\ Runs(l) /\ writes < MaxWrites
  /\ l = 0 => print.left = 0
  /\ writes' = writes + 1
  /\ rec' = [rec EXCEPT ![l] = writes']
  /\ pc' = [pc EXCEPT ![l] = 1]
  /\ reg' = [reg EXCEPT ![l] = NoIndex]
  /\ hit' = IF Quiet THEN 0 ELSE 1
  /\ print' = IF print.left = 0 THEN NoPrint ELSE [print EXCEPT !.clean = 0]
  /\ UNCHANGED <<memory, reloads, recent>>

(* The statement reads the index. *)
Load(l) ==
  /\ ~ Idle(l) /\ Runs(l) /\ reg[l] = NoIndex
  /\ reg' = [reg EXCEPT ![l] = dbt_log_index]
  /\ UNCHANGED <<memory, reloads, pc, rec, writes, history, print>>

(* Slips: the mask of a ring that is one record too long, or too short; the
   first word of the stop record is forgotten.                              *)
MaskLate(i)      == IF i > Size THEN i - Size ELSE i
MaskShort(i)     == i % (Size - 2)
StopForgotten(i) == UNCHANGED dbt_log_buf

Mask(i)         == i % Size
StoreWord(i, w) == dbt_log_buf' = [dbt_log_buf EXCEPT ![i] = w]
StopFirst(i)    == StoreWord(i, Bars)

(* What each statement does with the index i it has read.  A build that does
   not reload keeps the index in a register until it is masked.             *)
Statement(l, i) ==
  \/ pc[l] = 1 /\ StoreWord(i, Word(rec[l], 0)) /\ UNCHANGED dbt_log_index
  \/ pc[l] = 2 /\ StoreWord(i + 1, Word(rec[l], 1)) /\ UNCHANGED dbt_log_index
  \/ /\ pc[l] = 3
     /\ dbt_log_index' = IF reloads = 1 THEN i + 2 ELSE dbt_log_index
     /\ UNCHANGED dbt_log_buf
  \/ pc[l] = 4 /\ dbt_log_index' = Mask(i) /\ UNCHANGED dbt_log_buf
  \/ pc[l] = 5 /\ StopFirst(i) /\ UNCHANGED dbt_log_index
  \/ pc[l] = 6 /\ StoreWord(i + 1, Bars) /\ UNCHANGED dbt_log_index

InRegister(l, i) ==
  IF reloads = 1 \/ pc[l] = 6 THEN NoIndex
  ELSE IF pc[l] = 3 THEN i + 2
  ELSE IF pc[l] = 4 THEN Mask(i) ELSE i

Step(l) ==
  /\ ~ Idle(l) /\ Runs(l) /\ reg[l] # NoIndex
  /\ Statement(l, reg[l])
  /\ reg' = [reg EXCEPT ![l] = InRegister(l, reg[l])]
  /\ pc' = [pc EXCEPT ![l] = IF pc[l] = 6 THEN 0 ELSE pc[l] + 1]
  /\ IF pc[l] = 6 /\ \A m \in Context \ {l} : Idle(m)
     THEN /\ recent' = IF hit = 1 THEN <<>> ELSE LastOf(Append(recent, rec[l]), Kept)
          /\ hit' = 0
     ELSE UNCHANGED history
  /\ UNCHANGED <<reloads, rec, writes, print>>

-----------------------------------------------------------------------------
(* dbt_print, run by the program. *)

(* Slip: a backward print begins at the stop record. *)
BackwardAtStop == dbt_log_index

Forward(n) == LET i == dbt_log_index - 2 * n IN IF i < 0 THEN i + Size ELSE i
Backward   == dbt_log_index - 2

StartPrint(forward, n) ==
  /\ Quiet /\ print.left = 0
  /\ print' = [forward |-> forward, left |-> n,
               at |-> IF forward = 1 THEN Forward(n) ELSE Backward,
               out |-> <<>>, from |-> dbt_log_index, newest |-> LastOf(recent, n), clean |-> 1]
  /\ UNCHANGED <<memory, reloads, pc, reg, rec, writes, history>>

At(i) == IF i \in Indices THEN dbt_log_buf[i] ELSE Stray

Following(i, forward) ==
  IF forward = 1 THEN IF i + 2 > Size THEN 0 ELSE i + 2
                 ELSE IF i - 2 < 0 THEN Size ELSE i - 2

(* One record is read and printed.  The code reads its bytes one at a time and
   a handler may write between two of them; PrintsNewest speaks of prints
   during which nothing is written.                                         *)
PrintRecord ==
  /\ Quiet /\ print.left > 0
  /\ print' = [print EXCEPT !.left = @ - 1, !.at = Following(@, print.forward),
                            !.out = Append(@, <<At(print.at), At(print.at + 1)>>)]
  /\ UNCHANGED <<memory, reloads, pc, reg, rec, writes, history>>

Next ==
  \/ \E l \in Context : Enter(l) \/ Load(l) \/ Step(l)
  \/ \E forward \in {0, 1}, n \in 1 .. MaxPrint : StartPrint(forward, n)
  \/ PrintRecord

Spec == Init /\ [][Next]_vars

-----------------------------------------------------------------------------
(* Types.  A handler begins where the context below it has left the index,
   which may be the end of the ring and, nested, the overage behind it; every
   level adds at most one record ("leave space to handle overage for writes
   during interrupts"), so no store leaves the buffer.                      *)
Limit(l) == IF pc[l] \in 5 .. 6 THEN Size - 2
            ELSE IF pc[l] = 4 THEN Size + 2 * l ELSE Size - 2 + 2 * l

IndexInBounds ==
  /\ dbt_log_index \in Indices /\ dbt_log_index % 2 = 0
  /\ \A l \in Context : Runs(l) => dbt_log_index <= Limit(l)

RegsInBounds ==
  /\ reg \in [Context -> Indices \cup {NoIndex}]
  /\ \A l \in Context :
       ~ Idle(l) /\ reg[l] # NoIndex => reg[l] % 2 = 0 /\ reg[l] <= Limit(l)

TypeOK ==
  /\ dbt_log_buf \in [Indices -> Nat]
  /\ reloads \in {0, 1} /\ pc \in [Context -> 0 .. 6]
  /\ writes \in 0 .. MaxWrites /\ rec \in [Context -> 0 .. MaxWrites]
  /\ IndexInBounds /\ RegsInBounds

(* Once no write is under way the stop record is at the insertion point, inside
   the ring, however the writes fell into each other ("The log contains a stop
   record to show the current insertion point", dbt.h:48).                  *)
StopAtIndex ==
  Quiet => /\ dbt_log_index \in 0 .. Size - 1
           /\ dbt_log_buf[dbt_log_index] = Bars /\ dbt_log_buf[dbt_log_index + 1] = Bars

(* Records whose writes did not fall into each other are in the ring whole and
   in the order of time (dbt.h:37), back to the last time writes did; there is
   nothing a preempted write leaves behind that could harm them.            *)
RecentKept ==
  Quiet => \A k \in 1 .. Len(recent) :
    LET i == Mask(dbt_log_index - 2 * k + Size)
        r == recent[Len(recent) - k + 1]
    IN  dbt_log_buf[i] = Word(r, 0) /\ dbt_log_buf[i + 1] = Word(r, 1)

Record(r)   == <<Word(r, 0), Word(r, 1)>>
Lines(s)    == [k \in DOMAIN s |-> Record(s[k])]
Undisturbed == print.left = 0 /\ print.clean = 1 /\ Len(print.out) = Len(print.newest)
Crosses     == /\ print.from < 2 * Len(print.out)
               /\ print.forward = 1 => print.from > 0
PrintedLog  == print.out = IF print.forward = 1 THEN Lines(print.newest)
                           ELSE Reverse(Lines(print.newest))

(* A print during which nothing is written shows the last records, in forward
   or in reverse order (dbt.c:146), if it does not have to cross the end of
   the ring: one that does shows what is outside it (dbt.c:178, 190, 195).   *)
PrintsNewest == Undisturbed /\ ~ Crosses => PrintedLog

-----------------------------------------------------------------------------
(* Inductive invariant (proved in DbtTrace_proofs).  A handler leaves the stop
   record where it leaves the index.  So a context that is about to write it
   with an index read earlier either has read the present one, or need not
   write it any more.                                                       *)
Stopped == dbt_log_buf[dbt_log_index] = Bars /\ dbt_log_buf[dbt_log_index + 1] = Bars

Stopping(l) ==
  /\ pc[l] = 5 => reg[l] \in {NoIndex, dbt_log_index} \/ Stopped
  /\ pc[l] = 6 => /\ dbt_log_buf[dbt_log_index] = Bars
                  /\ \/ reg[l] \in {NoIndex, dbt_log_index}
                     \/ dbt_log_buf[dbt_log_index + 1] = Bars

StopInv ==
  /\ Quiet => Stopped
  /\ \A l \in Context : ~ Idle(l) /\ Runs(l) => Stopping(l)
=============================================================================
