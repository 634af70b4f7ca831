-------------------------- MODULE DbtTrace_proofs --------------------------
(* Proofs about DbtTrace: no store leaves the buffer, the stop record is at the
   insertion point, records whose writes were not preempted are kept, and a
   print shows them, for every size of the ring, any number of priorities that
   fits the buffer, and every way the writes fall into each other.          *)
EXTENDS DbtTrace, TLAPS

LEMMA MaskInRing ==
  ASSUME NEW i \in Indices, i % 2 = 0
  PROVE  Mask(i) \in 0 .. Size - 2 /\ Mask(i) % 2 = 0
<1> DEFINE r == IF i < Size THEN i ELSE IF i < 2 * Size THEN i - Size ELSE i - 2 * Size
           q == IF i < Size THEN 0 ELSE IF i < 2 * Size THEN 1 ELSE 2
<1>1. Size \in Nat /\ Size >= 4 /\ Size % 2 = 0 /\ i \in Nat /\ i <= 2 * Size + 3
  BY SizeAssumption DEF Indices
<1>2. r \in 0 .. Size - 1 /\ q \in Int /\ i = Size * q + r
  BY <1>1
<1>3. r % 2 = 0
  BY <1>1
<1> HIDE DEF r, q
<1>4. i % Size = r
  BY <1>1, <1>2
<1> QED BY <1>1, <1>2, <1>3, <1>4 DEF Mask

(* Of the contexts in a write only the highest runs. *)
LEMMA OneRuns ==
  ASSUME NEW l \in Context, NEW m \in Context, ~ Idle(l), Runs(l), ~ Idle(m), Runs(m)
  PROVE  l = m
BY LevelsAssumption DEF Context, Runs

IInv == TypeOK /\ StopInv

LEMMA InitInv == Init => IInv
<1> SUFFICES ASSUME Init PROVE IInv
  OBVIOUS
<1>1. Size \in Nat /\ Size >= 4 /\ Levels \in Nat /\ MaxWrites \in Nat
  BY SizeAssumption, LevelsAssumption, BoundsAssumption
<1>2. IndexInBounds /\ RegsInBounds
  BY <1>1 DEF Init, IndexInBounds, RegsInBounds, Limit, Idle, Indices, Context, NoIndex
<1>3. TypeOK
  BY <1>1, <1>2 DEF Init, TypeOK, Bars, Blank
<1>4. StopInv
  BY <1>1 DEF Init, StopInv, Stopped, Idle, Indices, Bars
<1> QED BY <1>3, <1>4 DEF IInv

LEMMA EnterInv == ASSUME IInv, NEW l \in Context, Enter(l) PROVE IInv'
<1>1. Size \in Nat /\ Size >= 4 /\ Levels \in Nat /\ MaxWrites \in Nat /\ l \in Nat
  BY SizeAssumption, LevelsAssumption, BoundsAssumption DEF Context
<1>2. /\ UNCHANGED memory /\ reloads' = reloads
      /\ pc' = [pc EXCEPT ![l] = 1] /\ reg' = [reg EXCEPT ![l] = NoIndex]
      /\ Runs(l) /\ Idle(l) /\ writes < MaxWrites /\ writes' = writes + 1
      /\ rec' = [rec EXCEPT ![l] = writes']
  BY DEF Enter
<1>3. TypeOK
  BY DEF IInv
<1>4. \A m \in Context : Runs(m)' => ~ (m < l)
  BY <1>2, <1>3 DEF Runs, Idle, TypeOK
<1>5. \A m \in Context : Runs(m)' => Runs(m)
  BY <1>2, <1>3 DEF Runs, Idle, TypeOK
<1>6. \A m \in Context : Limit(m)' = Limit(m)
  <2>1. pc[l] = 0 /\ pc \in [Context -> 0 .. 6]
    BY <1>2, <1>3 DEF Idle, TypeOK
  <2>2. pc'[l] = 1 /\ \A m \in Context \ {l} : pc'[m] = pc[m]
    BY <1>2, <2>1
  <2> QED BY <2>1, <2>2 DEF Limit
<1>7. IndexInBounds'
  BY <1>2, <1>3, <1>5, <1>6 DEF IndexInBounds, TypeOK, memory
<1>8. RegsInBounds'
  BY <1>2, <1>3, <1>6 DEF RegsInBounds, TypeOK, Idle
<1>9. TypeOK'
  BY <1>1, <1>2, <1>3, <1>7, <1>8 DEF TypeOK, memory
<1>10. StopInv'
  <2>1. ~ Quiet'
    BY <1>2, <1>3 DEF Quiet, Idle, TypeOK
  <2>2. \A m \in Context : ~ Idle(m)' /\ Runs(m)' => m = l
    <3> SUFFICES ASSUME NEW m \in Context, ~ Idle(m)', Runs(m)', m # l PROVE FALSE
      OBVIOUS
    <3>1. ~ Idle(m) /\ m > l
      BY <1>1, <1>2, <1>3, <1>4 DEF Idle, TypeOK, Context
    <3> QED BY <3>1, <1>2 DEF Runs
  <2>3. pc'[l] = 1
    BY <1>2, <1>3 DEF TypeOK
  <2> QED BY <2>1, <2>2, <2>3 DEF StopInv, Stopping
<1> QED BY <1>9, <1>10 DEF IInv

LEMMA LoadInv == ASSUME IInv, NEW l \in Context, Load(l) PROVE IInv'
<1>1. /\ UNCHANGED <<memory, reloads, pc, writes, rec>>
      /\ reg' = [reg EXCEPT ![l] = dbt_log_index]
      /\ Runs(l) /\ ~ Idle(l)
  BY DEF Load
<1>2. TypeOK /\ StopInv
  BY DEF IInv
<1>3. \A m \in Context : Limit(m)' = Limit(m) /\ Idle(m)' = Idle(m) /\ Runs(m)' = Runs(m)
  BY <1>1 DEF Limit, Idle, Runs
<1>4. Quiet' = Quiet /\ Stopped' = Stopped
  BY <1>1 DEF Quiet, Idle, Stopped, memory
<1>5. IndexInBounds'
  BY <1>1, <1>2, <1>3 DEF IndexInBounds, TypeOK, memory
<1>6. reg'[l] = dbt_log_index /\ \A m \in Context \ {l} : reg'[m] = reg[m]
  BY <1>1, <1>2 DEF TypeOK, RegsInBounds
<1>7. RegsInBounds'
  <2>1. reg' \in [Context -> Indices \cup {NoIndex}]
    BY <1>1, <1>2 DEF TypeOK, RegsInBounds, IndexInBounds
  <2> QED BY <2>1, <1>1, <1>2, <1>3, <1>6 DEF TypeOK, RegsInBounds, IndexInBounds
<1>8. TypeOK'
  BY <1>1, <1>2, <1>5, <1>7 DEF TypeOK, memory
<1>9. StopInv'
  <2>1. ASSUME NEW m \in Context, ~ Idle(m), Runs(m) PROVE Stopping(m)'
    <3>1. Stopping(m) /\ m = l
      BY <1>1, <1>2, <2>1, OneRuns DEF StopInv
    <3> QED BY <3>1, <1>1, <1>4, <1>6 DEF Stopping, memory
  <2> QED BY <2>1, <1>2, <1>3, <1>4 DEF StopInv
<1> QED BY <1>8, <1>9 DEF IInv

-----------------------------------------------------------------------------
(* One statement of dbt_write.                                              *)

LEMMA StepBounds ==
  ASSUME TypeOK, NEW l \in Context, Step(l)
  PROVE  /\ dbt_log_index' \in Indices /\ dbt_log_index' % 2 = 0
         /\ dbt_log_index' <= Limit(l)'
         /\ pc'[l] = 0 => dbt_log_index' <= Size - 2
         /\ reg'[l] \in Indices \cup {NoIndex}
         /\ reg'[l] # NoIndex => reg'[l] % 2 = 0 /\ reg'[l] <= Limit(l)'
<1> DEFINE i == reg[l]
<1>1. /\ Size \in Nat /\ Size >= 4 /\ Levels \in Nat /\ l \in Nat /\ l < Levels
      /\ 2 * Levels <= Size + 4
  BY SizeAssumption, LevelsAssumption DEF Context
<1>2. /\ i \in Indices /\ i % 2 = 0 /\ i <= Limit(l) /\ i # NoIndex
      /\ dbt_log_index \in Indices /\ dbt_log_index % 2 = 0 /\ dbt_log_index <= Limit(l)
      /\ pc[l] \in 1 .. 6 /\ reloads \in {0, 1}
  BY DEF Step, TypeOK, RegsInBounds, IndexInBounds, Idle, Runs
<1>3. /\ pc'[l] = IF pc[l] = 6 THEN 0 ELSE pc[l] + 1
      /\ reg'[l] = InRegister(l, i) /\ Statement(l, i)
  BY DEF Step, TypeOK, RegsInBounds
<1>4. Mask(i) \in 0 .. Size - 2 /\ Mask(i) % 2 = 0
  BY <1>2, MaskInRing
<1> HIDE DEF i
<1>5. CASE pc[l] = 1 \/ pc[l] = 2
  BY <1>1, <1>2, <1>3, <1>5 DEF Statement, InRegister, Limit, Indices, NoIndex
<1>6. CASE pc[l] = 3
  BY <1>1, <1>2, <1>3, <1>6 DEF Statement, InRegister, Limit, Indices, NoIndex
<1>7. CASE pc[l] = 4
  BY <1>1, <1>2, <1>3, <1>4, <1>7 DEF Statement, InRegister, Limit, Indices, NoIndex
<1>8. CASE pc[l] = 5 \/ pc[l] = 6
  BY <1>1, <1>2, <1>3, <1>8 DEF Statement, InRegister, Limit, Indices, NoIndex
<1> QED BY <1>2, <1>5, <1>6, <1>7, <1>8

LEMMA StepTypes ==
  ASSUME TypeOK, NEW l \in Context, Step(l)
  PROVE  dbt_log_buf' \in [Indices -> Nat]
<1>1. /\ dbt_log_buf \in [Indices -> Nat]
      /\ rec[l] \in Nat /\ Statement(l, reg[l])
  BY BoundsAssumption DEF TypeOK, Step
<1>2. Bars \in Nat /\ Word(rec[l], 0) \in Nat /\ Word(rec[l], 1) \in Nat
  BY <1>1 DEF Bars, Word
<1> QED BY <1>1, <1>2 DEF Statement, StoreWord, StopFirst

(* The statements that write the stop record complete it. *)
LEMMA StepStops ==
  ASSUME TypeOK, NEW l \in Context, Stopping(l), Step(l)
  PROVE  Stopping(l)' /\ (pc'[l] = 0 => Stopped')
<1> DEFINE i == reg[l]
<1>1. /\ Size \in Nat /\ Size >= 4
      /\ i \in Indices /\ i # NoIndex /\ dbt_log_index \in Indices
      /\ pc[l] \in 1 .. 6 /\ reloads \in {0, 1}
      /\ pc[l] \in 5 .. 6 => i <= Size - 2 /\ dbt_log_index <= Size - 2
      /\ dbt_log_buf \in [Indices -> Nat]
  BY SizeAssumption DEF Step, TypeOK, RegsInBounds, IndexInBounds, Idle, Runs, Limit
<1>2. /\ pc'[l] = IF pc[l] = 6 THEN 0 ELSE pc[l] + 1
      /\ reg'[l] = InRegister(l, i) /\ Statement(l, i)
  BY DEF Step, TypeOK, RegsInBounds
<1> HIDE DEF i
<1>3. CASE pc[l] \in 1 .. 3
  BY <1>1, <1>2, <1>3 DEF Stopping
<1>4. CASE pc[l] = 4
  <2>1. dbt_log_index' = Mask(i) /\ reg'[l] \in {NoIndex, Mask(i)} /\ pc'[l] = 5
    BY <1>1, <1>2, <1>4 DEF Statement, InRegister
  <2> QED BY <2>1 DEF Stopping
<1>5. CASE pc[l] = 5
  <2>1. /\ dbt_log_buf' = [dbt_log_buf EXCEPT ![i] = Bars] /\ dbt_log_index' = dbt_log_index
        /\ reg'[l] \in {NoIndex, i} /\ pc'[l] = 6
    BY <1>1, <1>2, <1>5 DEF Statement, InRegister, StopFirst, StoreWord
  <2>2. i = dbt_log_index \/ Stopped
    BY <1>1, <1>5 DEF Stopping, i
  <2>3. i + 1 \in Indices /\ dbt_log_index + 1 \in Indices
    BY <1>1, <1>5 DEF Indices
  <2>4. dbt_log_buf'[dbt_log_index] = Bars
    BY <1>1, <2>1, <2>2 DEF Stopped
  <2>5. i = dbt_log_index \/ dbt_log_buf'[dbt_log_index + 1] = Bars
    BY <1>1, <2>1, <2>2, <2>3 DEF Stopped
  <2> QED BY <2>1, <2>4, <2>5 DEF Stopping
<1>6. CASE pc[l] = 6
  <2>1. /\ dbt_log_buf' = [dbt_log_buf EXCEPT ![i + 1] = Bars] /\ dbt_log_index' = dbt_log_index
        /\ pc'[l] = 0
    BY <1>1, <1>2, <1>6 DEF Statement, StoreWord
  <2>2. /\ dbt_log_buf[dbt_log_index] = Bars
        /\ i = dbt_log_index \/ dbt_log_buf[dbt_log_index + 1] = Bars
    BY <1>1, <1>6 DEF Stopping, i
  <2>3. i + 1 \in Indices /\ dbt_log_index + 1 \in Indices
    BY <1>1, <1>6 DEF Indices
  <2>4. dbt_log_buf'[dbt_log_index] = Bars /\ dbt_log_buf'[dbt_log_index + 1] = Bars
    BY <1>1, <2>1, <2>2, <2>3
  <2> QED BY <2>1, <2>4 DEF Stopping, Stopped
<1> QED BY <1>1, <1>3, <1>4, <1>5, <1>6

LEMMA StepInv == ASSUME IInv, NEW l \in Context, Step(l) PROVE IInv'
<1>1. TypeOK /\ StopInv /\ Runs(l) /\ ~ Idle(l)
  BY DEF IInv, Step
<1>2. Stopping(l)
  BY <1>1 DEF StopInv
<1>3. /\ pc \in [Context -> 0 .. 6] /\ reg \in [Context -> Indices \cup {NoIndex}]
      /\ pc' \in [Context -> 0 .. 6]
      /\ \A m \in Context \ {l} : pc'[m] = pc[m] /\ reg'[m] = reg[m]
  <2> DEFINE p == IF pc[l] = 6 THEN 0 ELSE pc[l] + 1
             r == InRegister(l, reg[l])
  <2>1. pc \in [Context -> 0 .. 6] /\ reg \in [Context -> Indices \cup {NoIndex}]
    BY <1>1 DEF TypeOK, RegsInBounds
  <2>2. pc' = [pc EXCEPT ![l] = p] /\ reg' = [reg EXCEPT ![l] = r]
    BY DEF Step
  <2>3. p \in 0 .. 6
    BY <2>1
  <2> HIDE DEF p, r
  <2> QED BY <2>1, <2>2, <2>3
<1>4. reg' \in [Context -> Indices \cup {NoIndex}]
  <2>1. reg' = [reg EXCEPT ![l] = InRegister(l, reg[l])] /\ reg'[l] = InRegister(l, reg[l])
    BY <1>3 DEF Step
  <2>2. InRegister(l, reg[l]) \in Indices \cup {NoIndex}
    BY <1>1, <2>1, StepBounds
  <2> QED BY <2>1, <2>2, <1>3
<1>5. \A m \in Context \ {l} : Limit(m)' = Limit(m) /\ Idle(m)' = Idle(m)
  BY <1>3 DEF Limit, Idle
<1>6. ASSUME NEW m \in Context, Runs(m)', m # l, pc'[l] # 0 PROVE m > l /\ Idle(m)
  BY <1>1, <1>3, <1>6, LevelsAssumption DEF Runs, Idle, Context
<1>7. IndexInBounds'
  <2>1. dbt_log_index' \in Indices /\ dbt_log_index' % 2 = 0
    BY <1>1, StepBounds
  <2>2. ASSUME NEW m \in Context, Runs(m)' PROVE dbt_log_index' <= Limit(m)'
    <3>1. CASE m = l
      BY <1>1, <3>1, StepBounds
    <3>2. CASE m # l /\ pc'[l] = 0
      <4>1. dbt_log_index' <= Size - 2
        BY <1>1, <3>2, StepBounds
      <4> QED BY <4>1, <2>1, SizeAssumption, LevelsAssumption DEF Limit, Context, Indices
    <3>3. CASE m # l /\ pc'[l] # 0
      <4>1. m > l /\ pc'[m] = 0
        BY <1>3, <1>6, <2>2, <3>3 DEF Idle
      <4>2. dbt_log_index' <= Limit(l)'
        BY <1>1, StepBounds
      <4> QED BY <4>1, <4>2, <2>1, SizeAssumption, LevelsAssumption DEF Limit, Context, Indices
    <3> QED BY <3>1, <3>2, <3>3
  <2> QED BY <2>1, <2>2 DEF IndexInBounds
<1>8. RegsInBounds'
  <2>1. ASSUME NEW m \in Context, ~ Idle(m)', reg'[m] # NoIndex
        PROVE  reg'[m] % 2 = 0 /\ reg'[m] <= Limit(m)'
    <3>1. CASE m = l
      BY <1>1, <2>1, <3>1, StepBounds
    <3>2. CASE m # l
      BY <1>1, <1>3, <1>5, <2>1, <3>2 DEF TypeOK, RegsInBounds
    <3> QED BY <3>1, <3>2
  <2> QED BY <2>1, <1>4 DEF RegsInBounds, NoIndex
<1>9. TypeOK'
  BY <1>1, <1>3, <1>7, <1>8, StepTypes DEF TypeOK, Step
<1>10. StopInv'
  <2>1. Stopping(l)' /\ (pc'[l] = 0 => Stopped')
    BY <1>1, <1>2, StepStops
  <2>2. Quiet' => Stopped'
    BY <2>1 DEF Quiet, Idle
  <2>3. ASSUME NEW m \in Context, ~ Idle(m)', Runs(m)' PROVE Stopping(m)'
    <3>1. CASE m = l
      BY <2>1, <3>1
    <3>2. CASE m # l /\ pc'[l] = 0
      BY <2>1, <3>2 DEF Stopping, Stopped
    <3>3. CASE m # l /\ pc'[l] # 0
      BY <1>5, <1>6, <2>3, <3>3
    <3> QED BY <3>1, <3>2, <3>3
  <2> QED BY <2>2, <2>3 DEF StopInv
<1> QED BY <1>9, <1>10 DEF IInv

(* A print reads only. *)
LEMMA PrintInv ==
  ASSUME IInv, UNCHANGED <<memory, reloads, pc, reg, rec, writes>> PROVE IInv'
BY DEF IInv, TypeOK, IndexInBounds, RegsInBounds, StopInv, Stopped, Stopping, Quiet, Runs,
       Idle, Limit, memory

LEMMA Inductive == IInv /\ [Next]_vars => IInv'
<1> SUFFICES ASSUME IInv, [Next]_vars PROVE IInv'
  OBVIOUS
<1>1. ASSUME NEW l \in Context, Enter(l) \/ Load(l) \/ Step(l) PROVE IInv'
  BY <1>1, EnterInv, LoadInv, StepInv
<1>2. CASE (\E forward \in {0, 1}, n \in 1 .. MaxPrint : StartPrint(forward, n)) \/ PrintRecord
  BY <1>2, PrintInv DEF StartPrint, PrintRecord
<1>3. CASE UNCHANGED vars
  BY <1>3, PrintInv DEF vars
<1> QED BY <1>1, <1>2, <1>3 DEF Next

(* Every store of dbt_write is inside dbt_log_buf, handlers preempting handlers
   included.                                                                *)
THEOREM TraceTypes == Spec => []TypeOK
<1>1. IInv => TypeOK
  BY DEF IInv
<1> QED BY <1>1, InitInv, Inductive, PTL DEF Spec

(* The stop record shows the insertion point whenever no write is under way. *)
THEOREM StopRecord == Spec => []StopAtIndex
<1>1. IInv => StopAtIndex
  <2> SUFFICES ASSUME IInv, Quiet PROVE StopAtIndex
    BY DEF StopAtIndex
  <2>1. Stopped
    BY DEF IInv, StopInv
  <2>2. 0 \in Context /\ Runs(0) /\ pc[0] = 0
    BY LevelsAssumption DEF Context, Runs, Quiet, Idle
  <2>3. dbt_log_index \in Nat /\ dbt_log_index <= Size - 2
    <3>1. dbt_log_index \in Nat /\ dbt_log_index <= Limit(0)
      BY <2>2, SizeAssumption DEF IInv, TypeOK, IndexInBounds, Indices
    <3>2. Limit(0) = Size - 2
      BY <2>2, SizeAssumption DEF Limit
    <3> QED BY <3>1, <3>2
  <2> QED BY <2>1, <2>3, SizeAssumption DEF StopAtIndex, Stopped
<1> QED BY <1>1, InitInv, Inductive, PTL DEF Spec

-----------------------------------------------------------------------------
(* The records.  Going back k records from an index in the ring.             *)
Slot(b, k) == IF 2 * k <= b THEN b - 2 * k ELSE b - 2 * k + Size

Starts == {b \in 0 .. Size - 2 : b % 2 = 0}

LEMMA KeptSize == Kept \in Nat \ {0} /\ 2 * Kept = Size - 2
BY SizeAssumption DEF Kept

LEMMA MaskWraps ==
  ASSUME NEW i \in 0 .. 2 * Size - 1
  PROVE  Mask(i) = IF i < Size THEN i ELSE i - Size
<1> DEFINE r == IF i < Size THEN i ELSE i - Size
           q == IF i < Size THEN 0 ELSE 1
<1>1. Size \in Nat /\ Size >= 4
  BY SizeAssumption
<1>2. r \in 0 .. Size - 1 /\ q \in Int /\ i = Size * q + r
  BY <1>1
<1> HIDE DEF r, q
<1>3. i % Size = r
  BY <1>1, <1>2
<1> QED BY <1>3 DEF Mask, r

LEMMA SlotFacts ==
  ASSUME NEW b \in Starts, NEW k \in 1 .. Kept
  PROVE  /\ Slot(b, k) \in Starts /\ Slot(b, k) # b
         /\ Mask(b - 2 * k + Size) = Slot(b, k)
<1>1. Size \in Nat /\ Size >= 4 /\ Size % 2 = 0 /\ 2 * Kept = Size - 2 /\ Kept \in Nat
  BY SizeAssumption, KeptSize
<1>2. b \in 0 .. Size - 2 /\ b % 2 = 0 /\ k \in Nat /\ 1 <= k /\ 2 * k <= Size - 2
  BY <1>1 DEF Starts
<1>3. b - 2 * k + Size \in 0 .. 2 * Size - 1
  BY <1>1, <1>2
<1>4. Slot(b, k) \in 0 .. Size - 2 /\ Slot(b, k) # b
  BY <1>1, <1>2 DEF Slot
<1>5. Slot(b, k) % 2 = 0
  BY <1>1, <1>2 DEF Slot
<1>6. Mask(b - 2 * k + Size) = Slot(b, k)
  BY <1>1, <1>2, <1>3, MaskWraps DEF Slot
<1> QED BY <1>4, <1>5, <1>6 DEF Starts

(* The insertion point after b: what was k records back is k + 1 back.       *)
LEMMA SlotNext ==
  ASSUME NEW b \in Starts
  PROVE  /\ Mask(b + 2) \in Starts /\ Mask(b + 2) # b
         /\ Slot(Mask(b + 2), 1) = b
         /\ \A k \in 1 .. Kept - 1 : Slot(Mask(b + 2), k + 1) = Slot(b, k) /\ Slot(b, k) # Mask(b + 2)
<1> DEFINE m == Mask(b + 2)
<1>1. Size \in Nat /\ Size >= 4 /\ Size % 2 = 0 /\ 2 * Kept = Size - 2 /\ Kept \in Nat
  BY SizeAssumption, KeptSize
<1>2. b \in 0 .. Size - 2 /\ b % 2 = 0
  BY DEF Starts
<1>3. m = IF b + 2 < Size THEN b + 2 ELSE b + 2 - Size
  BY <1>1, <1>2, MaskWraps
<1>4. m = IF b = Size - 2 THEN 0 ELSE b + 2
  BY <1>1, <1>2, <1>3
<1> HIDE DEF m
<1>5. m \in Starts /\ m # b
  BY <1>1, <1>2, <1>4 DEF Starts
<1>6. Slot(m, 1) = b
  BY <1>1, <1>2, <1>4 DEF Slot
<1>7. ASSUME NEW k \in 1 .. Kept - 1
      PROVE  Slot(m, k + 1) = Slot(b, k) /\ Slot(b, k) # m
  BY <1>1, <1>2, <1>4 DEF Slot
<1> QED BY <1>5, <1>6, <1>7 DEF m

(* The last records, one more appended.                                      *)
LEMMA LastAppended ==
  ASSUME NEW s \in Seq(Nat), Len(s) <= Kept, NEW r \in Nat
  PROVE  LET t == LastOf(Append(s, r), Kept)
         IN  /\ t \in Seq(Nat) /\ Len(t) <= Kept
             /\ Len(t) >= 1 /\ t[Len(t)] = r
             /\ \A k \in 1 .. Len(t) - 1 : k <= Len(s) /\ t[Len(t) - k] = s[Len(s) - k + 1]
<1> DEFINE a == Append(s, r)
           t == LastOf(a, Kept)
           n == Len(s)
<1>1. n \in Nat /\ n <= Kept /\ Kept \in Nat \ {0}
  BY KeptSize
<1>2. a \in Seq(Nat) /\ Len(a) = n + 1 /\ a[n + 1] = r /\ \A i \in 1 .. n : a[i] = s[i]
  OBVIOUS
<1>3. CASE n + 1 <= Kept
  <2>1. t = a
    BY <1>2, <1>3 DEF LastOf
  <2> HIDE DEF a, t
  <2>2. t \in Seq(Nat) /\ Len(t) = n + 1 /\ t[n + 1] = r
    BY <1>2, <2>1
  <2>3. ASSUME NEW k \in 1 .. n
        PROVE  t[n + 1 - k] = s[n - k + 1]
    <3>1. n + 1 - k \in 1 .. n /\ n - k + 1 = n + 1 - k
      BY <1>1
    <3> QED BY <1>2, <2>1, <3>1
  <2> HIDE DEF n
  <2>4. \A k \in 1 .. n : k <= n
    BY <1>1
  <2>5. /\ Len(t) <= Kept /\ Len(t) >= 1 /\ t[Len(t)] = r
        /\ \A k \in 1 .. Len(t) - 1 : k <= n /\ t[Len(t) - k] = s[n - k + 1]
    BY <1>1, <1>3, <2>2, <2>3, <2>4
  <2> QED BY <2>2, <2>5 DEF a, t, n
<1>4. CASE n = Kept
  <2> HIDE DEF a, n
  <2>1. t = SubSeq(a, 2, n + 1)
    BY <1>1, <1>2, <1>4 DEF LastOf
  <2> HIDE DEF t
  <2>2. t \in Seq(Nat) /\ Len(t) = n /\ \A i \in 1 .. n : t[i] = a[i + 1]
    BY <1>1, <1>2, <2>1
  <2>3. t[n] = r
    BY <1>1, <1>2, <1>4, <2>2
  <2>4. ASSUME NEW k \in 1 .. n - 1
        PROVE  t[n - k] = s[n - k + 1]
    <3>1. n - k \in 1 .. n /\ n - k + 1 \in 1 .. n
      BY <1>1
    <3> QED BY <1>2, <2>2, <3>1
  <2>5. \A k \in 1 .. n - 1 : k <= n
    BY <1>1
  <2>6. /\ Len(t) <= Kept /\ Len(t) >= 1 /\ t[Len(t)] = r
        /\ \A k \in 1 .. Len(t) - 1 : k <= n /\ t[Len(t) - k] = s[n - k + 1]
    BY <1>1, <1>4, <2>2, <2>3, <2>4, <2>5
  <2> QED BY <2>2, <2>6 DEF a, t, n
<1> QED BY <1>1, <1>3, <1>4

-----------------------------------------------------------------------------
(* The k-th record back from b is in the ring.                                *)
Held(b, k) ==
  LET r == recent[Len(recent) - k + 1]
  IN  dbt_log_buf[Slot(b, k)] = Word(r, 0) /\ dbt_log_buf[Slot(b, k) + 1] = Word(r, 1)

(* A write that began at b and has not been preempted by one.                 *)
Writing(l, b) ==
  /\ pc[l] \in 1 .. 3 => dbt_log_index = b /\ reg[l] \in {NoIndex, b}
  /\ pc[l] = 4 => IF reloads = 1 THEN dbt_log_index = b + 2 /\ reg[l] \in {NoIndex, b + 2}
                                 ELSE reg[l] = b + 2
  /\ pc[l] \in 5 .. 6 => dbt_log_index = Mask(b + 2) /\ reg[l] \in {NoIndex, Mask(b + 2)}
  /\ pc[l] \in 2 .. 6 => dbt_log_buf[b] = Word(rec[l], 0)
  /\ pc[l] \in 3 .. 6 => dbt_log_buf[b + 1] = Word(rec[l], 1)
  /\ \A k \in 1 .. Len(recent) : pc[l] < 6 \/ k < Kept => Held(b, k)

Alone(l) == \A m \in Context \ {l} : Idle(m)

KeptInv ==
  /\ recent \in Seq(Nat) /\ Len(recent) <= Kept /\ hit \in {0, 1}
  /\ hit = 0 => \A l \in Context : ~ Idle(l) => Alone(l) /\ \E b \in Starts : Writing(l, b)
  /\ Quiet => \A k \in 1 .. Len(recent) : Held(dbt_log_index, k)

LEMMA KeptInit == Init => KeptInv
<1> SUFFICES ASSUME Init PROVE KeptInv
  OBVIOUS
<1>1. recent = <<>> /\ Len(recent) = 0 /\ hit = 0 /\ \A l \in Context : Idle(l)
  BY DEF Init, Idle
<1> QED BY <1>1, KeptSize DEF KeptInv

(* Where the index is when nothing is under way.                             *)
LEMMA QuietIndex ==
  ASSUME IInv, Quiet
  PROVE  dbt_log_index \in Starts
<1>1. 0 \in Context /\ Runs(0) /\ pc[0] = 0
  BY LevelsAssumption DEF Context, Runs, Quiet, Idle
<1>2. dbt_log_index \in Indices /\ dbt_log_index % 2 = 0 /\ dbt_log_index <= Limit(0)
  BY <1>1 DEF IInv, TypeOK, IndexInBounds
<1>3. Limit(0) = Size - 2
  BY <1>1, SizeAssumption DEF Limit
<1> QED BY <1>2, <1>3, SizeAssumption DEF Starts, Indices

LEMMA EnterKept ==
  ASSUME IInv, KeptInv, NEW l \in Context, Enter(l)
  PROVE  KeptInv'
<1>1. /\ pc' = [pc EXCEPT ![l] = 1] /\ reg' = [reg EXCEPT ![l] = NoIndex] /\ Idle(l)
      /\ UNCHANGED <<memory, reloads, recent>> /\ hit' = IF Quiet THEN 0 ELSE 1
  BY DEF Enter
<1>2. pc'[l] = 1 /\ reg'[l] = NoIndex /\ \A m \in Context \ {l} : pc'[m] = pc[m]
  BY <1>1 DEF IInv, TypeOK, RegsInBounds
<1>3. ~ Quiet'
  BY <1>2 DEF Quiet, Idle
<1>4. ASSUME hit' = 0, NEW m \in Context, ~ Idle(m)'
      PROVE  Alone(m)' /\ \E b \in Starts : Writing(m, b)'
  <2>1. Quiet
    BY <1>1, <1>4
  <2>2. m = l /\ Alone(m)'
    BY <1>2, <1>4, <2>1 DEF Quiet, Idle, Alone
  <2>3. dbt_log_index \in Starts
    BY <2>1, QuietIndex
  <2>4. \A k \in 1 .. Len(recent) : Held(dbt_log_index, k)
    BY <2>1 DEF KeptInv
  <2>5. Writing(m, dbt_log_index)'
    BY <1>1, <1>2, <2>2, <2>4 DEF Writing, Held, memory
  <2>6. dbt_log_index' = dbt_log_index
    BY <1>1 DEF memory
  <2> QED BY <2>2, <2>3, <2>5, <2>6
<1> QED BY <1>1, <1>3, <1>4 DEF KeptInv

LEMMA LoadKept ==
  ASSUME IInv, KeptInv, NEW l \in Context, Load(l)
  PROVE  KeptInv'
<1>1. /\ reg' = [reg EXCEPT ![l] = dbt_log_index] /\ ~ Idle(l) /\ reg[l] = NoIndex
      /\ UNCHANGED <<memory, reloads, pc, rec, history>>
  BY DEF Load
<1>2. reg'[l] = dbt_log_index /\ pc[l] \in 1 .. 6
  BY <1>1 DEF IInv, TypeOK, RegsInBounds, Idle
<1>3. ~ Quiet' /\ \A m \in Context : Idle(m)' = Idle(m) /\ Alone(m)' = Alone(m)
  BY <1>1 DEF Quiet, Idle, Alone
<1>4. ASSUME hit' = 0, NEW m \in Context, ~ Idle(m)'
      PROVE  Alone(m)' /\ \E b \in Starts : Writing(m, b)'
  <2>1. hit = 0 /\ ~ Idle(m) /\ Alone(m) /\ \E b \in Starts : Writing(m, b)
    BY <1>1, <1>3, <1>4 DEF KeptInv, history
  <2>2. m = l
    BY <1>1, <2>1 DEF Alone
  <2>3. PICK b \in Starts : Writing(m, b)
    BY <2>1
  <2>4. b + 2 # NoIndex
    BY SizeAssumption DEF Starts, NoIndex
  <2>5. Writing(m, b)'
    BY <1>1, <1>2, <2>2, <2>3, <2>4 DEF Writing, Held, memory, history
  <2> QED BY <1>3, <2>1, <2>5
<1> QED BY <1>1, <1>3, <1>4 DEF KeptInv, history

(* A statement of a write that has not been preempted.                       *)
LEMMA WriteOn ==
  ASSUME IInv, KeptInv, NEW l \in Context, Step(l), NEW b \in Starts, Writing(l, b), pc[l] # 6
  PROVE  Writing(l, b)'
<1> DEFINE i == reg[l]
<1>1. /\ pc'[l] = pc[l] + 1 /\ reg'[l] = InRegister(l, i) /\ Statement(l, i)
      /\ UNCHANGED <<reloads, rec>> /\ recent' = recent /\ i # NoIndex /\ pc[l] \in 1 .. 5
  BY DEF Step, IInv, TypeOK, RegsInBounds, Idle, history
<1>2. dbt_log_buf \in [Indices -> Nat] /\ reloads \in {0, 1}
  BY DEF IInv, TypeOK
<1>3. b \in Nat /\ b <= Size - 2 /\ b % 2 = 0 /\ Size \in Nat /\ Size >= 4
  BY SizeAssumption DEF Starts
<1>4. b \in Indices /\ b + 1 \in Indices
  BY <1>3 DEF Indices
<1>5. \A k \in 1 .. Len(recent) : k \in 1 .. Kept
  BY KeptSize DEF KeptInv
<1>6. ASSUME NEW k \in 1 .. Len(recent)
      PROVE  /\ Slot(b, k) \in Indices /\ Slot(b, k) + 1 \in Indices
             /\ Slot(b, k) \notin {b, b + 1} /\ Slot(b, k) + 1 \notin {b, b + 1}
  <2>1. Slot(b, k) \in Starts /\ Slot(b, k) # b
    BY <1>5, SlotFacts
  <2>2. Slot(b, k) \in Nat /\ Slot(b, k) <= Size - 2 /\ Slot(b, k) % 2 = 0
    BY <1>3, <2>1 DEF Starts
  <2> QED BY <1>3, <2>1, <2>2 DEF Indices
<1>7. \A k \in 1 .. Len(recent) : Held(b, k)
  BY <1>1 DEF Writing
<1> HIDE DEF i
<1>8. CASE pc[l] = 1
  <2>1. i = b /\ dbt_log_index = b /\ pc'[l] = 2
    BY <1>1, <1>8 DEF Writing, i
  <2>2. /\ dbt_log_buf' = [dbt_log_buf EXCEPT ![b] = Word(rec[l], 0)] /\ dbt_log_index' = b
        /\ reg'[l] \in {NoIndex, b}
    BY <1>1, <1>8, <2>1 DEF Statement, StoreWord, InRegister
  <2>3. dbt_log_buf'[b] = Word(rec[l], 0)
    BY <1>2, <1>4, <2>2
  <2>4. \A k \in 1 .. Len(recent) : Held(b, k)'
    BY <1>1, <1>2, <1>6, <1>7, <2>2 DEF Held
  <2> QED BY <1>1, <2>1, <2>2, <2>3, <2>4 DEF Writing
<1>9. CASE pc[l] = 2
  <2>1. i = b /\ dbt_log_index = b /\ pc'[l] = 3 /\ dbt_log_buf[b] = Word(rec[l], 0)
    BY <1>1, <1>9 DEF Writing, i
  <2>2. /\ dbt_log_buf' = [dbt_log_buf EXCEPT ![b + 1] = Word(rec[l], 1)] /\ dbt_log_index' = b
        /\ reg'[l] \in {NoIndex, b}
    BY <1>1, <1>9, <2>1 DEF Statement, StoreWord, InRegister
  <2>3. dbt_log_buf'[b] = Word(rec[l], 0) /\ dbt_log_buf'[b + 1] = Word(rec[l], 1)
    BY <1>2, <1>3, <1>4, <2>1, <2>2
  <2>4. \A k \in 1 .. Len(recent) : Held(b, k)'
    BY <1>1, <1>2, <1>6, <1>7, <2>2 DEF Held
  <2> QED BY <1>1, <2>1, <2>2, <2>3, <2>4 DEF Writing
<1>10. CASE pc[l] = 3
  <2>1. /\ i = b /\ dbt_log_index = b /\ pc'[l] = 4
        /\ dbt_log_buf[b] = Word(rec[l], 0) /\ dbt_log_buf[b + 1] = Word(rec[l], 1)
    BY <1>1, <1>10 DEF Writing, i
  <2>2. /\ dbt_log_buf' = dbt_log_buf
        /\ IF reloads = 1 THEN dbt_log_index' = b + 2 /\ reg'[l] = NoIndex ELSE reg'[l] = b + 2
    BY <1>1, <1>10, <2>1 DEF Statement, InRegister
  <2>3. \A k \in 1 .. Len(recent) : Held(b, k)'
    BY <1>1, <1>7, <2>2 DEF Held
  <2> QED BY <1>1, <2>1, <2>2, <2>3 DEF Writing
<1>11. CASE pc[l] = 4
  <2>1. /\ i = b + 2 /\ pc'[l] = 5
        /\ dbt_log_buf[b] = Word(rec[l], 0) /\ dbt_log_buf[b + 1] = Word(rec[l], 1)
    BY <1>1, <1>2, <1>11 DEF Writing, i
  <2>2. /\ dbt_log_buf' = dbt_log_buf /\ dbt_log_index' = Mask(b + 2)
        /\ reg'[l] \in {NoIndex, Mask(b + 2)}
    BY <1>1, <1>11, <2>1 DEF Statement, InRegister
  <2>3. \A k \in 1 .. Len(recent) : Held(b, k)'
    BY <1>1, <1>7, <2>2 DEF Held
  <2> QED BY <1>1, <2>1, <2>2, <2>3 DEF Writing
<1>12. CASE pc[l] = 5
  <2> DEFINE n == Mask(b + 2)
  <2>1. /\ i = n /\ dbt_log_index = n /\ pc'[l] = 6
        /\ dbt_log_buf[b] = Word(rec[l], 0) /\ dbt_log_buf[b + 1] = Word(rec[l], 1)
    BY <1>1, <1>12 DEF Writing, i
  <2>2. /\ dbt_log_buf' = [dbt_log_buf EXCEPT ![n] = Bars] /\ dbt_log_index' = n
        /\ reg'[l] \in {NoIndex, n}
    BY <1>1, <1>12, <2>1 DEF Statement, StopFirst, StoreWord, InRegister
  <2>3. /\ n \in Starts /\ n # b /\ \A k \in 1 .. Kept - 1 : Slot(b, k) # n
    BY SlotNext
  <2> HIDE DEF n
  <2>4. n \in Nat /\ n % 2 = 0 /\ n # b + 1
    BY <1>3, <2>3 DEF Starts
  <2>5. dbt_log_buf'[b] = dbt_log_buf[b] /\ dbt_log_buf'[b + 1] = dbt_log_buf[b + 1]
    BY <1>2, <1>4, <2>2, <2>3, <2>4
  <2>6. ASSUME NEW k \in 1 .. Len(recent), k < Kept
        PROVE  Held(b, k)'
    <3>1. k \in 1 .. Kept - 1 /\ Slot(b, k) # n
      BY <1>5, <2>3, <2>6, KeptSize
    <3>2. Slot(b, k) \in Starts
      BY <1>5, SlotFacts
    <3>3. Slot(b, k) + 1 # n
      BY <2>4, <3>2 DEF Starts
    <3>4. dbt_log_buf'[Slot(b, k)] = dbt_log_buf[Slot(b, k)]
          /\ dbt_log_buf'[Slot(b, k) + 1] = dbt_log_buf[Slot(b, k) + 1]
      BY <1>2, <1>6, <2>2, <3>1, <3>3
    <3> QED BY <1>1, <1>7, <3>4 DEF Held
  <2> QED BY <1>1, <2>1, <2>2, <2>5, <2>6 DEF Writing, n
<1> QED BY <1>1, <1>8, <1>9, <1>10, <1>11, <1>12

(* Its last statement: the record is the newest.                             *)
LEMMA WriteEnds ==
  ASSUME IInv, KeptInv, NEW l \in Context, Step(l), NEW b \in Starts, Writing(l, b),
         pc[l] = 6, Alone(l), hit = 0
  PROVE  /\ recent' \in Seq(Nat) /\ Len(recent') <= Kept
         /\ \A k \in 1 .. Len(recent') : Held(dbt_log_index, k)'
<1> DEFINE n == Mask(b + 2)
<1>1. /\ dbt_log_index = n /\ dbt_log_index' = n
      /\ dbt_log_buf' = [dbt_log_buf EXCEPT ![n + 1] = Bars]
  BY DEF Step, Statement, StoreWord, Writing, NoIndex
<1>2. dbt_log_buf \in [Indices -> Nat] /\ rec[l] \in Nat
  BY BoundsAssumption DEF IInv, TypeOK
<1>3. /\ n \in Starts /\ n # b /\ Slot(n, 1) = b
      /\ \A k \in 1 .. Kept - 1 : Slot(n, k + 1) = Slot(b, k) /\ Slot(b, k) # n
  BY SlotNext
<1> HIDE DEF n
<1>4. b \in Nat /\ b <= Size - 2 /\ b % 2 = 0 /\ n \in Nat /\ n <= Size - 2 /\ n % 2 = 0 /\ Size \in Nat
  BY <1>3, SizeAssumption DEF Starts
<1>5. ASSUME NEW c \in Starts, c # n
      PROVE  dbt_log_buf'[c] = dbt_log_buf[c] /\ dbt_log_buf'[c + 1] = dbt_log_buf[c + 1]
  <2>1. c \in Nat /\ c % 2 = 0 /\ c <= Size - 2
    BY <1>4 DEF Starts
  <2>2. c \in Indices /\ c + 1 \in Indices /\ n + 1 # c /\ n + 1 # c + 1
    BY <1>4, <1>5, <2>1 DEF Indices
  <2> QED BY <1>1, <1>2, <2>2
<1>6. recent' = LastOf(Append(recent, rec[l]), Kept)
  BY DEF Step, Alone
<1> DEFINE t == recent'
<1>7. /\ recent \in Seq(Nat) /\ Len(recent) <= Kept
      /\ t \in Seq(Nat) /\ Len(t) <= Kept /\ Len(t) >= 1 /\ t[Len(t)] = rec[l]
      /\ \A k \in 1 .. Len(t) - 1 : k <= Len(recent) /\ t[Len(t) - k] = recent[Len(recent) - k + 1]
  <2>1. recent \in Seq(Nat) /\ Len(recent) <= Kept
    BY DEF KeptInv
  <2> QED BY <1>2, <1>6, <2>1, LastAppended
<1>8. ASSUME NEW k \in 1 .. Len(t)
      PROVE  /\ dbt_log_buf'[Slot(n, k)] = Word(t[Len(t) - k + 1], 0)
             /\ dbt_log_buf'[Slot(n, k) + 1] = Word(t[Len(t) - k + 1], 1)
  <2> DEFINE m == Len(t)
  <2>1. m \in Nat /\ m <= Kept /\ Kept \in Nat
    BY <1>7, KeptSize
  <2>2. CASE k = 1
    <3>1. t[m - k + 1] = rec[l]
      <4>1. m - k + 1 = m
        BY <2>1, <2>2
      <4> QED BY <1>7, <4>1
    <3>2. dbt_log_buf[b] = Word(rec[l], 0) /\ dbt_log_buf[b + 1] = Word(rec[l], 1)
      BY DEF Writing
    <3> QED BY <1>3, <1>5, <2>2, <3>1, <3>2
  <2>3. CASE k # 1
    <3> DEFINE j == k - 1
    <3>1. j \in 1 .. m - 1 /\ j \in 1 .. Kept - 1 /\ k = j + 1 /\ m - k + 1 = m - j
      BY <2>1, <2>3
    <3> HIDE DEF j
    <3>2. j <= Len(recent) /\ t[m - j] = recent[Len(recent) - j + 1]
      BY <1>7, <3>1
    <3>3. j \in 1 .. Len(recent) /\ j < Kept
      BY <1>7, <2>1, <3>1, <3>2
    <3>4. Held(b, j)
      BY <3>3 DEF Writing
    <3>5. Slot(n, k) = Slot(b, j) /\ Slot(b, j) # n /\ Slot(b, j) \in Starts
      <4>1. j \in 1 .. Kept
        BY <2>1, <3>1
      <4> QED BY <1>3, <3>1, <4>1, SlotFacts
    <3>6. /\ dbt_log_buf'[Slot(n, k)] = dbt_log_buf[Slot(b, j)]
          /\ dbt_log_buf'[Slot(n, k) + 1] = dbt_log_buf[Slot(b, j) + 1]
      BY <1>5, <3>5
    <3> QED BY <3>1, <3>2, <3>4, <3>6 DEF Held
  <2> QED BY <2>2, <2>3
<1>9. \A k \in 1 .. Len(t) : Held(dbt_log_index, k)'
  BY <1>1, <1>8 DEF Held
<1> QED BY <1>7, <1>9

LEMMA StepKept ==
  ASSUME IInv, KeptInv, NEW l \in Context, Step(l)
  PROVE  KeptInv'
<1>1. /\ ~ Idle(l) /\ pc[l] \in 1 .. 6 /\ pc'[l] = (IF pc[l] = 6 THEN 0 ELSE pc[l] + 1)
      /\ \A m \in Context \ {l} : pc'[m] = pc[m]
  BY DEF Step, IInv, TypeOK, Idle
<1>2. \A m \in Context \ {l} : Idle(m)' = Idle(m)
  BY <1>1 DEF Idle
<1>3. Alone(l)' = Alone(l)
  BY <1>2 DEF Alone
<1>4. CASE pc[l] = 6 /\ Alone(l)
  <2>1. Quiet' /\ hit' = 0 /\ \A m \in Context : Idle(m)'
    BY <1>1, <1>2, <1>4 DEF Quiet, Idle, Alone, Step
  <2>2. CASE hit = 1
    <3>1. recent' = <<>> /\ Len(recent') = 0
      BY <1>4, <2>2 DEF Step, Alone
    <3> QED BY <2>1, <3>1, KeptSize DEF KeptInv
  <2>3. CASE hit = 0
    <3>1. PICK b \in Starts : Writing(l, b)
      BY <1>1, <2>3 DEF KeptInv
    <3>2. /\ recent' \in Seq(Nat) /\ Len(recent') <= Kept
          /\ \A k \in 1 .. Len(recent') : Held(dbt_log_index, k)'
      BY <1>4, <2>3, <3>1, WriteEnds
    <3> QED BY <2>1, <3>2 DEF KeptInv
  <2> QED BY <2>2, <2>3 DEF KeptInv
<1>5. CASE ~ (pc[l] = 6 /\ Alone(l))
  <2>1. hit' = hit /\ recent' = recent
    BY <1>5 DEF Step, Alone, history
  <2>2. ~ Quiet'
    BY <1>1, <1>2, <1>5 DEF Quiet, Alone, Idle
  <2>3. ASSUME hit' = 0, NEW m \in Context, ~ Idle(m)'
        PROVE  Alone(m)' /\ \E b \in Starts : Writing(m, b)'
    <3>1. hit = 0 /\ Alone(l) /\ pc[l] # 6
      BY <1>1, <1>5, <2>1, <2>3 DEF KeptInv
    <3>2. m = l
      BY <1>2, <2>3, <3>1 DEF Alone
    <3>3. PICK b \in Starts : Writing(l, b)
      BY <1>1, <3>1 DEF KeptInv
    <3>4. Writing(l, b)'
      BY <3>1, <3>3, WriteOn
    <3> QED BY <1>3, <3>1, <3>2, <3>4
  <2> QED BY <2>1, <2>2, <2>3 DEF KeptInv
<1> QED BY <1>4, <1>5

LEMMA PrintKept ==
  ASSUME KeptInv, UNCHANGED <<memory, reloads, pc, reg, rec, history>>
  PROVE  KeptInv'
BY DEF KeptInv, Writing, Held, Alone, Quiet, Idle, memory, history

LEMMA KeptStep == IInv /\ KeptInv /\ [Next]_vars => KeptInv'
<1> SUFFICES ASSUME IInv, KeptInv, [Next]_vars PROVE KeptInv'
  OBVIOUS
<1>1. ASSUME NEW l \in Context, Enter(l) \/ Load(l) \/ Step(l) PROVE KeptInv'
  BY <1>1, EnterKept, LoadKept, StepKept
<1>2. CASE (\E forward \in {0, 1}, n \in 1 .. MaxPrint : StartPrint(forward, n)) \/ PrintRecord
  BY <1>2, PrintKept DEF StartPrint, PrintRecord
<1>3. CASE UNCHANGED vars
  BY <1>3, PrintKept DEF vars
<1> QED BY <1>1, <1>2, <1>3 DEF Next

(* Records written without being preempted are in the ring, whole and in the
   order of time, whatever preempted writes have left before them.           *)
THEOREM RecordsKept == Spec => []RecentKept
<1>1. IInv /\ KeptInv => RecentKept
  <2> SUFFICES ASSUME IInv, KeptInv, Quiet, NEW k \in 1 .. Len(recent)
               PROVE  LET i == Mask(dbt_log_index - 2 * k + Size)
                          r == recent[Len(recent) - k + 1]
                      IN  dbt_log_buf[i] = Word(r, 0) /\ dbt_log_buf[i + 1] = Word(r, 1)
    BY DEF RecentKept
  <2>1. k \in 1 .. Kept /\ Held(dbt_log_index, k)
    BY KeptSize DEF KeptInv
  <2>2. Mask(dbt_log_index - 2 * k + Size) = Slot(dbt_log_index, k)
    BY <2>1, QuietIndex, SlotFacts
  <2> QED BY <2>1, <2>2 DEF Held
<1>2. Init => IInv /\ KeptInv
  BY InitInv, KeptInit
<1>3. IInv /\ KeptInv /\ [Next]_vars => IInv' /\ KeptInv'
  BY Inductive, KeptStep
<1> QED BY <1>1, <1>2, <1>3, PTL DEF Spec

-----------------------------------------------------------------------------
(* A print: the records it was asked for, and how far back the j-th it reads
   is from the insertion point.                                              *)
Asked    == Len(print.out) + print.left
BackOf(j) == IF print.forward = 1 THEN Asked - j + 1 ELSE j

Straight == print.from >= 2 * Asked \/ (print.forward = 1 /\ print.from = 0)

Fields == {"forward", "left", "at", "out", "from", "newest", "clean"}

(* A print during which nothing was written, of records that are there, in a
   part of the ring without its end.                                         *)
PrintKeeps ==
  /\ DOMAIN print = Fields /\ print.clean \in {0, 1}
  /\ print.clean = 1 =>
       /\ Quiet /\ print.from = dbt_log_index
       /\ print.forward \in {0, 1} /\ print.left \in Nat /\ print.out \in Seq(Int \X Int)
       /\ Asked >= 1 /\ print.newest = LastOf(recent, Asked)
       /\ Asked <= Len(recent) /\ Straight =>
            /\ print.left > 0 => print.at = Slot(print.from, BackOf(Len(print.out) + 1))
            /\ \A j \in 1 .. Len(print.out) :
                 print.out[j] = Record(recent[Len(recent) - BackOf(j) + 1])

(* Where a print goes on, away from the end of the ring.                      *)
LEMMA GoesOn ==
  ASSUME NEW b \in Starts, NEW k \in 1 .. Kept, NEW n \in Nat, k <= n
  PROVE  /\ k > 1 /\ (b >= 2 * n \/ b = 0) => Following(Slot(b, k), 1) = Slot(b, k - 1)
         /\ k < n /\ b >= 2 * n => Following(Slot(b, k), 0) = Slot(b, k + 1)
<1>1. Size \in Nat /\ Size >= 4 /\ Kept \in Nat /\ 2 * Kept = Size - 2 /\ b \in Nat /\ b <= Size - 2
  BY KeptSize, SizeAssumption DEF Starts
<1>2. k \in Nat /\ 1 <= k /\ 2 * k <= Size - 2
  BY <1>1
<1>3. ASSUME k > 1, b >= 2 * n
      PROVE  Following(Slot(b, k), 1) = Slot(b, k - 1)
  <2>1. Slot(b, k) = b - 2 * k /\ Slot(b, k - 1) = b - 2 * (k - 1)
    BY <1>1, <1>2, <1>3 DEF Slot
  <2> QED BY <1>1, <1>2, <1>3, <2>1 DEF Following
<1>4. ASSUME k > 1, b = 0
      PROVE  Following(Slot(b, k), 1) = Slot(b, k - 1)
  <2>1. Slot(b, k) = Size - 2 * k /\ Slot(b, k - 1) = Size - 2 * (k - 1)
    BY <1>1, <1>2, <1>4 DEF Slot
  <2> QED BY <1>1, <1>2, <1>4, <2>1 DEF Following
<1>5. ASSUME k < n, b >= 2 * n
      PROVE  Following(Slot(b, k), 0) = Slot(b, k + 1)
  <2>1. Slot(b, k) = b - 2 * k /\ Slot(b, k + 1) = b - 2 * (k + 1)
    BY <1>1, <1>2, <1>5 DEF Slot
  <2> QED BY <1>1, <1>2, <1>5, <2>1 DEF Following
<1> QED BY <1>3, <1>4, <1>5

LEMMA NoPrintKeeps == NoPrint.clean = 0 /\ DOMAIN NoPrint = Fields
BY DEF NoPrint, Fields

LEMMA StartKeeps ==
  ASSUME IInv, KeptInv, NEW forward \in {0, 1}, NEW n \in 1 .. MaxPrint, StartPrint(forward, n)
  PROVE  PrintKeeps'
<1> DEFINE p == [forward |-> forward, left |-> n,
               at |-> IF forward = 1 THEN Forward(n) ELSE Backward,
               out |-> <<>>, from |-> dbt_log_index, newest |-> LastOf(recent, n), clean |-> 1]
<1>1. print' = p /\ Quiet /\ Quiet' /\ UNCHANGED <<memory, recent>> /\ dbt_log_index' = dbt_log_index
  BY DEF StartPrint, Quiet, Idle, memory, history
<1>2. /\ DOMAIN p = Fields /\ p.clean = 1 /\ p.forward = forward /\ p.left = n /\ p.out = <<>>
      /\ p.from = dbt_log_index /\ p.newest = LastOf(recent, n)
      /\ p.at = IF forward = 1 THEN Forward(n) ELSE Backward
  BY DEF Fields
<1> HIDE DEF p
<1>3. n \in Nat /\ n >= 1
  BY BoundsAssumption
<1>4. Len(p.out) = 0 /\ p.out \in Seq(Int \X Int) /\ Asked' = n
  BY <1>1, <1>2, <1>3 DEF Asked
<1>5. dbt_log_index \in Starts
  BY <1>1, QuietIndex
<1>6. ASSUME Straight'
      PROVE  p.at = Slot(dbt_log_index, BackOf(1)')
  <2>1. dbt_log_index >= 2 * n \/ (forward = 1 /\ dbt_log_index = 0)
    BY <1>1, <1>2, <1>4, <1>6 DEF Straight
  <2>2. BackOf(1)' = IF forward = 1 THEN n ELSE 1
    BY <1>1, <1>2, <1>3, <1>4 DEF BackOf
  <2>3. dbt_log_index \in Nat /\ Size \in Nat
    BY <1>5, SizeAssumption DEF Starts
  <2> QED BY <1>2, <1>3, <2>1, <2>2, <2>3 DEF Forward, Backward, Slot
<1>7. \A j \in 1 .. Len(p.out) : FALSE
  BY <1>4
<1> QED BY <1>1, <1>2, <1>3, <1>4, <1>6, <1>7 DEF PrintKeeps

LEMMA RecordKeeps ==
  ASSUME IInv, KeptInv, PrintKeeps, PrintRecord
  PROVE  PrintKeeps'
<1> DEFINE r == <<At(print.at), At(print.at + 1)>>
<1>1. print' = [print EXCEPT !.left = print.left - 1, !.at = Following(print.at, print.forward),
                             !.out = Append(print.out, r)]
  BY DEF PrintRecord
<1>2. DOMAIN print = Fields
  BY DEF PrintKeeps
<1>3. /\ DOMAIN print' = Fields
      /\ print'.left = print.left - 1 /\ print'.at = Following(print.at, print.forward)
      /\ print'.out = Append(print.out, r)
      /\ print'.forward = print.forward /\ print'.from = print.from
      /\ print'.newest = print.newest /\ print'.clean = print.clean
  BY <1>1, <1>2 DEF Fields
<1>4. /\ UNCHANGED <<memory, recent>> /\ dbt_log_index' = dbt_log_index /\ Quiet' = Quiet
      /\ dbt_log_buf' = dbt_log_buf /\ print.left > 0
  BY DEF PrintRecord, memory, history, Quiet, Idle
<1>5. print.clean \in {0, 1} /\ print'.clean \in {0, 1}
  BY <1>3 DEF PrintKeeps
<1>6. CASE print.clean = 1
  <2>1. /\ Quiet /\ print.from = dbt_log_index /\ print.forward \in {0, 1} /\ print.left \in Nat
        /\ print.out \in Seq(Int \X Int) /\ Asked >= 1 /\ print.newest = LastOf(recent, Asked)
    BY <1>6 DEF PrintKeeps
  <2> DEFINE n == Asked
             m == Len(print.out)
  <2>2. m \in Nat /\ n = m + print.left /\ n \in Nat
    BY <2>1 DEF Asked
  <2>3. \A i : At(i) \in Int
    BY DEF At, Stray, IInv, TypeOK
  <2>4. r \in Int \X Int
    BY <2>3
  <2> HIDE DEF r
  <2>5. /\ print'.out \in Seq(Int \X Int) /\ Len(print'.out) = m + 1
        /\ print'.out[m + 1] = r /\ \A j \in 1 .. m : print'.out[j] = print.out[j]
    BY <1>3, <2>1, <2>4
  <2>6. print'.left \in Nat
    BY <1>3, <1>4, <2>1
  <2>7. Asked' = n
    <3>1. Asked' = (m + 1) + (print.left - 1)
      BY <1>3, <2>5 DEF Asked
    <3>2. (m + 1) + (print.left - 1) = m + print.left
      BY <2>1, <2>2
    <3> QED BY <2>2, <3>1, <3>2
  <2>8. Straight' = Straight /\ \A j : BackOf(j)' = BackOf(j)
    BY <1>3, <2>7 DEF Straight, BackOf
  <2>9. ASSUME n <= Len(recent), Straight
        PROVE  /\ print'.left > 0 => print'.at = Slot(print.from, BackOf(m + 2))
               /\ r = Record(recent[Len(recent) - BackOf(m + 1) + 1])
    <3> DEFINE b == dbt_log_index
               k == BackOf(m + 1)
    <3>1. /\ b \in Starts /\ b \in Nat /\ b <= Size - 2 /\ b % 2 = 0
          /\ Size \in Nat /\ Size >= 4 /\ Size % 2 = 0
      BY <2>1, QuietIndex, SizeAssumption DEF Starts
    <3>2. Len(recent) \in Nat /\ Len(recent) <= Kept /\ Kept \in Nat /\ 2 * Kept = Size - 2
      BY KeptSize DEF KeptInv
    <3>3. k = (IF print.forward = 1 THEN n - m ELSE m + 1) /\ k \in 1 .. n
      BY <1>4, <2>1, <2>2 DEF BackOf
    <3>4. k \in 1 .. Kept /\ k \in 1 .. Len(recent)
      BY <2>2, <2>9, <3>2, <3>3
    <3>5. Slot(b, k) \in Starts
      BY <3>1, <3>4, SlotFacts
    <3>6. print.at = Slot(b, k)
      BY <1>4, <1>6, <2>1, <2>9 DEF PrintKeeps
    <3>7. Held(b, k)
      BY <2>1, <3>4 DEF KeptInv
    <3> HIDE DEF b
    <3>8. Slot(b, k) \in Indices /\ Slot(b, k) + 1 \in Indices
      BY <3>1, <3>5 DEF Starts, Indices
    <3>9. r = Record(recent[Len(recent) - k + 1])
      BY <3>6, <3>7, <3>8 DEF r, At, Held, Record
    <3>10. b >= 2 * n \/ (print.forward = 1 /\ b = 0)
      BY <2>1, <2>9 DEF Straight, b
    <3>11. ASSUME print'.left > 0
           PROVE  print'.at = Slot(b, BackOf(m + 2))
      <4>1. m + 2 <= n
        BY <1>3, <2>1, <2>2, <3>11
      <4>2. BackOf(m + 2) = IF print.forward = 1 THEN n - m - 1 ELSE m + 2
        BY <2>2 DEF BackOf
      <4>3. CASE print.forward = 1
        <5>1. k = n - m /\ k >= 2 /\ BackOf(m + 2) = k - 1
          BY <2>2, <3>3, <4>1, <4>2, <4>3
        <5>2. Following(Slot(b, k), 1) = Slot(b, k - 1)
          <6>1. k > 1 /\ k <= n /\ (b >= 2 * n \/ b = 0)
            BY <3>3, <3>10, <5>1
          <6> HIDE DEF k, n
          <6> QED BY <2>2, <3>1, <3>4, <6>1, GoesOn
        <5> QED BY <1>3, <3>6, <4>3, <5>1, <5>2
      <4>4. CASE print.forward # 1
        <5>1. k = m + 1 /\ BackOf(m + 2) = k + 1 /\ k + 1 <= n
          BY <2>2, <3>3, <4>1, <4>2, <4>4
        <5>2. Following(Slot(b, k), 0) = Slot(b, k + 1)
          <6>1. k < n /\ k <= n /\ b >= 2 * n
            BY <2>2, <3>3, <3>10, <4>4, <5>1
          <6> HIDE DEF k, n
          <6> QED BY <2>2, <3>1, <3>4, <6>1, GoesOn
        <5>3. print.forward = 0
          BY <2>1, <4>4
        <5> QED BY <1>3, <3>6, <5>1, <5>2, <5>3
      <4> QED BY <4>3, <4>4
    <3> QED BY <2>1, <3>9, <3>11 DEF b
  <2>10. ASSUME Asked' <= Len(recent'), Straight'
         PROVE  /\ print'.left > 0 => print'.at = Slot(print'.from, BackOf(Len(print.out) + 1)')
                /\ \A j \in 1 .. Len(print'.out) :
                     print'.out[j] = Record(recent'[Len(recent') - BackOf(j)' + 1])
    <3>1. n <= Len(recent) /\ Straight
      BY <1>4, <2>7, <2>8, <2>10
    <3>2. m + 1 + 1 = m + 2
      BY <2>2
    <3>3. \A j \in 1 .. m : print.out[j] = Record(recent[Len(recent) - BackOf(j) + 1])
      BY <1>6, <3>1 DEF PrintKeeps
    <3>4. ASSUME NEW j \in 1 .. m + 1
          PROVE  print'.out[j] = Record(recent[Len(recent) - BackOf(j) + 1])
      <4>1. CASE j = m + 1
        BY <2>5, <2>9, <3>1, <4>1
      <4>2. CASE j # m + 1
        <5>1. j \in 1 .. m
          BY <2>2, <4>2
        <5> QED BY <2>5, <3>3, <5>1
      <4> QED BY <4>1, <4>2
    <3>5. ASSUME print'.left > 0
          PROVE  print'.at = Slot(print'.from, BackOf(Len(print.out) + 1)')
      <4>1. print'.at = Slot(print.from, BackOf(m + 2))
        BY <2>9, <3>1, <3>5
      <4>2. BackOf(Len(print.out) + 1)' = BackOf(m + 2)
        <5>1. Len(print'.out) + 1 = m + 2
          BY <2>5, <3>2
        <5>2. BackOf(Len(print.out) + 1)' = IF print'.forward = 1 THEN Asked' - (Len(print'.out) + 1) + 1
                                                                  ELSE Len(print'.out) + 1
          BY DEF BackOf
        <5> QED BY <1>3, <2>7, <5>1, <5>2 DEF BackOf
      <4> QED BY <1>3, <4>1, <4>2
    <3>6. ASSUME NEW j \in 1 .. Len(print'.out)
          PROVE  print'.out[j] = Record(recent'[Len(recent') - BackOf(j)' + 1])
      <4>1. recent' = recent /\ BackOf(j)' = BackOf(j) /\ j \in 1 .. m + 1
        BY <1>4, <2>5, <2>8
      <4> QED BY <3>4, <4>1
    <3> QED BY <3>5, <3>6
  <2>11. Quiet' /\ print'.from = dbt_log_index' /\ print'.forward \in {0, 1}
    BY <1>3, <1>4, <2>1
  <2>12. Asked' >= 1 /\ print'.newest = LastOf(recent', Asked')
    BY <1>3, <1>4, <2>1, <2>7
  <2> QED BY <1>3, <1>5, <2>5, <2>6, <2>10, <2>11, <2>12 DEF PrintKeeps
<1>7. CASE print.clean = 0
  BY <1>3, <1>5, <1>7 DEF PrintKeeps
<1> QED BY <1>5, <1>6, <1>7

LEMMA WritesKeep ==
  ASSUME PrintKeeps, NEW l \in Context, Enter(l) \/ Load(l) \/ Step(l)
  PROVE  PrintKeeps'
<1>1. CASE Enter(l)
  <2>1. print' = NoPrint \/ print' = [print EXCEPT !.clean = 0]
    BY <1>1 DEF Enter
  <2>2. DOMAIN print' = Fields /\ print'.clean = 0
    BY <2>1, NoPrintKeeps DEF PrintKeeps, Fields
  <2> QED BY <2>2 DEF PrintKeeps
<1>2. CASE Load(l) \/ Step(l)
  <2>1. print' = print /\ ~ Quiet
    BY <1>2 DEF Load, Step, Quiet
  <2>2. print.clean = 0
    BY <2>1 DEF PrintKeeps
  <2> QED BY <2>1, <2>2 DEF PrintKeeps
<1> QED BY <1>1, <1>2

LEMMA PrintStep == IInv /\ KeptInv /\ PrintKeeps /\ [Next]_vars => PrintKeeps'
<1> SUFFICES ASSUME IInv, KeptInv, PrintKeeps, [Next]_vars PROVE PrintKeeps'
  OBVIOUS
<1>1. ASSUME NEW l \in Context, Enter(l) \/ Load(l) \/ Step(l) PROVE PrintKeeps'
  BY <1>1, WritesKeep
<1>2. ASSUME NEW forward \in {0, 1}, NEW n \in 1 .. MaxPrint, StartPrint(forward, n)
      PROVE  PrintKeeps'
  BY <1>2, StartKeeps
<1>3. CASE PrintRecord
  BY <1>3, RecordKeeps
<1>4. CASE UNCHANGED vars
  BY <1>4 DEF PrintKeeps, vars, Quiet, Idle, Asked, BackOf, Straight, history, memory
<1> QED BY <1>1, <1>2, <1>3, <1>4 DEF Next

LEMMA Printed ==
  ASSUME IInv, KeptInv, PrintKeeps, Undisturbed, ~ Crosses
  PROVE  PrintedLog
<1> DEFINE n == Len(print.out)
           t == print.newest
<1>1. /\ print.left = 0 /\ print.clean = 1 /\ n = Len(t)
      /\ print.out \in Seq(Int \X Int) /\ print.forward \in {0, 1} /\ print.from = dbt_log_index
      /\ t = LastOf(recent, Asked)
  BY DEF Undisturbed, PrintKeeps
<1>2. n \in Nat /\ Asked = n /\ n >= 1
  <2>1. Asked >= 1
    BY <1>1 DEF PrintKeeps
  <2> QED BY <1>1, <2>1 DEF Asked
<1>3. recent \in Seq(Nat) /\ Len(recent) \in Nat
  BY DEF KeptInv
<1>4. n <= Len(recent) /\ t \in Seq(Nat) /\ \A i \in 1 .. n : t[i] = recent[Len(recent) - n + i]
  <2>1. CASE Len(recent) <= n
    <3>1. t = recent
      BY <1>1, <1>2, <2>1 DEF LastOf
    <3>2. Len(recent) = n
      BY <1>1, <3>1
    <3>3. \A i \in 1 .. n : Len(recent) - n + i = i
      BY <1>2, <3>2
    <3> QED BY <1>3, <2>1, <3>1, <3>2, <3>3
  <2>2. CASE ~ (Len(recent) <= n)
    <3> DEFINE e == Len(recent)
               a == e - n + 1
    <3>1. t = SubSeq(recent, a, e)
      BY <1>1, <1>2, <2>2 DEF LastOf
    <3>2. a \in 1 .. e /\ e \in Nat /\ n <= e
      BY <1>2, <1>3, <2>2
    <3> HIDE DEF a
    <3>3. t \in Seq(Nat) /\ \A i \in 1 .. e - a + 1 : t[i] = recent[a + i - 1]
      BY <1>3, <3>1, <3>2
    <3>4. e - a + 1 = n /\ \A i \in 1 .. n : a + i - 1 = e - n + i
      BY <1>2, <3>2 DEF a
    <3> QED BY <3>2, <3>3, <3>4
  <2> QED BY <2>1, <2>2
<1>5. Straight
  <2>1. print.from \in Nat
    BY <1>1, QuietIndex DEF PrintKeeps, Starts
  <2> QED BY <1>1, <1>2, <2>1 DEF Crosses, Straight
<1>6. \A j \in 1 .. n : print.out[j] = Record(recent[Len(recent) - BackOf(j) + 1])
  BY <1>1, <1>2, <1>4, <1>5 DEF PrintKeeps
<1>7. Lines(t) = [j \in 1 .. n |-> Record(t[j])]
  BY <1>1, <1>4 DEF Lines
<1>8. print.out = [j \in 1 .. n |-> print.out[j]]
  BY <1>1
<1>9. CASE print.forward = 1
  <2>1. ASSUME NEW j \in 1 .. n
        PROVE  print.out[j] = Record(t[j])
    <3>1. Len(recent) - BackOf(j) + 1 = Len(recent) - n + j
      BY <1>2, <1>3, <1>9 DEF BackOf
    <3> QED BY <1>4, <1>6, <3>1
  <2> QED BY <1>7, <1>8, <1>9, <2>1 DEF PrintedLog
<1>10. CASE print.forward # 1
  <2> DEFINE s == Lines(t)
  <2>1. Len(s) = n /\ \A j \in 1 .. n : s[j] = Record(t[j])
    BY <1>2, <1>7
  <2>2. ASSUME NEW j \in 1 .. n
        PROVE  print.out[j] = s[n - j + 1]
    <3> DEFINE i == n - j + 1
    <3>1. BackOf(j) = j
      BY <1>10 DEF BackOf
    <3>2. i \in 1 .. n
      BY <1>2
    <3>3. Len(recent) - j + 1 = Len(recent) - n + i
      <4> DEFINE e == Len(recent)
                 c == n
      <4>1. e \in Nat /\ c \in Nat /\ j \in Nat
        BY <1>2, <1>3
      <4> HIDE DEF e, c
      <4>2. e - j + 1 = e - c + (c - j + 1)
        BY <4>1
      <4> QED BY <4>2 DEF e, c
    <3> HIDE DEF i
    <3>4. t[i] = recent[Len(recent) - j + 1]
      BY <1>4, <3>2, <3>3
    <3>5. print.out[j] = Record(t[i])
      BY <1>6, <3>1, <3>4
    <3>6. s[i] = Record(t[i])
      BY <2>1, <3>2
    <3> QED BY <3>5, <3>6 DEF i
  <2> HIDE DEF s
  <2>3. Reverse(s) = [j \in 1 .. n |-> s[n - j + 1]]
    BY <2>1 DEF Reverse
  <2> QED BY <1>8, <1>10, <2>2, <2>3 DEF PrintedLog, s
<1> QED BY <1>9, <1>10

(* A print during which nothing is written, and that does not cross the end of
   the ring, shows the last records in the order asked for.                  *)
THEOREM PrintsTrue == Spec => []PrintsNewest
<1>1. IInv /\ KeptInv /\ PrintKeeps => PrintsNewest
  BY Printed DEF PrintsNewest
<1>2. Init => IInv /\ KeptInv /\ PrintKeeps
  BY InitInv, KeptInit, NoPrintKeeps DEF Init, PrintKeeps
<1>3. IInv /\ KeptInv /\ PrintKeeps /\ [Next]_vars => IInv' /\ KeptInv' /\ PrintKeeps'
  BY Inductive, KeptStep, PrintStep
<1> QED BY <1>1, <1>2, <1>3, PTL DEF Spec
=============================================================================
