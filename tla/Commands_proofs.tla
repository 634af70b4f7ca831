--------------------------- MODULE Commands_proofs --------------------------
(* Proofs about Commands, for any words and any bytes of the chip: types,     *)
(* samples and names; then what a register entry writes, what loop touches,   *)
(* what dump shows and how numbers are read back.                             *)
EXTENDS Commands, FoldLemmas

(* The two tables.                                                            *)
LEMMA TableSize ==
  /\ DOMAIN acc_reg = 1 .. 30 /\ Len(acc_reg) = 30
  /\ DOMAIN mag_reg = 1 .. 15 /\ Len(mag_reg) = 15
<1>1. DOMAIN acc_reg = 1 .. 30
  BY DEF acc_reg
<1>2. DOMAIN mag_reg = 1 .. 15
  BY DEF mag_reg
<1>3. ASSUME NEW t, NEW n \in Nat, t = [i \in 1 .. n |-> t[i]]
      PROVE  Len(t) = n
  <2>1. t \in Seq({t[i] : i \in 1 .. n})
    BY <1>3
  <2> QED BY <2>1, <1>3
<1>4. acc_reg = [i \in 1 .. 30 |-> acc_reg[i]] /\ mag_reg = [i \in 1 .. 15 |-> mag_reg[i]]
  BY <1>1, <1>2 DEF acc_reg, mag_reg
<1>5. Len(acc_reg) = 30 /\ Len(mag_reg) = 15
  BY <1>3, <1>4
<1> QED BY <1>1, <1>2, <1>5

LEMMA TableLength ==
  ASSUME NEW d
  PROVE  Len(Table(d)) \in Nat \ {0} /\ DOMAIN Table(d) = 1 .. Len(Table(d))
<1>1. CASE d = Acc
  <2>1. Table(d) = acc_reg
    BY <1>1 DEF Table
  <2>2. Len(acc_reg) \in Nat \ {0}
    BY TableSize
  <2>3. DOMAIN acc_reg = 1 .. Len(acc_reg)
    BY TableSize
  <2> QED BY <2>1, <2>2, <2>3, Zenon
<1>2. CASE d # Acc
  <2>1. Table(d) = mag_reg
    BY <1>2 DEF Table
  <2>2. Len(mag_reg) \in Nat \ {0}
    BY TableSize
  <2>3. DOMAIN mag_reg = 1 .. Len(mag_reg)
    BY TableSize
  <2> QED BY <2>1, <2>2, <2>3, Zenon
<1> QED BY <1>1, <1>2

LEMMA HexDigits ==
  ASSUME NEW c \in Range(hexchar)
  PROVE  ValueOf(c) \in 0 .. 15
<1>1. PICK d \in 1 .. 16 : hexchar[d] = c
  BY DEF Range, hexchar
<1>2. (CHOOSE e \in 1 .. 16 : hexchar[e] = c) \in 1 .. 16
  BY <1>1
<1> QED BY <1>2 DEF ValueOf

(* What the prompt leaves is a byte if what it was given is.                  *)
LEMMA PromptTypes ==
  ASSUME NEW digits \in 0 .. MaxDigits, NEW value \in 0 .. 255, Prompt(digits, value)
  PROVE  getting_value' \in 0 .. MaxDigits /\ set_value' \in 0 .. 255
BY LsmAssumption DEF Prompt

LEMMA MoveTypes ==
  ASSUME LsmTypeOK, mode = "session", NEW c, LsmMove(c)
  PROVE  /\ lsm303_probe_index' \in DOMAIN Table(lsm303_probe_dev_num)
         /\ getting_value' \in 0 .. MaxDigits /\ set_value' \in 0 .. 255
<1> DEFINE n == Len(Table(lsm303_probe_dev_num))
<1>1. n \in Nat \ {0} /\ DOMAIN Table(lsm303_probe_dev_num) = 1 .. n
  BY TableLength
<1>2. lsm303_probe_index \in 1 .. n
  BY <1>1 DEF LsmTypeOK
<1> HIDE DEF n
<1>3. lsm303_probe_index' \in 1 .. n
  <2>1. lsm303_probe_index' \in {Wrap(lsm303_probe_index + 1, n), Wrap(lsm303_probe_index - 1, n)}
    BY DEF LsmMove, n
  <2> QED BY <1>1, <1>2, <2>1 DEF Wrap
<1> QED BY <1>1, <1>3, PromptTypes DEF LsmTypeOK, LsmMove

LEMMA EntryTypes ==
  ASSUME LsmTypeOK, NEW c, LsmReturn(c) \/ LsmErase(c) \/ LsmDigit(c) \/ LsmForget(c)
  PROVE  /\ getting_value' \in 0 .. MaxDigits /\ set_value' \in 0 .. 255
         /\ UNCHANGED lsm303_probe_index
<1> USE LsmAssumption
<1>1. getting_value \in 0 .. MaxDigits /\ set_value \in 0 .. 255
  BY DEF LsmTypeOK
<1>2. CASE LsmReturn(c)
  <2>1. Prompt(0, 0) \/ Prompt(0, set_value)
    BY <1>2 DEF LsmReturn
  <2>2. 0 \in 0 .. MaxDigits /\ 0 \in 0 .. 255
    OBVIOUS
  <2> QED BY <1>1, <1>2, <2>1, <2>2, PromptTypes DEF LsmReturn
<1>3. CASE LsmErase(c)
  <2>1. DropDigit(set_value) \in 0 .. 255
    BY <1>1 DEF DropDigit
  <2> QED BY <1>1, <1>3, <2>1, PromptTypes DEF LsmErase
<1>4. CASE LsmDigit(c)
  <2>1. ((set_value * 16) % 256) + ValueOf(c) \in 0 .. 255
    <3>1. ValueOf(c) \in 0 .. 15
      BY <1>4, HexDigits DEF LsmDigit
    <3>2. (set_value * 16) % 256 \in 0 .. 240
      BY <1>1
    <3> QED BY <3>1, <3>2
  <2>2. getting_value + 1 \in 0 .. MaxDigits
    BY <1>1, <1>4 DEF LsmDigit
  <2>3. Prompt(getting_value + 1, ((set_value * 16) % 256) + ValueOf(c)) /\ UNCHANGED lsm303_probe_index
    BY <1>4 DEF LsmDigit
  <2> QED BY <2>1, <2>2, <2>3, PromptTypes
<1>5. CASE LsmForget(c)
  BY <1>5, PromptTypes DEF LsmForget
<1> QED BY <1>2, <1>3, <1>4, <1>5

(* Every command and every end of a session or display leaves the input to the
   shell, and the sessions' state alone.                                      *)
LEMMA CommandEnds ==
  ASSUME mode' \in {"prompt", "shell", "fault"}, UNCHANGED lsmVars, LsmTypeOK
  PROVE  LsmTypeOK'
BY DEF LsmTypeOK, lsmVars, probeState, typing, display

LEMMA OthersEnd ==
  ASSUME Others
  PROVE  mode' = "prompt"
BY DEF Others, Show, Loop, Dump, Map, I2cReg, SpiReg, RegAccess

LEMMA LsmTypesInit == Init => LsmTypeOK
<1> SUFFICES ASSUME Init
             PROVE  LsmTypeOK
  OBVIOUS
<1>1. <<>> \in Seq(Data) /\ DOMAIN NoBytes = 0 .. 7
  BY DEF NoBytes
<1> QED BY <1>1, LsmAssumption DEF Init, LsmTypeOK

LEMMA LsmTypesNext == LsmTypeOK /\ [Next]_vars => LsmTypeOK'
<1> SUFFICES ASSUME LsmTypeOK, [Next]_vars
             PROVE  LsmTypeOK'
  OBVIOUS
<1> USE LsmAssumption
<1>1. CASE Fresh /\ Others /\ UNCHANGED lsmVars
  BY <1>1, OthersEnd, CommandEnds
<1>2. CASE LsmAccess
  <2>1. CASE LsmBadDevice \/ LsmRead \/ LsmWrite \/ LsmUnknown
    BY <2>1, CommandEnds DEF LsmBadDevice, LsmRead, LsmReadAll, LsmReadOne, LsmWrite, LsmUnknown, Unset
  <2>2. CASE LsmDisplay
    <3>1. left' \in 0 .. MaxSamples
      BY <2>2 DEF LsmDisplay
    <3>2. DOMAIN ret_val' = 0 .. 7 /\ got' \in Seq(Data)
      BY <2>2 DEF LsmDisplay, NoBytes
    <3>3. mode' = "display" /\ UNCHANGED <<probeState, typing>>
      BY <2>2 DEF LsmDisplay
    <3> QED BY <3>1, <3>2, <3>3 DEF LsmTypeOK, probeState, typing
  <2> QED BY <1>2, <2>1, <2>2 DEF LsmAccess
<1>3. CASE LsmSession
  <2>1. lsm303_probe_index' = 1 /\ lsm303_probe_dev_num' \in {Acc, Mag}
    <3>1. Device \in {Acc, Mag, 0}
      BY DEF Device
    <3>2. Device # 0 /\ lsm303_probe_dev_num' = Device /\ lsm303_probe_index' = 1
      BY <1>3 DEF LsmSession, LsmProbe, StartIndex
    <3> QED BY <3>1, <3>2, Zenon
  <2>2. lsm303_probe_index' \in DOMAIN Table(lsm303_probe_dev_num')
    BY <2>1, TableLength
  <2>3. mode' = "session" /\ UNCHANGED <<typing, display>>
    BY <1>3 DEF LsmSession, LsmProbe
  <2> QED BY <2>1, <2>2, <2>3 DEF LsmTypeOK, typing, display, Table
<1>4. CASE Display
  <2>1. /\ mode = "display" /\ mode' = mode /\ left \in 1 .. MaxSamples
        /\ UNCHANGED <<probeState, typing>>
    BY <1>4 DEF Display, LsmTypeOK
  <2>2. left' \in 0 .. MaxSamples /\ DOMAIN ret_val' = 0 .. 7 /\ got' \in Seq(Data)
    <3>1. CASE SensorByte
      <4>1. PICK b \in Data : got' = Append(got, b) /\ ret_val' = [ret_val EXCEPT ![5 - Len(got)] = b]
        BY <3>1 DEF SensorByte
      <4>2. got' \in Seq(Data)
        BY <4>1 DEF LsmTypeOK
      <4> QED BY <2>1, <3>1, <4>1, <4>2 DEF SensorByte, LsmTypeOK
    <3>2. ASSUME NEW bytes, ShowSample(bytes)
          PROVE  left' \in 0 .. MaxSamples /\ DOMAIN ret_val' = 0 .. 7 /\ got' \in Seq(Data)
      BY <2>1, <3>2 DEF ShowSample, NoBytes
    <3> QED BY <1>4, <3>1, <3>2 DEF Display, SensorFails
  <2> QED BY <2>1, <2>2 DEF LsmTypeOK, probeState, typing
<1>5. CASE DisplayEnd
  BY <1>5, CommandEnds DEF DisplayEnd, Unset
<1>6. ASSUME NEW c \in Keys, Session(c)
      PROVE  LsmTypeOK'
  <2>1. CASE LsmClose(c)
    BY <2>1, CommandEnds DEF LsmClose
  <2>2. CASE /\ LsmMove(c) \/ LsmReturn(c) \/ LsmErase(c) \/ LsmDigit(c) \/ LsmForget(c)
             /\ UNCHANGED <<mode, lsm303_probe_dev_num, display>>
    <3>1. mode = "session"
      BY <1>6 DEF Session
    <3>2. CASE LsmMove(c)
      <4>1. /\ lsm303_probe_index' \in DOMAIN Table(lsm303_probe_dev_num)
            /\ getting_value' \in 0 .. MaxDigits /\ set_value' \in 0 .. 255
        BY <3>1, <3>2, MoveTypes
      <4> QED BY <2>2, <3>1, <4>1 DEF LsmTypeOK, display, Table
    <3>3. CASE LsmReturn(c) \/ LsmErase(c) \/ LsmDigit(c) \/ LsmForget(c)
      <4>1. /\ UNCHANGED lsm303_probe_index
            /\ getting_value' \in 0 .. MaxDigits /\ set_value' \in 0 .. 255
        BY <3>3, EntryTypes
      <4> QED BY <2>2, <3>1, <4>1 DEF LsmTypeOK, display, Table
    <3> QED BY <2>2, <3>2, <3>3
  <2> QED BY <1>6, <2>1, <2>2 DEF Session
<1>7. CASE Reprompt /\ UNCHANGED lsmVars
  BY <1>7, CommandEnds DEF Reprompt
<1>8. CASE UNCHANGED vars
  BY <1>8 DEF LsmTypeOK, vars, lsmVars, probeState, typing, display, Table
<1> QED BY <1>1, <1>2, <1>3, <1>4, <1>5, <1>6, <1>7, <1>8 DEF Next

(* Types of the driver; the register of a session is one of its device.       *)
THEOREM LsmTypes == Spec => []LsmTypeOK
<1>1. Init => LsmTypeOK
  BY LsmTypesInit
<1>2. LsmTypeOK /\ [Next]_vars => LsmTypeOK'
  BY LsmTypesNext
<1> QED BY <1>1, <1>2, PTL DEF Spec

-----------------------------------------------------------------------------
(* Samples.  While one is read, the byte with the number i from the end is the
   i-th one that was got.                                                     *)
SampleInv ==
  /\ mode = "display" => dev \in {Acc, Mag}
  /\ Len(got) <= 6
  /\ \A i \in 1 .. Len(got) : ret_val[6 - i] = got[i]
  /\ SampleWhole

(* The registers of the bytes of a sample.                                    *)
AxisName(d) ==
  <<"out_xh", "out_xl", "out_yh", IF d = Acc THEN "out_yl" ELSE "out_ly", "out_zh", "out_zl">>

LEMMA AccAxis ==
  ASSUME NEW i \in 1 .. 6, NEW names
  PROVE  (\E r \in Range(acc_reg) : r.num = sensor_num(Acc)[i] /\ r.name \in names)
           <=> AxisName(Acc)[i] \in names
<1> DEFINE j == sensor_num(Acc)[i] - 31
<1>1. \A m \in 1 .. 30 : acc_reg[m].num = 31 + m
  BY DEF acc_reg, R
<1>2. j \in 1 .. 30 /\ sensor_num(Acc)[i] = 31 + j
  BY DEF sensor_num
<1>3. acc_reg[j].name = AxisName(Acc)[i]
  <2>1. /\ acc_reg[9].name = "out_xl" /\ acc_reg[10].name = "out_xh"
        /\ acc_reg[11].name = "out_yl" /\ acc_reg[12].name = "out_yh"
        /\ acc_reg[13].name = "out_zl" /\ acc_reg[14].name = "out_zh"
    BY DEF acc_reg, R
  <2> QED BY <2>1 DEF sensor_num, AxisName
<1>4. Range(acc_reg) = {acc_reg[m] : m \in 1 .. 30}
  BY TableSize DEF Range
<1> HIDE DEF j
<1>5. ASSUME NEW m \in 1 .. 30, acc_reg[m].num = sensor_num(Acc)[i]
      PROVE  m = j
  BY <1>1, <1>2, <1>5
<1>6. ASSUME NEW r \in Range(acc_reg), r.num = sensor_num(Acc)[i], r.name \in names
      PROVE  AxisName(Acc)[i] \in names
  <2>1. PICK m \in 1 .. 30 : r = acc_reg[m]
    BY <1>4, <1>6
  <2>2. r = acc_reg[j]
    BY <2>1, <1>5, <1>6
  <2> QED BY <2>2, <1>3, <1>6
<1>7. acc_reg[j] \in Range(acc_reg) /\ acc_reg[j].num = sensor_num(Acc)[i]
  BY <1>1, <1>2, <1>4
<1> QED BY <1>3, <1>6, <1>7

LEMMA MagAxis ==
  ASSUME NEW i \in 1 .. 6, NEW names
  PROVE  (\E r \in Range(mag_reg) : r.num = sensor_num(Mag)[i] /\ r.name \in names)
           <=> AxisName(Mag)[i] \in names
<1> DEFINE j == sensor_num(Mag)[i] + 1
<1>1. \A m \in 1 .. 15 : mag_reg[m].num = IF m < 14 THEN m - 1 ELSE m + 35
  BY DEF mag_reg, R
<1>2. j \in 1 .. 13 /\ sensor_num(Mag)[i] = j - 1
  BY DEF sensor_num, Acc, Mag
<1>3. mag_reg[j].name = AxisName(Mag)[i]
  <2>1. /\ mag_reg[4].name = "out_xh" /\ mag_reg[5].name = "out_xl"
        /\ mag_reg[6].name = "out_zh" /\ mag_reg[7].name = "out_zl"
        /\ mag_reg[8].name = "out_yh" /\ mag_reg[9].name = "out_ly"
    BY DEF mag_reg, R
  <2> QED BY <2>1 DEF sensor_num, AxisName, Acc, Mag
<1>4. Range(mag_reg) = {mag_reg[m] : m \in 1 .. 15}
  BY TableSize DEF Range
<1> HIDE DEF j
<1>5. ASSUME NEW m \in 1 .. 15, mag_reg[m].num = sensor_num(Mag)[i]
      PROVE  m = j
  BY <1>1, <1>2, <1>5
<1>6. ASSUME NEW r \in Range(mag_reg), r.num = sensor_num(Mag)[i], r.name \in names
      PROVE  AxisName(Mag)[i] \in names
  <2>1. PICK m \in 1 .. 15 : r = mag_reg[m]
    BY <1>4, <1>6
  <2>2. r = mag_reg[j]
    BY <2>1, <1>5, <1>6
  <2> QED BY <2>2, <1>3, <1>6
<1>7. mag_reg[j] \in Range(mag_reg) /\ mag_reg[j].num = sensor_num(Mag)[i]
  BY <1>1, <1>2, <1>4
<1> QED BY <1>3, <1>6, <1>7

LEMMA PartIs ==
  ASSUME NEW s, s.dev \in {Acc, Mag}, NEW names, NEW k \in 1 .. 6,
         \A i \in 1 .. 6 : AxisName(s.dev)[i] \in names <=> i = k
  PROVE  Part(s, names) = s.got[k]
<1> DEFINE Is(i) == \E r \in Range(Table(s.dev)) : r.num = sensor_num(s.dev)[i] /\ r.name \in names
<1>1. \A i \in 1 .. 6 : Is(i) <=> i = k
  <2>1. CASE s.dev = Acc
    BY <2>1, AccAxis DEF Table
  <2>2. CASE s.dev = Mag
    <3>1. Table(s.dev) = mag_reg
      BY <2>2 DEF Table, Acc, Mag
    <3> QED BY <2>2, <3>1, MagAxis
  <2> QED BY <2>1, <2>2
<1>2. (CHOOSE i \in 1 .. 6 : Is(i)) = k
  BY <1>1
<1> QED BY <1>2 DEF Part

LEMMA AxesAre ==
  ASSUME NEW s, s.dev \in {Acc, Mag}
  PROVE  Axes(s) = {256 * s.got[1] + s.got[2], 256 * s.got[3] + s.got[4], 256 * s.got[5] + s.got[6]}
<1> DEFINE n == AxisName(s.dev)
<1>1. /\ n[1] = "out_xh" /\ n[2] = "out_xl" /\ n[3] = "out_yh"
      /\ n[4] \in {"out_yl", "out_ly"} /\ n[5] = "out_zh" /\ n[6] = "out_zl"
  BY DEF AxisName
<1> HIDE DEF n
<1>2. Part(s, {"out_xh"}) = s.got[1]
  BY <1>1, PartIs DEF n
<1>3. Part(s, {"out_xl"}) = s.got[2]
  BY <1>1, PartIs DEF n
<1>4. Part(s, {"out_yh"}) = s.got[3]
  BY <1>1, PartIs DEF n
<1>5. Part(s, {"out_yl", "out_ly"}) = s.got[4]
  BY <1>1, PartIs DEF n
<1>6. Part(s, {"out_zh"}) = s.got[5]
  BY <1>1, PartIs DEF n
<1>7. Part(s, {"out_zl"}) = s.got[6]
  BY <1>1, PartIs DEF n
<1> QED BY <1>2, <1>3, <1>4, <1>5, <1>6, <1>7 DEF Axes

(* Only the display shows samples.                                            *)
LEMMA OthersShowNone ==
  ASSUME Others
  PROVE  did'.op # "sample"
<1>1. CASE \E v \in Shown : Show(v)
  BY <1>1 DEF Show
<1>2. CASE Loop
  <2>1. ASSUME NEW op \in {"reads", "writes"}, NEW count, NEW value
        PROVE  Access(op, count, value).op # "sample"
    BY DEF Access
  <2>2. did' = Nothing \/ \E op \in {"reads", "writes"} :
                            \E count, value : did' = Access(op, count, value)
    BY <1>2 DEF Loop, LoopRead, LoopWrite, LoopNeither
  <2> QED BY <2>1, <2>2 DEF Nothing
<1>3. CASE Dump
  BY <1>3 DEF Dump
<1>4. CASE Map
  BY <1>4 DEF Map, Nothing
<1>5. ASSUME NEW c, NEW table, RegAccess(c, table)
      PROVE  did'.op # "sample"
  BY <1>5 DEF RegAccess, RegRead, RegWrite, RegProbe, RegRefuse, PrintAll, Unknown
<1> QED BY <1>1, <1>2, <1>3, <1>4, <1>5 DEF Others, I2cReg, SpiReg

LEMMA LsmShowsNone ==
  ASSUME LsmAccess \/ LsmSession
  PROVE  did'.op # "sample"
<1>1. CASE LsmBadDevice \/ LsmDisplay \/ LsmUnknown \/ LsmProbe
  BY <1>1 DEF LsmBadDevice, LsmDisplay, LsmUnknown, LsmProbe, Nothing
<1>2. CASE LsmRead
  BY <1>2 DEF LsmRead, LsmReadAll, LsmReadOne, Nothing
<1>3. CASE LsmWrite
  BY <1>3 DEF LsmWrite, Nothing
<1> QED BY <1>1, <1>2, <1>3 DEF LsmAccess, LsmSession

LEMMA SessionShowsNone ==
  ASSUME NEW c, Session(c)
  PROVE  did'.op # "sample"
<1>1. CASE LsmReturn(c)
  BY <1>1 DEF LsmReturn, Nothing
<1>2. CASE LsmMove(c) \/ LsmErase(c) \/ LsmDigit(c) \/ LsmForget(c) \/ LsmClose(c)
  BY <1>2 DEF LsmMove, LsmErase, LsmDigit, LsmForget, LsmClose, Nothing
<1> QED BY <1>1, <1>2 DEF Session

LEMMA SampleKept ==
  ASSUME SampleInv, mode' # "display", UNCHANGED display, did'.op # "sample"
  PROVE  SampleInv'
BY DEF SampleInv, SampleWhole, display

(* The sample that is shown is whole, or failed.                              *)
LEMMA ShowsWhole ==
  ASSUME SampleInv, mode = "display", got \in Seq(Data),
         \/ ShowSample(Failed) /\ Len(got) < 6
         \/ ShowSample(ret_val) /\ Len(got) = 6
  PROVE  SampleWhole'
<1> DEFINE s == did'
<1>1. s.dev = dev /\ s.got = got /\ dev \in {Acc, Mag}
  BY DEF ShowSample, SampleInv
<1>2. CASE ShowSample(Failed) /\ Len(got) < 6
  <2>1. s.x = 65535 /\ s.y = 65535 /\ s.z = 65535
    BY <1>2 DEF ShowSample, U16, Failed
  <2>2. Len(got) \in Nat /\ Len(got) < 6
    BY <1>2
  <2>3. Len(got) # 6
    <3> DEFINE n == Len(got)
    <3>1. n \in Nat /\ n < 6
      BY <2>2
    <3> HIDE DEF n
    <3>2. n # 6
      BY <3>1
    <3> QED BY <3>2 DEF n
  <2>4. Len(s.got) # 6
    BY <1>1, <2>3
  <2>5. {s.x, s.y, s.z} \subseteq {65535}
    BY <2>1
  <2>6. {s.x, s.y, s.z} \subseteq (IF Len(s.got) = 6 THEN Axes(s) ELSE {65535})
    <3> HIDE DEF s
    <3> QED BY <2>4, <2>5
  <2> QED BY <2>6 DEF SampleWhole
<1>3. CASE ShowSample(ret_val) /\ Len(got) = 6
  <2>1. \A i \in 1 .. 6 : got[i] \in Nat
    <3>1. \A i \in 1 .. Len(got) : got[i] \in Data
      OBVIOUS
    <3>2. Data \subseteq Nat
      BY LsmAssumption
    <3> QED BY <1>3, <3>1, <3>2
  <2>2. /\ ret_val[0] = got[6] /\ ret_val[1] = got[5]
        /\ ret_val[2] = got[4] /\ ret_val[3] = got[3]
    <3>1. \A i \in 1 .. 6 : ret_val[6 - i] = got[i]
      BY <1>3 DEF SampleInv
    <3>2. ret_val[6 - 6] = got[6] /\ ret_val[6 - 5] = got[5]
      BY ONLY <3>1, SMT
    <3>3. ret_val[6 - 4] = got[4] /\ ret_val[6 - 3] = got[3]
      BY ONLY <3>1, SMT
    <3>4. 6 - 6 = 0 /\ 6 - 5 = 1 /\ 6 - 4 = 2 /\ 6 - 3 = 3
      OBVIOUS
    <3> QED BY ONLY <3>2, <3>3, <3>4
  <2>3. s.x = 256 * got[5] + got[6] /\ s.y = 256 * got[3] + got[4] /\ s.z = s.y
    <3>1. s.x = U16(ret_val, 0) /\ s.y = U16(ret_val, 1) /\ s.z = s.y
      BY <1>3 DEF ShowSample
    <3>2. 2 * 0 = 0 /\ 2 * 0 + 1 = 1 /\ 2 * 1 = 2 /\ 2 * 1 + 1 = 3
      OBVIOUS
    <3>3. /\ U16(ret_val, 0) = ret_val[0] + 256 * ret_val[1]
          /\ U16(ret_val, 1) = ret_val[2] + 256 * ret_val[3]
      BY ONLY <3>2, Zenon DEF U16
    <3>4. /\ U16(ret_val, 0) = got[6] + 256 * got[5]
          /\ U16(ret_val, 1) = got[4] + 256 * got[3]
      BY ONLY <2>2, <3>3, Zenon
    <3>5. \A a, b \in Nat : a + 256 * b = 256 * b + a
      OBVIOUS
    <3>6. /\ U16(ret_val, 0) = 256 * got[5] + got[6]
          /\ U16(ret_val, 1) = 256 * got[3] + got[4]
      BY ONLY <2>1, <3>4, <3>5
    <3> QED BY <3>1, <3>6, Zenon
  <2>4. Axes(s) = {256 * got[1] + got[2], 256 * got[3] + got[4], 256 * got[5] + got[6]}
    BY <1>1, AxesAre
  <2>5. {s.x, s.y, s.z} \subseteq Axes(s)
    BY <2>3, <2>4
  <2> QED BY <1>1, <1>3, <2>5 DEF SampleWhole
<1> QED BY <1>2, <1>3

LEMMA SampleStep == LsmTypeOK /\ SampleInv /\ [Next]_vars => SampleInv'
<1> SUFFICES ASSUME LsmTypeOK, SampleInv, [Next]_vars
             PROVE  SampleInv'
  OBVIOUS
<1>1. CASE Fresh /\ Others /\ UNCHANGED lsmVars
  BY <1>1, OthersEnd, OthersShowNone, SampleKept DEF lsmVars
<1>2. CASE LsmAccess
  <2>1. did'.op # "sample"
    BY <1>2, LsmShowsNone
  <2>2. CASE LsmBadDevice \/ LsmRead \/ LsmWrite \/ LsmUnknown
    <3>1. mode' # "display" /\ UNCHANGED lsmVars
      BY <2>2 DEF LsmBadDevice, LsmRead, LsmReadAll, LsmReadOne, LsmWrite, LsmUnknown, Unset
    <3> QED BY <2>1, <3>1, SampleKept DEF lsmVars
  <2>3. CASE LsmDisplay
    <3>1. Device \in {Acc, Mag, 0}
      BY DEF Device
    <3>2. dev' \in {Acc, Mag}
      BY <2>3, <3>1 DEF LsmDisplay
    <3>3. got' = <<>>
      BY <2>3 DEF LsmDisplay
    <3> QED BY <2>1, <3>2, <3>3 DEF SampleInv, SampleWhole
  <2> QED BY <1>2, <2>2, <2>3 DEF LsmAccess
<1>3. CASE LsmSession
  <2>1. mode' = "session" /\ UNCHANGED display
    BY <1>3 DEF LsmSession, LsmProbe
  <2> QED BY <1>3, <2>1, LsmShowsNone, SampleKept
<1>4. CASE Display
  <2>1. mode = "display" /\ dev' = dev /\ dev \in {Acc, Mag} /\ got \in Seq(Data)
    BY <1>4 DEF Display, SampleInv, LsmTypeOK
  <2>2. CASE SensorByte
    <3>1. PICK b \in Data : got' = Append(got, b) /\ ret_val' = [ret_val EXCEPT ![5 - Len(got)] = b]
      BY <2>2 DEF SensorByte
    <3>2. Len(got) \in 0 .. 5
      <4>1. Len(got) \in Nat
        BY <2>1
      <4>2. Len(got) < 6
        BY <2>2 DEF SensorByte
      <4> DEFINE n == Len(got)
      <4>3. n \in Nat /\ n < 6
        BY <4>1, <4>2
      <4> HIDE DEF n
      <4>4. n \in 0 .. 5
        BY <4>3
      <4> QED BY <4>4 DEF n
    <3>3. /\ Len(got') = Len(got) + 1 /\ got'[Len(got) + 1] = b
          /\ \A i \in 1 .. Len(got) : got'[i] = got[i]
      BY <2>1, <3>1
    <3>4. DOMAIN ret_val = 0 .. 7
      BY DEF LsmTypeOK
    <3>5. ASSUME NEW i \in 1 .. Len(got')
          PROVE  ret_val'[6 - i] = got'[i]
      <4>1. CASE i = Len(got) + 1
        <5>1. 6 - i = 5 - Len(got)
          BY <3>2, <4>1
        <5>2. 5 - Len(got) \in DOMAIN ret_val
          <6> DEFINE n == Len(got)
          <6>1. n \in 0 .. 5
            BY <3>2
          <6> HIDE DEF n
          <6>2. 5 - n \in 0 .. 7
            BY <6>1
          <6> QED BY <3>4, <6>2 DEF n
        <5>3. ret_val'[5 - Len(got)] = b
          <6> DEFINE k == 5 - Len(got)
          <6>1. k \in DOMAIN ret_val /\ ret_val' = [ret_val EXCEPT ![k] = b]
            BY <3>1, <5>2
          <6> HIDE DEF k
          <6>2. ret_val'[k] = b
            BY <6>1
          <6> QED BY <6>2 DEF k
        <5>4. got'[i] = b
          BY <3>3, <4>1
        <5> QED BY <5>1, <5>3, <5>4
      <4>2. CASE i # Len(got) + 1
        <5>1. i \in 1 .. Len(got) /\ 6 - i \in 0 .. 7 /\ 6 - i # 5 - Len(got)
          BY <3>2, <3>3, <4>2
        <5>2. ret_val'[6 - i] = ret_val[6 - i]
          BY <3>1, <3>4, <5>1
        <5> QED BY <3>3, <5>1, <5>2 DEF SampleInv
      <4> QED BY <4>1, <4>2
    <3>6. Len(got') <= 6 /\ did'.op # "sample"
      BY <2>2, <3>2, <3>3 DEF SensorByte, Nothing
    <3> QED BY <2>1, <3>5, <3>6 DEF SampleInv, SampleWhole
  <2>3. CASE SensorFails \/ (Len(got) = 6 /\ ShowSample(ret_val))
    <3>1. SampleWhole'
      BY <2>1, <2>3, ShowsWhole DEF SensorFails
    <3>2. got' = <<>>
      BY <2>3 DEF SensorFails, ShowSample
    <3> QED BY <2>1, <3>1, <3>2 DEF SampleInv
  <2> QED BY <1>4, <2>2, <2>3 DEF Display
<1>5. CASE DisplayEnd
  <2>1. mode' # "display" /\ UNCHANGED lsmVars /\ did'.op # "sample"
    BY <1>5 DEF DisplayEnd, Unset, Nothing
  <2> QED BY <2>1, SampleKept DEF lsmVars
<1>6. ASSUME NEW c \in Keys, Session(c)
      PROVE  SampleInv'
  <2>1. mode' \in {"session", "prompt"} /\ UNCHANGED display
    BY <1>6 DEF Session, LsmClose, lsmVars
  <2> QED BY <1>6, <2>1, SessionShowsNone, SampleKept
<1>7. CASE Reprompt /\ UNCHANGED lsmVars
  BY <1>7, SampleKept DEF Reprompt, Nothing, lsmVars
<1>8. CASE UNCHANGED vars
  BY <1>8 DEF SampleInv, SampleWhole, vars, lsmVars, display, Axes, Part
<1> QED BY <1>1, <1>2, <1>3, <1>4, <1>5, <1>6, <1>7, <1>8 DEF Next

(* A sample is six bytes of three axes, all read for it, or it has failed.     *)
THEOREM SamplesWhole == Spec => []SampleWhole
<1>1. Init => LsmTypeOK /\ SampleInv
  BY LsmTypesInit DEF Init, SampleInv, SampleWhole, Nothing
<1>2. LsmTypeOK /\ SampleInv /\ [Next]_vars => LsmTypeOK' /\ SampleInv'
  BY LsmTypesNext, SampleStep
<1>3. SampleInv => SampleWhole
  BY DEF SampleInv
<1> QED BY <1>1, <1>2, <1>3, PTL DEF Spec

-----------------------------------------------------------------------------
(* Names.  A register name stands for one register.                           *)
LEMMA OneOfName ==
  ASSUME NEW table \in {i2c_reg_name, spi_reg_name}, NEW w, Names(table, w) # {}
  PROVE  \E i \in DOMAIN table : Names(table, w) = {i} /\ table[i] = w
<1>1. ASSUME NEW i \in DOMAIN table, NEW j \in DOMAIN table, table[i] = table[j]
      PROVE  i = j
  <2>1. CASE table = i2c_reg_name
    BY <1>1, <2>1 DEF i2c_reg_name
  <2>2. CASE table = spi_reg_name
    BY <1>1, <2>2 DEF spi_reg_name
  <2> QED BY <2>1, <2>2
<1> QED BY <1>1 DEF Names

(* The words of a line are those after the command.                           *)
LEMMA TypedWords ==
  ASSUME NEW c, NEW min, NEW max, Call(c, min, max), NEW k \in 1 .. 5, sargc' > k, sargc' \in 2 .. 6
  PROVE  Typed'[k] = sargv'[k]
<1>1. PICK v1, v2, v3, v4, v5 : sargv' = <<v1, v2, v3, v4, v5>>
  BY DEF Call
<1> DEFINE s == sargv'
           n == sargc' - 1
<1>2. s \in Seq({v1, v2, v3, v4, v5}) /\ Len(s) = 5
  BY <1>1
<1>3. n \in 1 .. 5 /\ k \in 1 .. n
  <2> DEFINE m == sargc'
  <2>1. m \in 2 .. 6 /\ k < m
    OBVIOUS
  <2> HIDE DEF m
  <2>2. m - 1 \in 1 .. 5 /\ k \in 1 .. m - 1
    BY <2>1
  <2> QED BY <2>2 DEF m
<1>4. Typed' = SubSeq(s, 1, n)
  BY DEF Typed
<1> HIDE DEF s, n
<1>5. SubSeq(s, 1, n)[k] = s[k]
  <2>1. SubSeq(s, 1, n) = [i \in 1 .. n |-> s[i]]
    BY <1>2, <1>3
  <2> QED BY <1>3, <2>1
<1> QED BY <1>4, <1>5 DEF s

LEMMA RegNamed ==
  ASSUME NEW c \in {"i2c_reg", "spi_reg"}, NEW table,
         table = (IF c = "i2c_reg" THEN i2c_reg_name ELSE spi_reg_name),
         RegAccess(c, table)
  PROVE  NamedOnly'
<1>1. cmd' = c /\ RegTable' = table /\ Call(c, 2, 4)
  BY DEF RegAccess, Call, RegTable, i2c_reg_name, spi_reg_name
<1>2. CASE RegRead(table)
  <2>1. Typed'[2] = sargv'[2]
    BY <1>1, <1>2, TypedWords DEF RegRead
  <2>2. CASE did' = PrintAll(table) /\ Letter(2) = "a"
    BY <1>1, <2>1, <2>2 DEF PrintAll, NamedOnly, Letter
  <2>3. CASE Names(table, sargv'[2]) # {} /\ did' = [op |-> "read", regs |-> Names(table, sargv'[2])]
    BY <1>1, <2>1, <2>3, OneOfName DEF NamedOnly
  <2>4. CASE did' = Unknown
    BY <2>4 DEF NamedOnly, Unknown
  <2> QED BY <1>2, <2>2, <2>3, <2>4 DEF RegRead
<1>3. CASE RegWrite(table)
  <2>1. Typed'[1] = sargv'[1] /\ Typed'[2] = sargv'[2] /\ Typed'[3] = sargv'[3]
    BY <1>1, <1>3, TypedWords DEF RegWrite
  <2>2. \E i \in DOMAIN table : did'.regs = {i} /\ table[i] = Typed'[2]
    BY <1>3, <2>1, OneOfName DEF RegWrite
  <2>3. Spell[Typed'[1]][1] = "w" /\ did'.value = micro_strtol(Spell[Typed'[3]])
    BY <1>3, <2>1 DEF RegWrite, Letter, Num
  <2>4. did'.op = "write"
    BY <1>3 DEF RegWrite
  <2> QED BY <1>1, <2>2, <2>3, <2>4 DEF NamedOnly
<1>4. CASE RegProbe \/ RegRefuse(table)
  BY <1>4 DEF RegProbe, RegRefuse, Unknown, NamedOnly
<1> QED BY <1>2, <1>3, <1>4 DEF RegAccess

(* The number looked up is one that is meant, or none.                        *)
LEMMA NumberMeant ==
  ASSUME NEW d, NEW w
  PROVE  RegNum(d, w) \in Meant(d, w) \cup {BadReg}
<1> DEFINE named == {i \in DOMAIN Table(d) : Table(d)[i].name = w}
           num == micro_strtol(Spell[w]) % 256
<1>1. CASE named # {}
  <2>1. (CHOOSE i \in named : TRUE) \in named
    BY <1>1
  <2>2. RegNum(d, w) = Table(d)[CHOOSE i \in named : TRUE].num
    BY <1>1, Zenon DEF RegNum
  <2> DEFINE i == CHOOSE i \in named : TRUE
             r == Table(d)[i]
  <2>3. i \in DOMAIN Table(d) /\ r.name = w /\ RegNum(d, w) = r.num
    BY <2>1, <2>2
  <2> HIDE DEF i
  <2>4. r \in {q \in Range(Table(d)) : q.name = w}
    BY <2>3 DEF Range
  <2> HIDE DEF r
  <2>5. r.num \in Meant(d, w)
    BY <2>4 DEF Meant
  <2> QED BY <2>3, <2>5
<1>2. CASE named = {}
  <2>1. RegNum(d, w) = IF InTable(d, num) THEN num ELSE BadReg
    BY <1>2, Zenon DEF RegNum
  <2>2. CASE InTable(d, num)
    <3>1. /\ num \in Table(d)[1].num .. Table(d)[Len(Table(d))].num
      BY <2>2 DEF InTable
    <3> QED BY <2>1, <2>2, <3>1 DEF Meant
  <2> QED BY <2>1, <2>2
<1> QED BY <1>1, <1>2

(* A read of one line.                                                        *)
LEMMA ReadNamed ==
  ASSUME LsmRead
  PROVE  LsmNamed'
<1>1. CASE LsmReadAll
  BY <1>1 DEF LsmReadAll, Letter, LsmNamed
<1>2. CASE LsmReadOne
  <2> DEFINE reg == RegNum(Device, sargv'[3])
  <2>1. CASE did' = Nothing
    BY <2>1 DEF Nothing, LsmNamed
  <2>2. ASSUME NEW stray \in Strays,
               did' = [op |-> "read", dev |-> Device, regs |-> {stray} \cup ({reg} \ {BadReg})]
        PROVE  LsmNamed'
    <3>1. reg \in Meant(Device, sargv'[3]) \cup {BadReg}
      BY NumberMeant
    <3> HIDE DEF reg
    <3>2. did'.op = "read" /\ did'.regs = {stray} \cup ({reg} \ {BadReg}) /\ did'.dev = Device
      BY <2>2
    <3>3. did'.regs \ {stray} \subseteq Meant(did'.dev, sargv'[3])
      BY <3>1, <3>2
    <3> QED BY <3>2, <3>3 DEF LsmNamed
  <2> QED BY <1>2, <2>1, <2>2 DEF LsmReadOne
<1> QED BY <1>1, <1>2 DEF LsmRead

(* A write of one line.                                                       *)
LEMMA WriteNamed ==
  ASSUME LsmWrite
  PROVE  LsmNamed'
<1> DEFINE reg == RegNum(Device, sargv'[3])
<1>1. CASE did' = Nothing
  BY <1>1 DEF Nothing, LsmNamed
<1>2. CASE did' = [op |-> "write", dev |-> Device, reg |-> reg,
                   value |-> Num(4) % 256, typed |-> <<>>, lost |-> 0]
  <2>1. reg \in Meant(Device, sargv'[3]) \cup {BadReg}
    BY NumberMeant
  <2> HIDE DEF reg
  <2>2. did'.op = "write" /\ did'.reg = reg /\ did'.dev = Device
    BY <1>2
  <2> QED BY <2>1, <2>2 DEF LsmNamed
<1> QED BY <1>1, <1>2 DEF LsmWrite

LEMMA NamedStep == NamedOnly /\ LsmNamed /\ [Next]_vars => (NamedOnly /\ LsmNamed)'
<1> SUFFICES ASSUME NamedOnly, LsmNamed, [Next]_vars
             PROVE  (NamedOnly /\ LsmNamed)'
  OBVIOUS
<1>1. ASSUME cmd' \notin {"i2c_reg", "spi_reg", "lsm303"}
      PROVE  (NamedOnly /\ LsmNamed)'
  BY <1>1 DEF NamedOnly, LsmNamed
<1>2. ASSUME cmd' = "lsm303", ~(sargc' > 3) \/ LsmNamed'
      PROVE  (NamedOnly /\ LsmNamed)'
  BY <1>2 DEF NamedOnly, LsmNamed
<1>3. CASE Others
  <2>1. CASE I2cReg \/ SpiReg
    <3>1. NamedOnly'
      BY <2>1, RegNamed DEF I2cReg, SpiReg
    <3>2. cmd' # "lsm303"
      BY <2>1 DEF I2cReg, SpiReg, RegAccess, Call
    <3> QED BY <3>1, <3>2 DEF LsmNamed
  <2>2. CASE (\E v \in Shown : Show(v)) \/ Loop \/ Dump \/ Map
    BY <1>1, <2>2 DEF Show, Loop, Dump, Map, Call, Over
  <2> QED BY <1>3, <2>1, <2>2 DEF Others
<1>4. CASE LsmAccess \/ LsmSession
  <2>1. cmd' = "lsm303"
    BY <1>4 DEF LsmAccess, LsmSession, Call
  <2>2. CASE LsmRead \/ LsmWrite
    BY <1>2, <2>1, <2>2, ReadNamed, WriteNamed
  <2>3. CASE LsmBadDevice \/ LsmDisplay \/ LsmUnknown \/ LsmProbe
    <3>1. did'.op = "nothing"
      BY <2>3 DEF LsmBadDevice, LsmDisplay, LsmUnknown, LsmProbe, Nothing
    <3>2. LsmNamed'
      BY <3>1 DEF LsmNamed
    <3> QED BY <1>2, <2>1, <3>2
  <2> QED BY <1>4, <2>2, <2>3 DEF LsmAccess, LsmSession
<1>5. CASE Display \/ DisplayEnd \/ \E c \in Keys : Session(c)
  BY <1>2, <1>5 DEF Display, DisplayEnd, Session, Over
<1>6. CASE Reprompt
  BY <1>1, <1>6 DEF Reprompt, Over
<1>7. CASE UNCHANGED vars
  BY <1>7 DEF NamedOnly, LsmNamed, RegTable, Typed, vars, argVars
<1> QED BY <1>3, <1>4, <1>5, <1>6, <1>7 DEF Next

LEMMA NamedBoth == Spec => [](NamedOnly /\ LsmNamed)
<1>1. Init => NamedOnly /\ LsmNamed
  BY DEF Init, NamedOnly, LsmNamed, Nothing
<1> QED BY <1>1, NamedStep, PTL DEF Spec

(* i2c_reg and spi_reg touch only registers whose names were typed; lsm303 reads
   and writes those its line stands for and, besides, one stray register before
   each read of one and 0xff for an unknown name: for any line
   (i2c_reg.c:155-186, spi_reg.c:155-192, lsm303_driver.c:552-607).           *)
THEOREM AccessesAsTyped == Spec => []AccessAsTyped
<1>1. NamedOnly /\ LsmNamed <=> AccessAsTyped
  BY DEF AccessAsTyped
<1> QED BY <1>1, NamedBoth, PTL

-----------------------------------------------------------------------------
HexDigit == Range(hexchar)

(* What one digit makes of a value.                                           *)
EntryStep == [p \in Nat \X HexDigit |-> 16 * p[1] + ValueOf(p[2])]

(* A digit takes a number to a number.                                        *)
LEMMA EntryStepType == EntryStep \in [Nat \X HexDigit -> Nat]
<1>1. ASSUME NEW v \in Nat, NEW c \in HexDigit PROVE 16 * v + ValueOf(c) \in Nat
  <2>1. ValueOf(c) \in 0 .. 15
    BY HexDigits DEF HexDigit
  <2> QED BY <2>1
<1> QED BY <1>1 DEF EntryStep

(* EntryValue adds digit after digit.                                         *)
LEMMA EntryFold ==
  ASSUME NEW ds \in Seq(HexDigit)
  PROVE  \E h \in [0 .. Len(ds) -> Nat] : Rounds(h, ds, 0, EntryStep) /\ EntryValue(ds) = h[Len(ds)]
<1> DEFINE D == 1 .. Len(ds)
           Eq(g) == g = [s \in SUBSET D |-> IF s = {} THEN 0
                                            ELSE 16 * g[s \ {Max(s)}] + ValueOf(ds[Max(s)])]
           f == CHOOSE g : Eq(g)
<1>1. Len(ds) \in Nat /\ DOMAIN ds = D /\ (\A i \in D : ds[i] \in HexDigit)
  OBVIOUS
<1>2. EntryValue(ds) = f[D]
  BY <1>1 DEF EntryValue, FoldLeft, MapThenFoldSet
<1>3. \A s \in SUBSET D : s # {} => ds[Max(s)] \in HexDigit
  BY <1>1, MaxOf
<1>4. PICK g \in [SUBSET D -> Nat] : FoldFcn(g, Len(ds), ds, 0, EntryStep)
  BY EntryStepType, FoldExists
<1>5. Eq(g)
  <2>1. ASSUME NEW s \in SUBSET D, s # {}
        PROVE  EntryStep[<<g[s \ {Max(s)}], ds[Max(s)]>>] = 16 * g[s \ {Max(s)}] + ValueOf(ds[Max(s)])
    BY <1>3, <2>1 DEF EntryStep
  <2> QED BY <1>4, <2>1 DEF FoldFcn
<1>6. Eq(f)
  <2> HIDE DEF Eq
  <2> QED BY <1>5
<1>7. Folds(f, ds, HexDigit, Nat, 0, EntryStep)
  <2> HIDE DEF f
  <2>1. ASSUME NEW s \in SUBSET D, s # {}, f[s \ {Max(s)}] \in Nat
        PROVE  f[s] = EntryStep[<<f[s \ {Max(s)}], ds[Max(s)]>>]
    <3>1. f[s] = 16 * f[s \ {Max(s)}] + ValueOf(ds[Max(s)])
      BY <1>6, <2>1
    <3> QED BY <1>3, <2>1, <3>1 DEF EntryStep
  <2>2. f[{}] = 0
    BY <1>6
  <2> QED BY <2>1, <2>2, EntryStepType DEF Folds
<1>8. PICK h \in [0 .. Len(ds) -> Nat] : Rounds(h, ds, 0, EntryStep) /\ h[Len(ds)] = f[D]
  <2> HIDE DEF f
  <2> QED BY <1>7, FoldRounds
<1> HIDE DEF f
<1> QED BY <1>2, <1>8

(* The value of two digits.                                                   *)
LEMMA TwoDigits ==
  ASSUME NEW ds \in Seq(HexDigit), Len(ds) = 2
  PROVE  EntryValue(ds) = 16 * ValueOf(ds[1]) + ValueOf(ds[2])
<1>1. PICK h \in [0 .. Len(ds) -> Nat] : Rounds(h, ds, 0, EntryStep) /\ EntryValue(ds) = h[Len(ds)]
  BY EntryFold
<1>2. ds[1] \in HexDigit /\ ds[2] \in HexDigit
  OBVIOUS
<1>3. ValueOf(ds[1]) \in 0 .. 15 /\ ValueOf(ds[2]) \in 0 .. 15
  BY <1>2, HexDigits DEF HexDigit
<1>4. h[0] = 0 /\ h[1] = EntryStep[<<h[0], ds[1]>>] /\ h[2] = EntryStep[<<h[1], ds[2]>>]
  <2>1. 1 \in 1 .. Len(ds) /\ 2 \in 1 .. Len(ds) /\ 1 - 1 = 0 /\ 2 - 1 = 1
    OBVIOUS
  <2> QED BY <1>1, <2>1 DEF Rounds
<1>5. h[1] = ValueOf(ds[1])
  BY <1>2, <1>3, <1>4 DEF EntryStep
<1> QED BY <1>1, <1>2, <1>3, <1>4, <1>5 DEF EntryStep

(* A digit pushes the value up by four bits; of the byte the low ones stay.   *)
LEMMA ByteShift ==
  ASSUME NEW v \in 0 .. 255, NEW x \in 0 .. 15
  PROVE  /\ ((v * 16) % 256) + x = 16 * (v % 16) + x
         /\ (((v * 16) % 256) + x) % 16 = x
<1>1. (v * 16) % 256 = 16 * (v % 16)
  OBVIOUS
<1>2. v % 16 \in 0 .. 15
  OBVIOUS
<1> QED BY <1>1, <1>2

(* What is typed: the value of two digits or, below the bits that the prompt
   had left, of one; with three a digit is gone.                              *)
EntryInv ==
  /\ entry \in Seq(HexDigit) /\ getting_value = Len(entry)
  /\ lost = 0 =>
       /\ Len(entry) <= 2
       /\ Len(entry) = 1 => set_value % 16 = ValueOf(entry[1])
       /\ Len(entry) = 2 => set_value = 16 * ValueOf(entry[1]) + ValueOf(entry[2])
  /\ FullEntryWritten

(* Only a write of typed digits can be at fault.                              *)
LEMMA NotWritten ==
  ASSUME cmd' # "lsm303" \/ did'.op # "write" \/ did'.typed = <<>>
  PROVE  FullEntryWritten'
<1>1. Len(<<>>) = 0
  OBVIOUS
<1> QED BY <1>1 DEF FullEntryWritten

(* A command that leaves the digits alone keeps what they stand for.          *)
LEMMA EntryKept ==
  ASSUME EntryInv, UNCHANGED typing, FullEntryWritten'
  PROVE  EntryInv'
BY DEF EntryInv, typing

(* A prompt without digits stands for nothing.                                *)
LEMMA EntryGone ==
  ASSUME getting_value' = 0, NoEntry, FullEntryWritten'
  PROVE  EntryInv'
<1>1. entry' = <<>> /\ <<>> \in Seq(HexDigit) /\ Len(<<>>) = 0
  BY DEF NoEntry
<1> QED BY <1>1 DEF EntryInv

(* Backspace takes the last digit.                                            *)
LEMMA LessOne ==
  ASSUME NEW ds \in Seq(HexDigit), Len(ds) > 1
  PROVE  /\ Front(ds) \in Seq(HexDigit) /\ Len(Front(ds)) = Len(ds) - 1
         /\ Front(ds)[1] = ds[1]
<1> DEFINE n == Len(ds) - 1
<1>1. n \in Nat /\ n >= 1 /\ n <= Len(ds) /\ Front(ds) = SubSeq(ds, 1, n)
      /\ \A i \in 1 .. n : ds[i] \in HexDigit
  BY DEF Front
<1> HIDE DEF n
<1>2. SubSeq(ds, 1, n) \in Seq(HexDigit)
  BY <1>1
<1>3. Len(SubSeq(ds, 1, n)) = n /\ SubSeq(ds, 1, n)[1] = ds[1]
  BY <1>1
<1> QED BY <1>1, <1>2, <1>3 DEF n

(* A digit: its value goes below that of the digit before it.                 *)
LEMMA DigitKeeps ==
  ASSUME LsmTypeOK, EntryInv, NEW c, LsmDigit(c)
  PROVE  EntryInv'
<1> DEFINE v == ((set_value * 16) % 256) + ValueOf(c)
           n == Len(entry)
<1>1. /\ c \in HexDigit /\ entry' = Append(entry, c) /\ did' = Nothing
      /\ getting_value' = getting_value + 1
      /\ lost' = IF n < 2 THEN lost ELSE 1
      /\ getting_value + 1 # 0 => set_value' = v
  BY DEF LsmDigit, HexDigit, Prompt
<1>2. /\ entry \in Seq(HexDigit) /\ getting_value = n /\ n \in Nat
      /\ lost = 0 =>
           /\ n <= 2
           /\ n = 1 => set_value % 16 = ValueOf(entry[1])
  BY DEF EntryInv
<1>3. set_value \in 0 .. 255 /\ ValueOf(c) \in 0 .. 15
  BY <1>1, HexDigits DEF HexDigit, LsmTypeOK
<1>4. v = 16 * (set_value % 16) + ValueOf(c) /\ v % 16 = ValueOf(c)
  BY <1>3, ByteShift
<1>5. /\ entry' \in Seq(HexDigit) /\ Len(entry') = n + 1 /\ entry'[n + 1] = c
      /\ n >= 1 => entry'[1] = entry[1]
  BY <1>1, <1>2
<1>6. FullEntryWritten'
  BY <1>1, NotWritten DEF Nothing
<1> HIDE DEF v, n
<1>7. set_value' = v /\ getting_value' = n + 1
  BY <1>1, <1>2
<1>8. ASSUME lost' = 0
      PROVE  /\ Len(entry') <= 2
             /\ Len(entry') = 1 => set_value' % 16 = ValueOf(entry'[1])
             /\ Len(entry') = 2 => set_value' = 16 * ValueOf(entry'[1]) + ValueOf(entry'[2])
  <2>1. n < 2 /\ lost = 0
    BY <1>1, <1>2, <1>8
  <2>2. CASE n = 0
    <3>1. entry'[1] = c /\ Len(entry') = 1
      BY <1>5, <2>2
    <3> QED BY <1>4, <1>7, <3>1
  <2>3. CASE n = 1
    <3>1. /\ entry'[2] = c /\ entry'[1] = entry[1] /\ Len(entry') = 2
          /\ set_value % 16 = ValueOf(entry[1])
      BY <1>2, <1>5, <2>1, <2>3
    <3>2. v = 16 * ValueOf(entry'[1]) + ValueOf(entry'[2])
      BY ONLY <1>4, <3>1
    <3> QED BY <1>7, <3>1, <3>2
  <2> QED BY <1>2, <2>1, <2>2, <2>3
<1> QED BY <1>5, <1>6, <1>7, <1>8 DEF EntryInv

(* Backspace: the value is that of the digit that is left.                    *)
LEMMA EraseKeeps ==
  ASSUME LsmTypeOK, EntryInv, NEW c, LsmErase(c)
  PROVE  EntryInv'
<1>1. did' = Nothing
  BY DEF LsmErase
<1>2. FullEntryWritten'
  BY <1>1, NotWritten DEF Nothing
<1>3. getting_value = Len(entry) /\ entry \in Seq(HexDigit) /\ Len(entry) \in Nat
  BY DEF EntryInv
<1>4. CASE getting_value > 1
  <2>1. /\ entry' = Front(entry) /\ lost' = lost /\ getting_value' = getting_value - 1
        /\ getting_value - 1 # 0 => set_value' = set_value \div 16
    BY <1>4 DEF LsmErase, Prompt, DropDigit
  <2>2. /\ Front(entry) \in Seq(HexDigit) /\ Len(Front(entry)) = Len(entry) - 1
        /\ Front(entry)[1] = entry[1]
    BY <1>3, <1>4, LessOne
  <2>3. ASSUME lost = 0
        PROVE  Len(entry) = 2 /\ set_value' % 16 = ValueOf(entry[1])
    <3>1. Len(entry) = 2
      BY <1>3, <1>4, <2>3 DEF EntryInv
    <3>2. set_value = 16 * ValueOf(entry[1]) + ValueOf(entry[2])
      BY <2>3, <3>1 DEF EntryInv
    <3>3. entry[1] \in HexDigit /\ entry[2] \in HexDigit
      BY <1>3, <3>1
    <3>4. ValueOf(entry[1]) \in 0 .. 15 /\ ValueOf(entry[2]) \in 0 .. 15
      BY <3>3, HexDigits DEF HexDigit
    <3>5. \A a, b \in 0 .. 15 : ((16 * a + b) \div 16) % 16 = a
      OBVIOUS
    <3>6. set_value' = set_value \div 16
      BY <1>3, <2>1, <3>1
    <3> QED BY <3>1, <3>2, <3>4, <3>5, <3>6
  <2>4. /\ entry' \in Seq(HexDigit) /\ Len(entry') = Len(entry) - 1 /\ entry'[1] = entry[1]
        /\ getting_value' = Len(entry')
    BY <1>3, <2>1, <2>2
  <2>5. lost' = 0 => Len(entry') = 1 /\ set_value' % 16 = ValueOf(entry'[1])
    BY <2>1, <2>3, <2>4
  <2> QED BY <1>2, <2>4, <2>5 DEF EntryInv
<1>5. CASE getting_value = 1
  <2>1. Prompt(0, 0) /\ NoEntry
    BY <1>5 DEF LsmErase
  <2> QED BY <1>2, <2>1, EntryGone DEF Prompt
<1>6. CASE getting_value = 0
  <2>1. getting_value' = 0 /\ UNCHANGED <<entry, lost>>
    BY <1>6 DEF LsmErase, SameEntry, Prompt
  <2>2. entry' \in Seq(HexDigit) /\ Len(entry') = 0
    BY <1>3, <1>6, <2>1
  <2> QED BY <1>2, <2>1, <2>2 DEF EntryInv
<1> QED BY <1>3, <1>4, <1>5, <1>6

(* Return: what is written is the value of the two digits.                    *)
LEMMA ReturnWrites ==
  ASSUME LsmTypeOK, EntryInv, NEW c, LsmReturn(c)
  PROVE  EntryInv'
<1>1. CASE getting_value > 0
  <2>1. /\ did'.typed = entry /\ did'.lost = lost /\ did'.value = set_value
        /\ getting_value' = 0 /\ NoEntry
    BY <1>1 DEF LsmReturn, Prompt
  <2>2. ASSUME Len(entry) > 1, lost = 0 PROVE set_value = EntryValue(entry)
    <3>1. Len(entry) = 2 /\ entry \in Seq(HexDigit)
      BY <2>2 DEF EntryInv
    <3> QED BY <2>2, <3>1, TwoDigits DEF EntryInv
  <2>3. FullEntryWritten'
    BY <2>1, <2>2 DEF FullEntryWritten
  <2> QED BY <2>1, <2>3, EntryGone
<1>2. CASE ~(getting_value > 0)
  <2>1. did' = Nothing /\ getting_value' = 0 /\ UNCHANGED <<entry, lost>>
    BY <1>2 DEF LsmReturn, SameEntry, Prompt
  <2>2. Len(entry) = 0 /\ getting_value = 0
    BY <1>2 DEF EntryInv
  <2>3. FullEntryWritten'
    BY <2>1, NotWritten DEF Nothing
  <2> QED BY <2>1, <2>2, <2>3 DEF EntryInv
<1> QED BY <1>1, <1>2

(* The invariant is kept by every step.                                       *)
LEMMA EntryNext == LsmTypeOK /\ EntryInv /\ [Next]_vars => EntryInv'
<1> SUFFICES ASSUME LsmTypeOK, EntryInv, [Next]_vars
             PROVE  EntryInv'
  OBVIOUS
<1>1. CASE Others /\ UNCHANGED lsmVars
  <2>1. cmd' # "lsm303"
    BY <1>1 DEF Others, Show, Loop, Dump, Map, I2cReg, SpiReg, RegAccess, Call, Over
  <2> QED BY <1>1, <2>1, NotWritten, EntryKept DEF lsmVars
<1>2. CASE LsmAccess \/ LsmSession
  <2>1. did'.op # "write" \/ did'.typed = <<>>
    <3>1. CASE LsmBadDevice \/ LsmDisplay \/ LsmUnknown \/ LsmProbe
      BY <3>1 DEF LsmBadDevice, LsmDisplay, LsmUnknown, LsmProbe, Nothing
    <3>2. CASE LsmRead
      BY <3>2 DEF LsmRead, LsmReadAll, LsmReadOne, Nothing
    <3>3. CASE LsmWrite
      BY <3>3 DEF LsmWrite, Nothing
    <3> QED BY <1>2, <3>1, <3>2, <3>3 DEF LsmAccess, LsmSession
  <2>2. UNCHANGED typing
    BY <1>2 DEF LsmAccess, LsmSession, LsmBadDevice, LsmDisplay, LsmRead, LsmWrite, LsmUnknown,
                LsmProbe, lsmVars
  <2> QED BY <2>1, <2>2, NotWritten, EntryKept
<1>3. CASE Display \/ DisplayEnd
  <2>1. did'.op # "write" /\ UNCHANGED typing
    BY <1>3 DEF Display, DisplayEnd, SensorByte, SensorFails, ShowSample, Nothing, lsmVars
  <2> QED BY <2>1, NotWritten, EntryKept
<1>4. ASSUME NEW c \in Keys, Session(c)
      PROVE  EntryInv'
  <2>1. CASE LsmMove(c)
    <3>1. did' = Nothing /\ UNCHANGED <<entry, lost, getting_value>>
          /\ (getting_value # 0 => UNCHANGED set_value)
      BY <2>1 DEF LsmMove, Prompt, SameEntry
    <3>2. FullEntryWritten'
      BY <3>1, NotWritten DEF Nothing
    <3>3. Len(entry) \in Nat
      BY DEF EntryInv
    <3> QED BY <3>1, <3>2, <3>3 DEF EntryInv
  <2>2. CASE LsmForget(c)
    <3>1. did' = Nothing /\ getting_value' = 0 /\ NoEntry
      BY <2>2 DEF LsmForget, Prompt
    <3> QED BY <3>1, NotWritten, EntryGone DEF Nothing
  <2>3. CASE LsmClose(c)
    <3>1. did' = Nothing /\ UNCHANGED typing
      BY <2>3 DEF LsmClose, lsmVars
    <3> QED BY <3>1, NotWritten, EntryKept DEF Nothing
  <2> QED BY <1>4, <2>1, <2>2, <2>3, DigitKeeps, EraseKeeps, ReturnWrites DEF Session
<1>5. CASE Reprompt /\ UNCHANGED lsmVars
  <2>1. did' = Nothing
    BY <1>5 DEF Reprompt
  <2> QED BY <1>5, <2>1, NotWritten, EntryKept DEF Nothing, lsmVars
<1>6. CASE UNCHANGED vars
  <2>1. UNCHANGED <<cmd, did, typing>>
    BY <1>6 DEF vars, argVars, lsmVars
  <2>2. FullEntryWritten'
    BY <2>1 DEF EntryInv, FullEntryWritten
  <2> QED BY <2>1, <2>2, EntryKept
<1> QED BY <1>1, <1>2, <1>3, <1>4, <1>5, <1>6 DEF Next

(* FullEntryWritten: return writes the value of the digits on the screen, once
   there are two and none has been pushed out, for any keys and any bytes of
   the chip (lsm303_driver.c:413-440).                                        *)
THEOREM EntryWritten == Spec => []FullEntryWritten
<1>1. Init => LsmTypeOK /\ EntryInv
  <2>1. <<>> \in Seq(HexDigit) /\ Len(<<>>) = 0
    OBVIOUS
  <2> QED BY <2>1, LsmTypesInit DEF Init, EntryInv, FullEntryWritten, Nothing
<1>2. LsmTypeOK /\ EntryInv /\ [Next]_vars => LsmTypeOK' /\ EntryInv'
  BY LsmTypesNext, EntryNext
<1>3. EntryInv => FullEntryWritten
  BY DEF EntryInv
<1> QED BY <1>1, <1>2, <1>3, PTL DEF Spec
-----------------------------------------------------------------------------
(* There are sixteen digits.                                                  *)
LEMMA HexIndex == DOMAIN hexchar = 1 .. 16 /\ \A d \in 1 .. 16 : hexchar[d] \in Range(hexchar)
<1>1. DOMAIN hexchar = 1 .. 16
  BY SMT DEF hexchar
<1> QED BY <1>1, Zenon DEF Range

(* The steps of micro_strtol, over words of any characters C.                 *)
HexSteps(C)     == [p \in Nat \X C |-> HexStep(p[1], p[2])]
DecimalSteps(C) == [p \in Nat \X C |-> DecimalStep(p[1], p[2])]

(* A digit of base sixteen takes a number to a number.                        *)
LEMMA HexStepType == ASSUME NEW C PROVE HexSteps(C) \in [Nat \X C -> Nat]
<1>1. ASSUME NEW v \in Nat, NEW c \in C PROVE HexStep(v, c) \in Nat
  <2>1. (v * 16) % Top \in Nat
    BY TopAssumption
  <2>2. CASE c \in Range(hexchar)
    <3>1. ValueOf(c) \in 0 .. 15
      BY <2>2, HexDigits
    <3> HIDE DEF Range
    <3> QED BY <2>1, <2>2, <3>1 DEF HexStep
  <2>3. CASE c \notin Range(hexchar)
    BY <2>1, <2>3 DEF HexStep
  <2> QED BY <2>2, <2>3
<1> QED BY <1>1 DEF HexSteps

(* So does one of base ten.                                                   *)
LEMMA DecimalStepType == ASSUME NEW C PROVE DecimalSteps(C) \in [Nat \X C -> Nat]
<1>1. ASSUME NEW v \in Nat, NEW c \in C PROVE DecimalStep(v, c) \in Nat
  <2>1. \A x \in Nat : (v * 10 + x) % Top \in Nat
    BY TopAssumption
  <2>2. CASE c \in Decimal
    <3>1. c \in Range(hexchar)
      <4>1. PICK d \in 1 .. 10 : hexchar[d] = c
        BY <2>2 DEF Decimal
      <4>2. hexchar[d] \in Range(hexchar)
        BY HexIndex
      <4> QED BY <4>1, <4>2, Zenon
    <3> DEFINE x == ValueOf(c)
    <3>2. x \in 0 .. 15
      BY <3>1, HexDigits
    <3>3. DecimalStep(v, c) = (v * 10 + x) % Top
      BY <2>2 DEF DecimalStep
    <3> HIDE DEF x
    <3>4. x \in Nat
      BY <3>2
    <3> QED BY <2>1, <3>3, <3>4
  <2>3. CASE c \notin Decimal
    BY <2>1, <2>3 DEF DecimalStep
  <2> QED BY <2>2, <2>3
<1> QED BY <1>1 DEF DecimalSteps

(* A word of base sixteen, digit after digit.                                 *)
LEMMA HexFold ==
  ASSUME NEW C, NEW ss \in Seq(C)
  PROVE  \E h \in [0 .. Len(ss) -> Nat] :
            Rounds(h, ss, 0, HexSteps(C)) /\ FoldLeft(HexStep, 0, ss) = h[Len(ss)]
<1> DEFINE D == 1 .. Len(ss)
           Eq(g) == g = [s \in SUBSET D |-> IF s = {} THEN 0
                                            ELSE HexStep(g[s \ {Max(s)}], ss[Max(s)])]
           f == CHOOSE g : Eq(g)
<1>1. Len(ss) \in Nat /\ DOMAIN ss = D /\ (\A i \in D : ss[i] \in C)
  OBVIOUS
<1>2. FoldLeft(HexStep, 0, ss) = f[D]
  BY <1>1 DEF FoldLeft, MapThenFoldSet
<1>3. \A s \in SUBSET D : s # {} => ss[Max(s)] \in C
  BY <1>1, MaxOf
<1>4. PICK g \in [SUBSET D -> Nat] : FoldFcn(g, Len(ss), ss, 0, HexSteps(C))
  BY HexStepType, FoldExists
<1>5. Eq(g)
  <2>1. ASSUME NEW s \in SUBSET D, s # {}
        PROVE  HexSteps(C)[<<g[s \ {Max(s)}], ss[Max(s)]>>] = HexStep(g[s \ {Max(s)}], ss[Max(s)])
    BY <1>3, <2>1 DEF HexSteps
  <2> QED BY <1>4, <2>1 DEF FoldFcn
<1>6. Eq(f)
  <2> HIDE DEF Eq
  <2> QED BY <1>5
<1>7. Folds(f, ss, C, Nat, 0, HexSteps(C))
  <2> HIDE DEF f
  <2>1. ASSUME NEW s \in SUBSET D, s # {}, f[s \ {Max(s)}] \in Nat
        PROVE  f[s] = HexSteps(C)[<<f[s \ {Max(s)}], ss[Max(s)]>>]
    <3>1. f[s] = HexStep(f[s \ {Max(s)}], ss[Max(s)])
      BY <1>6, <2>1
    <3> QED BY <1>3, <2>1, <3>1 DEF HexSteps
  <2>2. f[{}] = 0
    BY <1>6
  <2> QED BY <2>1, <2>2, HexStepType DEF Folds
<1>8. PICK h \in [0 .. Len(ss) -> Nat] : Rounds(h, ss, 0, HexSteps(C)) /\ h[Len(ss)] = f[D]
  <2> HIDE DEF f
  <2> QED BY <1>7, FoldRounds
<1> HIDE DEF f
<1> QED BY <1>2, <1>8

(* A word of base ten, digit after digit.                                     *)
LEMMA DecimalFold ==
  ASSUME NEW C, NEW ss \in Seq(C)
  PROVE  \E h \in [0 .. Len(ss) -> Nat] :
            Rounds(h, ss, 0, DecimalSteps(C)) /\ FoldLeft(DecimalStep, 0, ss) = h[Len(ss)]
<1> DEFINE D == 1 .. Len(ss)
           Eq(g) == g = [s \in SUBSET D |-> IF s = {} THEN 0
                                            ELSE DecimalStep(g[s \ {Max(s)}], ss[Max(s)])]
           f == CHOOSE g : Eq(g)
<1>1. Len(ss) \in Nat /\ DOMAIN ss = D /\ (\A i \in D : ss[i] \in C)
  OBVIOUS
<1>2. FoldLeft(DecimalStep, 0, ss) = f[D]
  BY <1>1 DEF FoldLeft, MapThenFoldSet
<1>3. \A s \in SUBSET D : s # {} => ss[Max(s)] \in C
  BY <1>1, MaxOf
<1>4. PICK g \in [SUBSET D -> Nat] : FoldFcn(g, Len(ss), ss, 0, DecimalSteps(C))
  BY DecimalStepType, FoldExists
<1>5. Eq(g)
  <2>1. ASSUME NEW s \in SUBSET D, s # {}
        PROVE  DecimalSteps(C)[<<g[s \ {Max(s)}], ss[Max(s)]>>] = DecimalStep(g[s \ {Max(s)}], ss[Max(s)])
    BY <1>3, <2>1 DEF DecimalSteps
  <2> QED BY <1>4, <2>1 DEF FoldFcn
<1>6. Eq(f)
  <2> HIDE DEF Eq
  <2> QED BY <1>5
<1>7. Folds(f, ss, C, Nat, 0, DecimalSteps(C))
  <2> HIDE DEF f
  <2>1. ASSUME NEW s \in SUBSET D, s # {}, f[s \ {Max(s)}] \in Nat
        PROVE  f[s] = DecimalSteps(C)[<<f[s \ {Max(s)}], ss[Max(s)]>>]
    <3>1. f[s] = DecimalStep(f[s \ {Max(s)}], ss[Max(s)])
      BY <1>6, <2>1
    <3> QED BY <1>3, <2>1, <3>1 DEF DecimalSteps
  <2>2. f[{}] = 0
    BY <1>6
  <2> QED BY <2>1, <2>2, DecimalStepType DEF Folds
<1>8. PICK h \in [0 .. Len(ss) -> Nat] : Rounds(h, ss, 0, DecimalSteps(C)) /\ h[Len(ss)] = f[D]
  <2> HIDE DEF f
  <2> QED BY <1>7, FoldRounds
<1> HIDE DEF f
<1> QED BY <1>2, <1>8

(* Whatever the word, micro_strtol returns a number.                          *)
LEMMA StrtolType == ASSUME NEW C, NEW ss \in Seq(C) PROVE micro_strtol(ss) \in Nat
<1>0. Len(ss) \in 0 .. Len(ss)
  OBVIOUS
<1>1. FoldLeft(HexStep, 0, ss) \in Nat
  <2>1. PICK h \in [0 .. Len(ss) -> Nat] :
            Rounds(h, ss, 0, HexSteps(C)) /\ FoldLeft(HexStep, 0, ss) = h[Len(ss)]
    BY HexFold
  <2> QED BY <1>0, <2>1
<1>2. FoldLeft(DecimalStep, 0, ss) \in Nat
  <2>1. PICK h \in [0 .. Len(ss) -> Nat] :
            Rounds(h, ss, 0, DecimalSteps(C)) /\ FoldLeft(DecimalStep, 0, ss) = h[Len(ss)]
    BY DecimalFold
  <2> QED BY <1>0, <2>1
<1> QED BY <1>1, <1>2, Zenon DEF micro_strtol
-----------------------------------------------------------------------------
(* The words of a line, and the numbers they stand for.                       *)
LEMMA WordNumber ==
  ASSUME NEW w \in Words
  PROVE  Number(w) \in Nat
BY WordAssumption, StrtolType DEF Number

(* The line of a command: its arguments, which are words.                     *)
LEMMA LineTyped ==
  ASSUME NEW c \in DOMAIN Tried, NEW min, NEW max, Call(c, min, max), sargc' \in 2 .. 6
  PROVE  /\ Len(Typed') = sargc' - 1
         /\ \A k \in 1 .. sargc' - 1 : Typed'[k] = sargv'[k]
         /\ \A k \in 1 .. 5 : sargv'[k] \in Words
         /\ sargc' \in min .. max /\ cmd' = c
<1>1. PICK v1 \in Tried[c][1], v2 \in Tried[c][2], v3 \in Tried[c][3],
           v4 \in Tried[c][4], v5 \in Tried[c][5] : sargv' = <<v1, v2, v3, v4, v5>>
  BY DEF Call
<1>2. v1 \in Words /\ v2 \in Words /\ v3 \in Words /\ v4 \in Words /\ v5 \in Words
  BY WordAssumption
<1> DEFINE s == sargv'
           n == sargc' - 1
<1>3. s \in Seq(Words) /\ Len(s) = 5
  BY <1>1, <1>2
<1>4. n \in 1 .. 5
  <2> DEFINE m == sargc'
  <2>1. m \in 2 .. 6
    OBVIOUS
  <2> HIDE DEF m
  <2>2. m - 1 \in 1 .. 5
    BY <2>1
  <2> QED BY <2>2 DEF m
<1>5. Typed' = SubSeq(s, 1, n)
  BY DEF Typed
<1>6. \A k \in 1 .. 5 : s[k] \in Words
  <2>1. s[1] = v1 /\ s[2] = v2 /\ s[3] = v3 /\ s[4] = v4 /\ s[5] = v5
    BY <1>1
  <2> HIDE DEF s
  <2> QED BY <1>2, <2>1
<1>7. sargc' \in min .. max /\ cmd' = c
  BY DEF Call
<1> HIDE DEF s, n
<1>8. SubSeq(s, 1, n) = [i \in 1 .. n |-> s[i]] /\ Len(SubSeq(s, 1, n)) = n
  BY <1>3, <1>4
<1>9. \A k \in 1 .. n : SubSeq(s, 1, n)[k] = s[k]
  BY <1>8
<1>10. Len(Typed') = n /\ \A k \in 1 .. n : Typed'[k] = s[k]
  BY <1>5, <1>8, <1>9, Zenon
<1> QED BY <1>6, <1>7, <1>10 DEF s, n

(* What follows the address and the size, of a line of loop.                  *)
LEMMA RestIs ==
  ASSUME Call("loop", 3, 6), NEW i, i = index_for_size_arg, NEW n, n = sargc'
  PROVE  /\ i \in 2 .. 3 /\ n \in 3 .. 6
         /\ Len(Rest') = n - i
         /\ \A k \in 1 .. n - i : Rest'[k] = sargv'[i + (k - 1)]
         /\ Typed'[1] = sargv'[1] /\ sargv'[1] \in Words /\ cmd' = "loop"
<1>1. n \in 3 .. 6 /\ i \in 2 .. 3
  BY DEF Call, index_for_size_arg
<1>2. /\ Len(Typed') = n - 1
      /\ \A k \in 1 .. n - 1 : Typed'[k] = sargv'[k]
      /\ \A k \in 1 .. 5 : sargv'[k] \in Words
      /\ cmd' = "loop"
  <2>1. "loop" \in DOMAIN Tried
    BY WordAssumption
  <2>2. sargc' \in 2 .. 6
    BY <1>1
  <2> QED BY <2>1, <2>2, LineTyped
<1>3. Typed'[1] = sargv'[1] /\ Typed'[2] = sargv'[2] /\ sargv'[1] \in Words /\ Len(Typed') > 1
  BY <1>1, <1>2
<1>4. (Len(Typed') > 1 /\ Spell[Typed'[2]][1] \in {"b", "c", "1", "s", "2", "l", "4"}) <=> IsSize
  BY <1>3, Zenon DEF IsSize, SizeLetter, Letter
<1>5. Rest' = SubSeq(Typed', i, Len(Typed'))
  <2>1. CASE IsSize
    BY <1>4, <2>1, Zenon DEF Rest, index_for_size_arg
  <2>2. CASE ~ IsSize
    BY <1>4, <2>2, Zenon DEF Rest, index_for_size_arg
  <2> QED BY <2>1, <2>2
<1>6. Typed' = SubSeq(sargv', 1, n - 1)
  BY DEF Typed
<1> DEFINE t == Typed'
           s == sargv'
           r == Rest'
<1>7. r = [k \in 1 .. (n - 1) - i + 1 |-> t[i + k - 1]]
  <2> DEFINE m == n - 1
  <2>1. Len(t) = m
    BY <1>2
  <2>2. r = SubSeq(t, i, m)
    BY <1>5, <2>1
  <2>3. m \in Int
    BY <1>1
  <2> HIDE DEF t, r, m
  <2>4. SubSeq(t, i, m) = [k \in 1 .. m - i + 1 |-> t[i + k - 1]]
    BY <1>1, <2>3
  <2> QED BY <2>2, <2>4 DEF m
<1>8. (n - 1) - i + 1 = n - i /\ n - i \in Nat
  BY ONLY <1>1
<1>9. ASSUME NEW k \in 1 .. n - i PROVE r[k] = s[i + (k - 1)]
  <2>1. i + (k - 1) = i + k - 1 /\ i + (k - 1) \in 1 .. n - 1
    BY ONLY <1>1, k \in 1 .. n - i
  <2>2. t[i + (k - 1)] = s[i + (k - 1)]
    <3> DEFINE j == i + (k - 1)
    <3> HIDE DEF j, t, s
    <3>1. j \in 1 .. n - 1
      BY <2>1 DEF j
    <3>2. \A x \in 1 .. n - 1 : t[x] = s[x]
      BY <1>2 DEF t, s
    <3>3. t[j] = s[j]
      BY <3>1, <3>2
    <3> QED BY <3>3 DEF j
  <2> HIDE DEF r, t, s
  <2> QED BY <1>7, <1>8, <2>1, <2>2
<1>10. Len(r) = n - i
  <2> HIDE DEF r
  <2> QED BY <1>7, <1>8
<1> QED BY <1>1, <1>2, <1>3, <1>9, <1>10

(* Masking an address moves it down to its unit.                              *)
LEMMA AlignedIs ==
  ASSUME NEW a \in Nat, NEW letter
  PROVE  LET size == SizeOf(letter)
         IN  /\ size \in {1, 2, 4}
             /\ Aligned(a, size) \in Nat /\ Aligned(a, size) % size = 0
             /\ a \in Aligned(a, size) .. Aligned(a, size) + size - 1
             /\ (a % size = 0 => Aligned(a, size) = a)
<1>1. SizeOf(letter) \in {1, 2, 4}
  BY DEF SizeOf
<1>2. ASSUME NEW size \in {1, 2, 4}
      PROVE  /\ a - (a % size) \in Nat /\ (a - (a % size)) % size = 0
             /\ a \in a - (a % size) .. a - (a % size) + size - 1
  <2>1. CASE size = 1
    BY <2>1
  <2>2. CASE size = 2
    BY <2>2
  <2>3. CASE size = 4
    BY <2>3
  <2> QED BY <2>1, <2>2, <2>3
<1> QED BY <1>1, <1>2 DEF Aligned

(* loop keeps to its words.                                                   *)
LEMMA LoopStep == ASSUME Loop PROVE LoopAsTyped'
<1> DEFINE i == index_for_size_arg
           n == sargc'
           size == SizeOf(SizeLetter)
           a == Num(1)
           r == Rest'
<1>1. Call("loop", 3, 6)
  BY DEF Loop
<1>2. /\ i \in 2 .. 3 /\ n \in 3 .. 6
      /\ Len(r) = n - i
      /\ \A k \in 1 .. n - i : r[k] = sargv'[i + (k - 1)]
      /\ Typed'[1] = sargv'[1] /\ sargv'[1] \in Words /\ cmd' = "loop"
  BY <1>1, RestIs
<1>3. a = Number(Typed'[1]) /\ a \in Nat
  BY <1>2, WordNumber DEF Num, Number
<1>4. ASSUME NEW op, NEW count, NEW value, did' = Access(op, count, value)
      PROVE  /\ did'.op = op /\ did'.count = count /\ did'.size = size
             /\ did'.value = Low(value, size)
             /\ did'.addr % did'.size = 0
             /\ Number(Typed'[1]) \in did'.addr .. did'.addr + did'.size - 1
  <2>1. /\ did'.op = op /\ did'.count = count /\ did'.size = size
        /\ did'.value = Low(value, size) /\ did'.addr = Aligned(a, size)
    BY <1>4 DEF Access
  <2>2. /\ Aligned(a, size) % size = 0
        /\ a \in Aligned(a, size) .. Aligned(a, size) + size - 1
    BY <1>3, AlignedIs
  <2> QED BY <1>3, <2>1, <2>2
<1> HIDE DEF i, n, r, a
<1>5. /\ n - i >= 1 => r[1] = sargv'[i]
      /\ n - i >= 2 => r[2] = sargv'[i + 1]
  <2>1. i + (1 - 1) = i /\ i + (2 - 1) = i + 1 /\ n - i \in Nat
    BY <1>2
  <2>2. n - i >= 1 => 1 \in 1 .. n - i
    BY <2>1
  <2>3. n - i >= 2 => 2 \in 1 .. n - i
    BY <2>1
  <2> QED BY <1>2, <2>1, <2>2, <2>3
<1>6. n > i + 1 <=> n - i >= 2
  BY <1>2
<1>7. n > i + 2 <=> n - i >= 3
  BY <1>2
<1>8. Letter(i) = Spell[sargv'[i]][1] /\ Num(i + 1) = Number(sargv'[i + 1])
  BY DEF Letter, Num, Number
<1>9. CASE LoopRead
  <2> DEFINE count == IF HasCount(1) THEN Num(i + 1) ELSE 0
  <2>1. Letter(i) = "r" /\ did' = IF count # 0 THEN Access("reads", count, 0) ELSE Nothing
    BY <1>9 DEF LoopRead, i
  <2>2. HasCount(1) <=> n - i >= 2
    BY <1>6 DEF HasCount, i, n
  <2>3. CASE count # 0
    <3>1. did' = Access("reads", count, 0)
      BY <2>1, <2>3
    <3>2. n - i >= 2 /\ count = Number(r[2]) /\ Spell[r[1]][1] = "r"
      <4>1. HasCount(1) /\ count = Num(i + 1)
        BY <2>3
      <4>2. n - i >= 2 /\ n - i >= 1
        BY <1>2, <2>2, <4>1
      <4> HIDE DEF count
      <4> QED BY <1>5, <1>8, <2>1, <4>1, <4>2
    <3> HIDE DEF count
    <3>3. /\ did'.op = "reads" /\ did'.count = Number(r[2])
          /\ did'.addr % did'.size = 0
          /\ Number(Typed'[1]) \in did'.addr .. did'.addr + did'.size - 1
      BY <1>4, <3>1, <3>2
    <3> QED BY <1>2, <3>2, <3>3 DEF LoopAsTyped, r
  <2>4. CASE count = 0
    <3>1. did'.op = "nothing"
      BY <2>1, <2>4 DEF Nothing
    <3>2. ~ (n - i >= 2) \/ Number(r[2]) = 0
      BY <1>5, <1>8, <2>2, <2>4
    <3>3. ~ (Len(r) > 1 /\ Number(r[2]) # 0)
      BY <1>2, <3>2
    <3> QED BY <3>1, <3>3 DEF LoopAsTyped, r
  <2> QED BY <2>3, <2>4
<1>10. CASE LoopWrite
  <2> DEFINE value == Num(i + 1)
             count == IF HasCount(2) THEN value ELSE 0
  <2>1. /\ Letter(i) = "w"
        /\ did' = IF n >= i + 1 /\ count # 0 THEN Access("writes", count, value) ELSE Nothing
    BY <1>10 DEF LoopWrite, i, n
  <2>2. HasCount(2) <=> n - i >= 3
    BY <1>7 DEF HasCount, i, n
  <2>3. (n - i >= 1 /\ Spell[r[1]][1] = "w") \/ ~ (Len(r) > 1)
    <3>1. n - i >= 1 \/ ~ (n - i > 1)
      BY <1>2
    <3> QED BY <1>2, <1>5, <1>8, <2>1, <3>1
  <2>4. CASE n >= i + 1 /\ count # 0
    <3>1. did' = Access("writes", count, value)
      BY <2>1, <2>4
    <3>2. n - i >= 3 /\ value = Number(r[2]) /\ Spell[r[1]][1] = "w"
      <4>1. n - i >= 3 /\ n - i >= 2 /\ n - i >= 1
        BY <1>2, <2>2, <2>4
      <4> QED BY <1>5, <1>8, <2>1, <4>1
    <3> HIDE DEF count, value
    <3>3. /\ did'.op = "writes" /\ did'.value = Low(Number(r[2]), did'.size)
          /\ did'.addr % did'.size = 0
          /\ Number(Typed'[1]) \in did'.addr .. did'.addr + did'.size - 1
      BY <1>4, <3>1, <3>2
    <3> QED BY <1>2, <3>2, <3>3 DEF LoopAsTyped, r
  <2>5. CASE ~ (n >= i + 1 /\ count # 0)
    <3>1. did'.op = "nothing"
      BY <2>1, <2>5 DEF Nothing
    <3> QED BY <2>3, <3>1 DEF LoopAsTyped, r
  <2> QED BY <2>4, <2>5
<1>11. CASE LoopNeither
  <2>1. did'.op = "nothing" /\ Letter(i) # "r"
    BY <1>11 DEF LoopNeither, Nothing, i
  <2>2. ~ (Len(r) > 1 /\ Spell[r[1]][1] = "r")
    BY <1>2, <1>5, <1>8, <2>1
  <2> QED BY <2>1, <2>2 DEF LoopAsTyped, r
<1> QED BY <1>9, <1>10, <1>11 DEF Loop

(* The property is about loop alone.                                          *)
LEMMA OthersOp ==
  ASSUME cmd' # "loop"
  PROVE  LoopAsTyped'
BY DEF LoopAsTyped

(* Loop keeps to its words, and no other step looks like a loop.              *)
LEMMA LoopNext == LoopAsTyped /\ [Next]_vars => LoopAsTyped'
<1> SUFFICES ASSUME LoopAsTyped, [Next]_vars PROVE LoopAsTyped'
  OBVIOUS
<1>1. CASE Loop
  BY <1>1, LoopStep
<1>2. CASE (\E v \in Shown : Show(v)) \/ Dump \/ Map \/ I2cReg \/ SpiReg
  BY <1>2, OthersOp DEF Show, Dump, Map, I2cReg, SpiReg, RegAccess, Call, Over
<1>3. CASE LsmAccess \/ LsmSession
  BY <1>3, OthersOp DEF LsmAccess, LsmSession, Call
<1>4. CASE Display \/ DisplayEnd \/ (\E c \in Keys : Session(c)) \/ Reprompt
  BY <1>4, OthersOp DEF Display, DisplayEnd, Session, Reprompt, Over
<1>5. CASE UNCHANGED vars
  <2>1. UNCHANGED <<cmd, sargc, sargv, did>>
    BY <1>5 DEF vars, argVars
  <2> QED BY <2>1 DEF LoopAsTyped, Rest, Typed
<1> QED BY <1>1, <1>2, <1>3, <1>4, <1>5 DEF Next, Others

(* LoopAsTyped: loop touches memory only as the words of its own line say,
   whatever earlier lines left in sargv (mem_db.c:60-150).                    *)
THEOREM LoopTyped == Spec => []LoopAsTyped
<1>1. Init => LoopAsTyped
  BY DEF Init, LoopAsTyped
<1> QED BY <1>1, LoopNext, PTL DEF Spec
-----------------------------------------------------------------------------
(* Sixteen bytes are so many units.                                           *)
LEMMA Units ==
  ASSUME NEW size \in {1, 2, 4}
  PROVE  /\ line_len(size) \in {4, 8, 16}
         /\ \A l \in Nat : l * line_len(size) * size = 16 * l
         /\ \A l, j, b \in Nat : (l * line_len(size) + j) * size + b = 16 * l + (j * size + b)
         /\ \A j \in 0 .. line_len(size) - 1, b \in 0 .. size - 1 : j * size + b \in 0 .. 15
         /\ \A jj \in 0 .. 15 :
              /\ jj \div size \in 0 .. line_len(size) - 1 /\ jj % size \in 0 .. size - 1
              /\ (jj \div size) * size + (jj % size) = jj
<1>1. CASE size = 1
  <2>1. line_len(size) = 16
    BY <1>1 DEF line_len
  <2>2. \A l \in Nat : l * 16 * 1 = 16 * l
    OBVIOUS
  <2>3. \A l, j, b \in Nat : (l * 16 + j) * 1 + b = 16 * l + (j * 1 + b)
    OBVIOUS
  <2>4. \A j \in 0 .. 16 - 1, b \in 0 .. 1 - 1 : j * 1 + b \in 0 .. 15
    OBVIOUS
  <2>5. \A jj \in 0 .. 15 : /\ jj \div 1 \in 0 .. 16 - 1 /\ jj % 1 \in 0 .. 1 - 1
                            /\ (jj \div 1) * 1 + (jj % 1) = jj
    OBVIOUS
  <2> QED BY <1>1, <2>1, <2>2, <2>3, <2>4, <2>5
<1>2. CASE size = 2
  <2>1. line_len(size) = 8
    BY <1>2 DEF line_len
  <2>2. \A l \in Nat : l * 8 * 2 = 16 * l
    OBVIOUS
  <2>3. \A l, j, b \in Nat : (l * 8 + j) * 2 + b = 16 * l + (j * 2 + b)
    OBVIOUS
  <2>4. \A j \in 0 .. 8 - 1, b \in 0 .. 2 - 1 : j * 2 + b \in 0 .. 15
    OBVIOUS
  <2>5. \A jj \in 0 .. 15 : /\ jj \div 2 \in 0 .. 8 - 1 /\ jj % 2 \in 0 .. 2 - 1
                            /\ (jj \div 2) * 2 + (jj % 2) = jj
    OBVIOUS
  <2> QED BY <1>2, <2>1, <2>2, <2>3, <2>4, <2>5
<1>3. CASE size = 4
  <2>1. line_len(size) = 4
    BY <1>3 DEF line_len
  <2>2. \A l \in Nat : l * 4 * 4 = 16 * l
    OBVIOUS
  <2>3. \A l, j, b \in Nat : (l * 4 + j) * 4 + b = 16 * l + (j * 4 + b)
    OBVIOUS
  <2>4. \A j \in 0 .. 4 - 1, b \in 0 .. 4 - 1 : j * 4 + b \in 0 .. 15
    OBVIOUS
  <2>5. \A jj \in 0 .. 15 : /\ jj \div 4 \in 0 .. 4 - 1 /\ jj % 4 \in 0 .. 4 - 1
                            /\ (jj \div 4) * 4 + (jj % 4) = jj
    OBVIOUS
  <2> QED BY <1>3, <2>1, <2>2, <2>3, <2>4, <2>5
<1> QED BY <1>1, <1>2, <1>3

(* Line l of a dump, counted in bytes from the first; and its two halves.     *)
LineBytes(from, l) == {(from + (16 * l + jj)) % Top : jj \in 0 .. 15}
HexBytes(from, size, l) ==
  {(from + (l * line_len(size) + j) * size + b) % Top : j \in 0 .. line_len(size) - 1, b \in 0 .. size - 1}
TextBytes(from, size, l) == {(from + l * line_len(size) * size + jj) % Top : jj \in 0 .. 15}

(* Both halves of a line go over the same sixteen bytes.                      *)
LEMMA HalvesAre ==
  ASSUME NEW size \in {1, 2, 4}, NEW from \in Nat, NEW l \in Nat
  PROVE  HexBytes(from, size, l) = LineBytes(from, l) /\ TextBytes(from, size, l) = LineBytes(from, l)
<1> DEFINE per == line_len(size)
<1>1. /\ per \in {4, 8, 16}
      /\ \A m \in Nat : m * per * size = 16 * m
      /\ \A m, j, b \in Nat : (m * per + j) * size + b = 16 * m + (j * size + b)
      /\ \A j \in 0 .. per - 1, b \in 0 .. size - 1 : j * size + b \in 0 .. 15
      /\ \A jj \in 0 .. 15 : /\ jj \div size \in 0 .. per - 1 /\ jj % size \in 0 .. size - 1
                             /\ (jj \div size) * size + (jj % size) = jj
  BY Units
<1> HIDE DEF per
<1>2. ASSUME NEW j \in 0 .. per - 1, NEW b \in 0 .. size - 1
      PROVE  from + (l * per + j) * size + b = from + (16 * l + (j * size + b))
  <2>1. j \in Nat /\ b \in Nat
    BY <1>1
  <2>2. (l * per + j) * size + b = 16 * l + (j * size + b)
    BY <1>1, <2>1
  <2> DEFINE x == (l * per + j) * size
             y == 16 * l + (j * size + b)
  <2>3. x \in Int /\ x + b = y
    BY <1>1, <2>1, <2>2
  <2> HIDE DEF x, y
  <2>4. from + x + b = from + y
    BY <2>1, <2>3
  <2> QED BY <2>4 DEF x, y
<1>3. {(from + (l * per + j) * size + b) % Top : j \in 0 .. per - 1, b \in 0 .. size - 1}
        \subseteq LineBytes(from, l)
  BY <1>1, <1>2 DEF LineBytes
<1>4. LineBytes(from, l) \subseteq
        {(from + (l * per + j) * size + b) % Top : j \in 0 .. per - 1, b \in 0 .. size - 1}
  <2> SUFFICES ASSUME NEW jj \in 0 .. 15
               PROVE  \E j \in 0 .. per - 1, b \in 0 .. size - 1 :
                         (from + (16 * l + jj)) % Top = (from + (l * per + j) * size + b) % Top
    BY DEF LineBytes
  <2>1. /\ jj \div size \in 0 .. per - 1 /\ jj % size \in 0 .. size - 1
        /\ (jj \div size) * size + (jj % size) = jj
    BY <1>1
  <2> QED BY <1>2, <2>1
<1>5. {(from + l * per * size + jj) % Top : jj \in 0 .. 15} = LineBytes(from, l)
  <2>1. l * per * size = 16 * l
    BY <1>1
  <2>2. \A jj \in 0 .. 15 : from + l * per * size + jj = from + (16 * l + jj)
    BY <2>1
  <2> QED BY <2>2 DEF LineBytes
<1> QED BY <1>3, <1>4, <1>5 DEF per, HexBytes, TextBytes

(* The lines of a dump of len units.                                          *)
LEMMA LineCount ==
  ASSUME NEW size \in {1, 2, 4}, NEW len \in Int, NEW lines,
         lines = IF len \div size <= 0 THEN 0
                 ELSE (len \div size + line_len(size) - 1) \div line_len(size)
  PROVE  /\ lines \in Nat
         /\ lines = 0 \/ (lines - 1) * 16 < len
         /\ len % size = 0 => \A b \in 0 .. len - 1 : b \div 16 < lines
<1>1. CASE size = 1
  <2>1. line_len(size) = 16
    BY <1>1 DEF line_len
  <2> QED BY <1>1, <2>1
<1>2. CASE size = 2
  <2>1. line_len(size) = 8
    BY <1>2 DEF line_len
  <2> QED BY <1>2, <2>1
<1>3. CASE size = 4
  <2>1. line_len(size) = 4
    BY <1>3 DEF line_len
  <2> QED BY <1>3, <2>1
<1> QED BY <1>1, <1>2, <1>3

(* dump shows what was asked for, twice.                                      *)
LEMMA DumpStep == ASSUME Dump PROVE DumpShows'
<1> DEFINE size == DumpSize
           len == Signed(Num(2))
           a == Num(1)
           lines == IF len \div size <= 0 THEN 0
                    ELSE (len \div size + line_len(size) - 1) \div line_len(size)
           from == Aligned(a, size)
<1>1. size \in {1, 2, 4}
  BY DEF DumpSize
<1>2. /\ Typed'[1] = sargv'[1] /\ Typed'[2] = sargv'[2]
      /\ sargv'[1] \in Words /\ sargv'[2] \in Words
  <2>1. "dump" \in DOMAIN Tried
    BY WordAssumption
  <2>2. Call("dump", 3, 4) /\ sargc' \in 3 .. 4
    BY DEF Dump, Call
  <2> DEFINE n == sargc'
  <2>3. n \in 3 .. 4
    BY <2>2
  <2>4. /\ \A k \in 1 .. n - 1 : Typed'[k] = sargv'[k]
        /\ \A k \in 1 .. 5 : sargv'[k] \in Words
    <3>1. sargc' \in 2 .. 6
      BY <2>2
    <3> QED BY <2>1, <2>2, <3>1, LineTyped
  <2> HIDE DEF n
  <2>5. 1 \in 1 .. n - 1 /\ 2 \in 1 .. n - 1
    BY <2>3
  <2> QED BY <2>4, <2>5
<1>3. a = Number(Typed'[1]) /\ a \in Nat /\ len = Signed(Number(Typed'[2])) /\ len \in Int
  <2>1. Num(1) = Number(sargv'[1]) /\ Num(2) = Number(sargv'[2])
    BY DEF Num, Number
  <2>2. Num(1) \in Nat /\ Num(2) \in Nat
    BY <1>2, <2>1, WordNumber
  <2>3. Signed(Num(2)) \in Int
    BY <2>2, TopAssumption DEF Signed
  <2> QED BY <1>2, <2>1, <2>2, <2>3
<1>4. did' = [op |-> "dump", size |-> size, from |-> from, lines |-> lines]
  BY DEF Dump
<1> HIDE DEF size, a, len
<1>5. from \in Nat /\ (a % size = 0 => from = a)
  <2>1. CASE size = 1
    BY <1>3, <2>1 DEF Aligned
  <2>2. CASE size = 2
    BY <1>3, <2>2 DEF Aligned
  <2>3. CASE size = 4
    BY <1>3, <2>3 DEF Aligned
  <2> QED BY <1>1, <2>1, <2>2, <2>3
<1>6. /\ lines \in Nat
      /\ lines = 0 \/ (lines - 1) * 16 < len
      /\ len % size = 0 => \A b \in 0 .. len - 1 : b \div 16 < lines
  BY <1>1, <1>3, LineCount
<1> HIDE DEF from, lines
<1>7. ASSUME NEW l \in 0 .. lines - 1
      PROVE  HexOf(l)' = LineBytes(from, l) /\ TextOf(l)' = LineBytes(from, l)
  <2>1. l \in Nat
    BY <1>6
  <2>2. did'.size = size /\ did'.from = from
    BY <1>4
  <2>3. HexOf(l)' = HexBytes(from, size, l) /\ TextOf(l)' = TextBytes(from, size, l)
    BY <2>2 DEF HexOf, HexBytes, TextOf, TextBytes
  <2> QED BY <1>1, <1>5, <2>1, <2>3, HalvesAre
<1>8. ASSUME len % size = 0, a % size = 0, NEW b \in 0 .. len - 1
      PROVE  \E l \in 0 .. lines - 1 : (a + b) % Top \in HexOf(l)'
  <2>1. /\ b \div 16 \in 0 .. lines - 1 /\ b % 16 \in 0 .. 15
        /\ 16 * (b \div 16) + (b % 16) = b
    BY <1>3, <1>6, <1>8
  <2>2. (a + b) % Top \in LineBytes(from, b \div 16)
    BY <1>5, <1>8, <2>1 DEF LineBytes
  <2> QED BY <1>7, <2>1, <2>2
<1>9. did'.lines = lines /\ did'.size = size
  BY <1>4
<1>10. \A l \in 0 .. lines - 1 : HexOf(l)' = TextOf(l)'
  BY <1>7, Zenon
<1> QED BY <1>3, <1>6, <1>8, <1>9, <1>10 DEF DumpShows

(* No other step looks like a dump.                                           *)
LEMMA DumpNext == DumpShows /\ [Next]_vars => DumpShows'
<1> SUFFICES ASSUME DumpShows, [Next]_vars PROVE DumpShows'
  OBVIOUS
<1>1. ASSUME cmd' # "dump" PROVE DumpShows'
  BY <1>1 DEF DumpShows
<1>2. CASE Dump
  BY <1>2, DumpStep
<1>3. CASE (\E v \in Shown : Show(v)) \/ Loop \/ Map \/ I2cReg \/ SpiReg
  BY <1>1, <1>3 DEF Show, Loop, Map, I2cReg, SpiReg, RegAccess, Call, Over
<1>4. CASE LsmAccess \/ LsmSession
  BY <1>1, <1>4 DEF LsmAccess, LsmSession, Call
<1>5. CASE Display \/ DisplayEnd \/ (\E c \in Keys : Session(c)) \/ Reprompt
  BY <1>1, <1>5 DEF Display, DisplayEnd, Session, Reprompt, Over
<1>6. CASE UNCHANGED vars
  <2>1. UNCHANGED <<cmd, sargc, sargv, did>>
    BY <1>6 DEF vars, argVars
  <2>2. \A l : HexOf(l)' = HexOf(l) /\ TextOf(l)' = TextOf(l)
    BY <2>1 DEF HexOf, TextOf
  <2>3. Typed' = Typed
    BY <2>1 DEF Typed
  <2> QED BY <2>1, <2>2, <2>3 DEF DumpShows
<1> QED BY <1>2, <1>3, <1>4, <1>5, <1>6 DEF Next, Others

(* DumpShows: the two halves of a line show the same bytes, all that was asked
   for and no line too many, whatever the words (mem_db.c:255-300).           *)
THEOREM DumpsTrue == Spec => []DumpShows
<1>1. Init => DumpShows
  BY DEF Init, DumpShows
<1> QED BY <1>1, DumpNext, PTL DEF Spec
-----------------------------------------------------------------------------
(* Each digit stands for a value of its own, and none is an x.                *)
LEMMA DigitsApart ==
  \A d \in 1 .. 16 : /\ ValueOf(hexchar[d]) = d - 1
                     /\ hexchar[d] \in Range(hexchar) /\ hexchar[d] # "x"
<1>1. \A d, e \in 1 .. 16 : hexchar[d] = hexchar[e] => d = e
  BY DEF hexchar
<1>2. \A d \in 1 .. 16 : hexchar[d] # "x"
  BY DEF hexchar
<1>3. ASSUME NEW d \in 1 .. 16 PROVE ValueOf(hexchar[d]) = d - 1
  <2>1. (CHOOSE e \in 1 .. 16 : hexchar[e] = hexchar[d]) = d
    BY <1>1
  <2> QED BY <2>1 DEF ValueOf
<1> QED BY <1>2, <1>3, HexIndex

(* The number that the first i of eight digits of base sixteen make of v.     *)
HexPrefix(v) == [i \in 0 .. 8 |-> v \div 16 ^ (8 - i)]

(* Each prefix is sixteen times the one before it, and a digit.               *)
LEMMA HexPrefixes ==
  ASSUME NEW v \in Nat, v < 16 ^ 8
  PROVE  LET p == HexPrefix(v)
         IN  /\ p[0] = 0 /\ p[8] = v
             /\ \A i \in 1 .. 8 : /\ p[i] \in Nat /\ p[i] <= v /\ p[i] = v \div 16 ^ (8 - i)
                                  /\ p[i - 1] \in Nat /\ p[i] = p[i - 1] * 16 + (p[i] % 16)
<1> DEFINE p == HexPrefix(v)
<1>1. /\ p[8] = v
      /\ p[7] = v \div 16
      /\ p[6] = v \div 256
      /\ p[5] = v \div 4096
      /\ p[4] = v \div 65536
      /\ p[3] = v \div 1048576
      /\ p[2] = v \div 16777216
      /\ p[1] = v \div 268435456
      /\ p[0] = v \div 4294967296
  BY DEF HexPrefix
<1>2. \A i \in 1 .. 8 : p[i] = v \div 16 ^ (8 - i)
  BY DEF HexPrefix
<1>3. v < 4294967296
  OBVIOUS
<1>4. \A i \in 1 .. 8 : i = 1 \/ i = 2 \/ i = 3 \/ i = 4 \/ i = 5 \/ i = 6 \/ i = 7 \/ i = 8
  OBVIOUS
<1> HIDE DEF p
<1>5. (v \div 268435456) \in Nat /\ (v \div 268435456) <= v /\ (v \div 268435456) = (v \div 4294967296) * 16 + ((v \div 268435456) % 16)
  OBVIOUS
<1>6. (v \div 16777216) \in Nat /\ (v \div 16777216) <= v /\ (v \div 16777216) = (v \div 268435456) * 16 + ((v \div 16777216) % 16)
  OBVIOUS
<1>7. (v \div 1048576) \in Nat /\ (v \div 1048576) <= v /\ (v \div 1048576) = (v \div 16777216) * 16 + ((v \div 1048576) % 16)
  OBVIOUS
<1>8. (v \div 65536) \in Nat /\ (v \div 65536) <= v /\ (v \div 65536) = (v \div 1048576) * 16 + ((v \div 65536) % 16)
  OBVIOUS
<1>9. (v \div 4096) \in Nat /\ (v \div 4096) <= v /\ (v \div 4096) = (v \div 65536) * 16 + ((v \div 4096) % 16)
  OBVIOUS
<1>10. (v \div 256) \in Nat /\ (v \div 256) <= v /\ (v \div 256) = (v \div 4096) * 16 + ((v \div 256) % 16)
  OBVIOUS
<1>11. (v \div 16) \in Nat /\ (v \div 16) <= v /\ (v \div 16) = (v \div 256) * 16 + ((v \div 16) % 16)
  OBVIOUS
<1>12. v \in Nat /\ v <= v /\ v = (v \div 16) * 16 + (v % 16)
  OBVIOUS
<1>13. p[0] = 0
  BY <1>1, <1>3
<1>14. ASSUME NEW i \in 1 .. 8
       PROVE  p[i] \in Nat /\ p[i] <= v /\ p[i - 1] \in Nat /\ p[i] = p[i - 1] * 16 + (p[i] % 16)
  <2>1. CASE i = 1
    <3>1. i - 1 = 0 /\ p[0] \in Nat
      BY <1>1, <2>1
    <3> QED BY <1>1, <1>5, <2>1, <3>1
  <2>2. CASE i = 2
    <3>1. i - 1 = 1 /\ p[1] \in Nat
      BY <1>1, <2>2
    <3> QED BY <1>1, <1>6, <2>2, <3>1
  <2>3. CASE i = 3
    <3>1. i - 1 = 2 /\ p[2] \in Nat
      BY <1>1, <2>3
    <3> QED BY <1>1, <1>7, <2>3, <3>1
  <2>4. CASE i = 4
    <3>1. i - 1 = 3 /\ p[3] \in Nat
      BY <1>1, <2>4
    <3> QED BY <1>1, <1>8, <2>4, <3>1
  <2>5. CASE i = 5
    <3>1. i - 1 = 4 /\ p[4] \in Nat
      BY <1>1, <2>5
    <3> QED BY <1>1, <1>9, <2>5, <3>1
  <2>6. CASE i = 6
    <3>1. i - 1 = 5 /\ p[5] \in Nat
      BY <1>1, <2>6
    <3> QED BY <1>1, <1>10, <2>6, <3>1
  <2>7. CASE i = 7
    <3>1. i - 1 = 6 /\ p[6] \in Nat
      BY <1>1, <2>7
    <3> QED BY <1>1, <1>11, <2>7, <3>1
  <2>8. CASE i = 8
    <3>1. i - 1 = 7 /\ p[7] \in Nat
      BY <1>1, <2>8
    <3> QED BY <1>1, <1>12, <2>8, <3>1
  <2> QED BY <1>4, <2>1, <2>2, <2>3, <2>4, <2>5, <2>6, <2>7, <2>8
<1> QED BY <1>1, <1>2, <1>13, <1>14 DEF p

(* What is left of v without its last j digits of base ten.                   *)
DecimalRest(v) == [j \in 0 .. 9 |-> v \div 10 ^ j]

(* Each rest is ten times the next, and a digit.                              *)
LEMMA DecimalRests ==
  ASSUME NEW v \in Nat
  PROVE  LET q == DecimalRest(v)
         IN  /\ q[0] = v
             /\ \A j \in 0 .. 8 : /\ q[j] \in Nat /\ q[j] <= v /\ q[j] = v \div 10 ^ j
                                  /\ q[j + 1] \in Nat /\ q[j] = q[j + 1] * 10 + (q[j] % 10)
                                  /\ v < 10 ^ (j + 1) => q[j + 1] = 0
                                  /\ 10 ^ j < v => q[j] > 0
                                  /\ 10 ^ (j + 1) \in Nat
<1> DEFINE q == DecimalRest(v)
<1>1. /\ q[0] = v
      /\ q[1] = v \div 10
      /\ q[2] = v \div 100
      /\ q[3] = v \div 1000
      /\ q[4] = v \div 10000
      /\ q[5] = v \div 100000
      /\ q[6] = v \div 1000000
      /\ q[7] = v \div 10000000
      /\ q[8] = v \div 100000000
      /\ q[9] = v \div 1000000000
  BY DEF DecimalRest
<1>2. \A j \in 0 .. 8 : q[j] = v \div 10 ^ j
  BY DEF DecimalRest
<1>3. \A j \in 0 .. 8 : j = 0 \/ j = 1 \/ j = 2 \/ j = 3 \/ j = 4 \/ j = 5 \/ j = 6 \/ j = 7 \/ j = 8
  OBVIOUS
<1> HIDE DEF q
<1>4. /\ v \in Nat /\ v <= v /\ v = (v \div 10) * 10 + (v % 10)
      /\ v \div 10 \in Nat
      /\ v < 10 => v \div 10 = 0
      /\ 1 < v => v > 0
  OBVIOUS
<1>5. /\ (v \div 10) \in Nat /\ (v \div 10) <= v /\ (v \div 10) = (v \div 100) * 10 + ((v \div 10) % 10)
      /\ v \div 100 \in Nat
      /\ v < 100 => v \div 100 = 0
      /\ 10 < v => (v \div 10) > 0
  OBVIOUS
<1>6. /\ (v \div 100) \in Nat /\ (v \div 100) <= v /\ (v \div 100) = (v \div 1000) * 10 + ((v \div 100) % 10)
      /\ v \div 1000 \in Nat
      /\ v < 1000 => v \div 1000 = 0
      /\ 100 < v => (v \div 100) > 0
  OBVIOUS
<1>7. /\ (v \div 1000) \in Nat /\ (v \div 1000) <= v /\ (v \div 1000) = (v \div 10000) * 10 + ((v \div 1000) % 10)
      /\ v \div 10000 \in Nat
      /\ v < 10000 => v \div 10000 = 0
      /\ 1000 < v => (v \div 1000) > 0
  OBVIOUS
<1>8. /\ (v \div 10000) \in Nat /\ (v \div 10000) <= v /\ (v \div 10000) = (v \div 100000) * 10 + ((v \div 10000) % 10)
      /\ v \div 100000 \in Nat
      /\ v < 100000 => v \div 100000 = 0
      /\ 10000 < v => (v \div 10000) > 0
  OBVIOUS
<1>9. /\ (v \div 100000) \in Nat /\ (v \div 100000) <= v /\ (v \div 100000) = (v \div 1000000) * 10 + ((v \div 100000) % 10)
      /\ v \div 1000000 \in Nat
      /\ v < 1000000 => v \div 1000000 = 0
      /\ 100000 < v => (v \div 100000) > 0
  OBVIOUS
<1>10. /\ (v \div 1000000) \in Nat /\ (v \div 1000000) <= v /\ (v \div 1000000) = (v \div 10000000) * 10 + ((v \div 1000000) % 10)
       /\ v \div 10000000 \in Nat
       /\ v < 10000000 => v \div 10000000 = 0
       /\ 1000000 < v => (v \div 1000000) > 0
  OBVIOUS
<1>11. /\ (v \div 10000000) \in Nat /\ (v \div 10000000) <= v /\ (v \div 10000000) = (v \div 100000000) * 10 + ((v \div 10000000) % 10)
       /\ v \div 100000000 \in Nat
       /\ v < 100000000 => v \div 100000000 = 0
       /\ 10000000 < v => (v \div 10000000) > 0
  OBVIOUS
<1>12. /\ (v \div 100000000) \in Nat /\ (v \div 100000000) <= v /\ (v \div 100000000) = (v \div 1000000000) * 10 + ((v \div 100000000) % 10)
       /\ v \div 1000000000 \in Nat
       /\ v < 1000000000 => v \div 1000000000 = 0
       /\ 100000000 < v => (v \div 100000000) > 0
  OBVIOUS
<1>13. ASSUME NEW j \in 0 .. 8
       PROVE  /\ q[j] \in Nat /\ q[j] <= v
              /\ q[j + 1] \in Nat /\ q[j] = q[j + 1] * 10 + (q[j] % 10)
              /\ v < 10 ^ (j + 1) => q[j + 1] = 0
              /\ 10 ^ j < v => q[j] > 0
              /\ 10 ^ (j + 1) \in Nat
  <2>1. CASE j = 0
    <3>1. 10 ^ j = 1 /\ 10 ^ (j + 1) = 10 /\ j + 1 = 1
      BY <2>1
    <3> QED BY ONLY <1>1, <1>4, <2>1, <3>1
  <2>2. CASE j = 1
    <3>1. 10 ^ j = 10 /\ 10 ^ (j + 1) = 100 /\ j + 1 = 2
      BY <2>2
    <3> QED BY ONLY <1>1, <1>5, <2>2, <3>1
  <2>3. CASE j = 2
    <3>1. 10 ^ j = 100 /\ 10 ^ (j + 1) = 1000 /\ j + 1 = 3
      BY <2>3
    <3> QED BY ONLY <1>1, <1>6, <2>3, <3>1
  <2>4. CASE j = 3
    <3>1. 10 ^ j = 1000 /\ 10 ^ (j + 1) = 10000 /\ j + 1 = 4
      BY <2>4
    <3> QED BY ONLY <1>1, <1>7, <2>4, <3>1
  <2>5. CASE j = 4
    <3>1. 10 ^ j = 10000 /\ 10 ^ (j + 1) = 100000 /\ j + 1 = 5
      BY <2>5
    <3> QED BY ONLY <1>1, <1>8, <2>5, <3>1
  <2>6. CASE j = 5
    <3>1. 10 ^ j = 100000 /\ 10 ^ (j + 1) = 1000000 /\ j + 1 = 6
      BY <2>6
    <3> QED BY ONLY <1>1, <1>9, <2>6, <3>1
  <2>7. CASE j = 6
    <3>1. 10 ^ j = 1000000 /\ 10 ^ (j + 1) = 10000000 /\ j + 1 = 7
      BY <2>7
    <3> QED BY ONLY <1>1, <1>10, <2>7, <3>1
  <2>8. CASE j = 7
    <3>1. 10 ^ j = 10000000 /\ 10 ^ (j + 1) = 100000000 /\ j + 1 = 8
      BY <2>8
    <3> QED BY ONLY <1>1, <1>11, <2>8, <3>1
  <2>9. CASE j = 8
    <3>1. 10 ^ j = 100000000 /\ 10 ^ (j + 1) = 1000000000 /\ j + 1 = 9
      BY <2>9
    <3> QED BY ONLY <1>1, <1>12, <2>9, <3>1
  <2> QED BY <1>3, <2>1, <2>2, <2>3, <2>4, <2>5, <2>6, <2>7, <2>8, <2>9
<1> QED BY <1>1, <1>2, <1>13 DEF q

(* A number below Top is left alone.                                          *)
LEMMA BelowTop == ASSUME NEW n \in Nat, n < Top PROVE n % Top = n
BY TopAssumption

(* One more digit.                                                            *)
LEMMA HexDigitStep ==
  ASSUME NEW a \in Nat, NEW d \in 0 .. 15, a * 16 + d < Top
  PROVE  HexStep(a, hexchar[d + 1]) = a * 16 + d
<1>1. d + 1 \in 1 .. 16 /\ (d + 1) - 1 = d /\ a * 16 \in Nat /\ a * 16 < Top
  BY TopAssumption
<1> DEFINE e == d + 1
           c == hexchar[e]
<1>2. ValueOf(c) = d /\ c \in Range(hexchar) /\ c # "x"
  <2>1. e \in 1 .. 16 /\ e - 1 = d
    BY <1>1
  <2> HIDE DEF e
  <2> QED BY <2>1, DigitsApart
<1>3. (a * 16) % Top = a * 16
  BY <1>1, BelowTop
<1> HIDE DEF c
<1>4. HexStep(a, c) = a * 16 + d
  BY <1>2, <1>3 DEF HexStep
<1> QED BY <1>4 DEF c

(* The same of base ten.                                                      *)
LEMMA DecimalDigitStep ==
  ASSUME NEW a \in Nat, NEW d \in 0 .. 9, a * 10 + d < Top
  PROVE  DecimalStep(a, hexchar[d + 1]) = a * 10 + d
<1>1. d + 1 \in 1 .. 16 /\ d + 1 \in 1 .. 10 /\ (d + 1) - 1 = d /\ a * 10 + d \in Nat
  OBVIOUS
<1> DEFINE e == d + 1
           c == hexchar[e]
<1>2. ValueOf(c) = d /\ c \in Decimal
  <2>1. e \in 1 .. 16 /\ e \in 1 .. 10 /\ e - 1 = d
    BY <1>1
  <2> HIDE DEF e
  <2> QED BY <2>1, DigitsApart DEF Decimal
<1>3. (a * 10 + d) % Top = a * 10 + d
  BY <1>1, BelowTop
<1> HIDE DEF c
<1>4. DecimalStep(a, c) = a * 10 + d
  BY <1>2, <1>3 DEF DecimalStep
<1> QED BY <1>4 DEF c

(* The characters of a number that is printed.                                *)
NumberChars == Range(hexchar) \cup {"x", "-"}

(* What follows 0x is read as it was printed.                                 *)
LEMMA HexShown ==
  ASSUME NEW v \in Nat, v < 16 ^ 8, v < Top
  PROVE  micro_strtol(<<"0", "x">> \o format_x(v, 8)) = v
<1> DEFINE x == format_x(v, 8)
           t == <<"0", "x">> \o x
           p == HexPrefix(v)
           C == NumberChars
<1>1. /\ p[0] = 0 /\ p[8] = v
      /\ \A i \in 1 .. 8 : /\ p[i] \in Nat /\ p[i] <= v /\ p[i] = v \div 16 ^ (8 - i)
                           /\ p[i - 1] \in Nat /\ p[i] = p[i - 1] * 16 + (p[i] % 16)
  BY HexPrefixes
<1> HIDE DEF p
<1>2. /\ x = [i \in 1 .. 8 |-> x[i]]
      /\ \A i \in 1 .. 8 : x[i] = hexchar[(p[i] % 16) + 1]
  <2>1. x = [i \in 1 .. 8 |-> hexchar[((v \div 16 ^ (8 - i)) % 16) + 1]]
    BY DEF format_x
  <2> HIDE DEF x
  <2> QED BY <1>1, <2>1
<1> HIDE DEF x
<1>3. ASSUME NEW i \in 1 .. 8
      PROVE  p[i] % 16 \in 0 .. 15 /\ x[i] \in C
  <2> DEFINE m == p[i]
             d == (m % 16) + 1
  <2>1. m \in Nat /\ x[i] = hexchar[d]
    BY <1>1, <1>2
  <2> HIDE DEF m
  <2>2. m % 16 \in 0 .. 15 /\ d \in 1 .. 16
    BY <2>1
  <2> HIDE DEF d
  <2>3. hexchar[d] \in C
    BY <2>2, DigitsApart DEF NumberChars
  <2> QED BY <2>1, <2>2, <2>3 DEF m
<1> HIDE DEF C
<1>4. x \in Seq(C) /\ Len(x) = 8
  BY <1>2, <1>3
<1>5. /\ t \in Seq(C) /\ Len(t) = 10 /\ t[1] = "0" /\ t[2] = "x"
      /\ \A i \in 1 .. 8 : t[i + 2] = x[i]
  <2>1. "0" \in C /\ "x" \in C
    <3>1. hexchar[1] = "0"
      BY DEF hexchar
    <3> QED BY <3>1, DigitsApart DEF NumberChars, C
  <2> DEFINE a == "0"
             b == "x"
             s == <<a, b>> \o x
  <2> HIDE DEF a, b, x
  <2>2. /\ s \in Seq(C) /\ Len(s) = Len(x) + 2 /\ s[1] = a /\ s[2] = b
        /\ \A i \in 1 .. Len(x) : s[i + 2] = x[i]
    <3>1. a \in C /\ b \in C /\ x \in Seq(C)
      BY <1>4, <2>1 DEF a, b
    <3> QED BY ONLY <3>1
  <2> HIDE DEF s
  <2>3. Len(s) = 10 /\ \A i \in 1 .. 8 : s[i + 2] = x[i]
    BY <1>4, <2>2
  <2> QED BY <2>2, <2>3 DEF a, b, s
<1> HIDE DEF t
<1>6. PICK h \in [0 .. Len(t) -> Nat] :
         Rounds(h, t, 0, HexSteps(C)) /\ FoldLeft(HexStep, 0, t) = h[Len(t)]
  BY <1>5, HexFold
<1>7. ASSUME NEW i \in 1 .. 10 PROVE h[i] = HexStep(h[i - 1], t[i])
  <2>1. h[i] = HexSteps(C)[<<h[i - 1], t[i]>>]
    BY <1>5, <1>6 DEF Rounds
  <2>2. h[i - 1] \in Nat /\ t[i] \in C
    <3> DEFINE j == i - 1
    <3>1. j \in 0 .. Len(t) /\ i \in 1 .. Len(t)
      BY <1>5
    <3> HIDE DEF j
    <3>2. h[j] \in Nat
      BY <3>1
    <3>3. t[i] \in C
      <4>1. t \in Seq(C)
        BY <1>5
      <4> QED BY <3>1, <4>1
    <3> QED BY <3>2, <3>3 DEF j
  <2> QED BY <2>1, <2>2 DEF HexSteps
<1>8. h[2] = 0
  <2>1. h[2] = HexStep(h[1], t[2])
    <3>1. 2 \in 1 .. 10 /\ 2 - 1 = 1
      OBVIOUS
    <3> QED BY <1>7, <3>1
  <2> QED BY <1>5, <2>1 DEF HexStep
<1> DEFINE T == {i \in 0 .. 8 : h[i + 2] = p[i]}
<1>9. 0 \in T
  <2>1. 0 + 2 = 2 /\ 0 \in 0 .. 8 /\ h[2] = p[0]
    BY <1>1, <1>8
  <2> QED BY ONLY <2>1
<1>10. ASSUME NEW i \in 0 .. 8 - 1, i \in T PROVE i + 1 \in T
  <2> DEFINE k == i + 1
             j == k + 2
             a == p[i]
             n == p[k]
  <2>1. k \in 1 .. 8 /\ k - 1 = i /\ j \in 1 .. 10 /\ j - 1 = i + 2 /\ k \in 0 .. 8
    OBVIOUS
  <2>2. h[j - 1] = a
    BY <1>10, <2>1
  <2> HIDE DEF k, T
  <2>3. n \in Nat /\ n <= v /\ a \in Nat /\ n = a * 16 + (n % 16) /\ n % 16 \in 0 .. 15
    BY <1>1, <1>3, <2>1
  <2>4. t[j] = hexchar[(n % 16) + 1]
    BY <1>2, <1>5, <2>1
  <2> HIDE DEF j, a, n
  <2>5. h[j] = HexStep(a, hexchar[(n % 16) + 1])
    BY <1>7, <2>1, <2>2, <2>4
  <2>6. h[j] = n
    <3>1. a * 16 + (n % 16) < Top
      BY <2>3, TopAssumption
    <3> QED BY <2>3, <2>5, <3>1, HexDigitStep
  <2>7. k \in T
    BY <2>1, <2>6 DEF T, j, n
  <2> QED BY <2>7 DEF k
<1>11. 8 \in T
  <2>1. 8 \in Nat /\ 8 \in 0 .. 8
    OBVIOUS
  <2> HIDE DEF T
  <2> QED BY <1>9, <1>10, <2>1, SetInduction
<1>12. h[10] = v
  <2>1. 8 + 2 = 10
    OBVIOUS
  <2> QED BY <1>1, <1>11, <2>1
<1>13. t # <<>>
  <2>1. Len(<<>>) = 0 /\ Len(t) # 0
    BY <1>5
  <2> QED BY <2>1, Zenon
<1>14. micro_strtol(t) = FoldLeft(HexStep, 0, t)
  BY <1>5, <1>13, Zenon DEF micro_strtol
<1> QED BY <1>5, <1>6, <1>12, <1>14 DEF t, x

(* PowerBelow finds the power.                                                *)
LEMMA PowerOf ==
  ASSUME NEW v \in Nat, v > 0, v < 10 ^ 9
  PROVE  LET k == PowerBelow(v)
         IN  k \in 0 .. 8 /\ v <= 10 ^ (k + 1) /\ (k = 0 \/ 10 ^ k < v)
<1>1. \E k \in 0 .. 8 : v <= 10 ^ (k + 1) /\ (k = 0 \/ 10 ^ k < v)
  <2>1. CASE v <= 10
    <3>1. 0 \in 0 .. 8 /\ 10 ^ 0 = 1 /\ 10 ^ (0 + 1) = 10
      OBVIOUS
    <3> QED BY ONLY <2>1, <3>1
  <2>2. CASE 10 < v /\ v <= 100
    <3>1. 1 \in 0 .. 8 /\ 10 ^ 1 = 10 /\ 10 ^ (1 + 1) = 100
      OBVIOUS
    <3> QED BY ONLY <2>2, <3>1
  <2>3. CASE 100 < v /\ v <= 1000
    <3>1. 2 \in 0 .. 8 /\ 10 ^ 2 = 100 /\ 10 ^ (2 + 1) = 1000
      OBVIOUS
    <3> QED BY ONLY <2>3, <3>1
  <2>4. CASE 1000 < v /\ v <= 10000
    <3>1. 3 \in 0 .. 8 /\ 10 ^ 3 = 1000 /\ 10 ^ (3 + 1) = 10000
      OBVIOUS
    <3> QED BY ONLY <2>4, <3>1
  <2>5. CASE 10000 < v /\ v <= 100000
    <3>1. 4 \in 0 .. 8 /\ 10 ^ 4 = 10000 /\ 10 ^ (4 + 1) = 100000
      OBVIOUS
    <3> QED BY ONLY <2>5, <3>1
  <2>6. CASE 100000 < v /\ v <= 1000000
    <3>1. 5 \in 0 .. 8 /\ 10 ^ 5 = 100000 /\ 10 ^ (5 + 1) = 1000000
      OBVIOUS
    <3> QED BY ONLY <2>6, <3>1
  <2>7. CASE 1000000 < v /\ v <= 10000000
    <3>1. 6 \in 0 .. 8 /\ 10 ^ 6 = 1000000 /\ 10 ^ (6 + 1) = 10000000
      OBVIOUS
    <3> QED BY ONLY <2>7, <3>1
  <2>8. CASE 10000000 < v /\ v <= 100000000
    <3>1. 7 \in 0 .. 8 /\ 10 ^ 7 = 10000000 /\ 10 ^ (7 + 1) = 100000000
      OBVIOUS
    <3> QED BY ONLY <2>8, <3>1
  <2>9. CASE 100000000 < v /\ v <= 1000000000
    <3>1. 8 \in 0 .. 8 /\ 10 ^ 8 = 100000000 /\ 10 ^ (8 + 1) = 1000000000
      OBVIOUS
    <3> QED BY ONLY <2>9, <3>1
  <2>10. v < 1000000000
    OBVIOUS
  <2> QED BY ONLY v \in Nat, <2>1, <2>2, <2>3, <2>4, <2>5, <2>6, <2>7, <2>8, <2>9, <2>10
<1> QED BY ONLY <1>1, Zenon DEF PowerBelow

(* u is v in n digits; the first i of them make p[i].                         *)
DigitsAre(u, n, p, v) ==
  /\ n \in 1 .. 9 /\ p \in [0 .. n -> Nat]
  /\ u \in Seq(NumberChars) /\ Len(u) = n
  /\ p[0] = 0 /\ p[1] > 0 /\ p[n] = v
  /\ \A i \in 1 .. n : /\ p[i] <= v /\ p[i] = p[i - 1] * 10 + (p[i] % 10)
                       /\ u[i] = hexchar[(p[i] % 10) + 1]

(* The digits of a number that is no power of ten.                            *)
LEMMA UnsignedDigits ==
  ASSUME NEW v \in Nat, v > 0, v < 10 ^ 9, v \notin PowersOfTen
  PROVE  \E n, p : DigitsAre(Unsigned(v), n, p, v)
<1> DEFINE k == PowerBelow(v)
           n == k + 1
           q == DecimalRest(v)
           p == [i \in 0 .. n |-> q[n - i]]
           u == Unsigned(v)
           digit(j) == IF j = k THEN v \div 10 ^ k ELSE (v \div 10 ^ j) % 10
<1>1. k \in 0 .. 8 /\ v <= 10 ^ n /\ (k = 0 \/ 10 ^ k < v)
  BY PowerOf
<1>2. /\ q[0] = v
      /\ \A j \in 0 .. 8 : /\ q[j] \in Nat /\ q[j] <= v /\ q[j] = v \div 10 ^ j
                           /\ q[j + 1] \in Nat /\ q[j] = q[j + 1] * 10 + (q[j] % 10)
                           /\ v < 10 ^ (j + 1) => q[j + 1] = 0
                           /\ 10 ^ j < v => q[j] > 0
                           /\ 10 ^ (j + 1) \in Nat
  BY DecimalRests
<1>3. u = [i \in 1 .. n |-> IF digit(k + 1 - i) = 10 THEN ":" ELSE hexchar[digit(k + 1 - i) + 1]]
  BY DEF Unsigned
<1> HIDE DEF k, q, u
<1>4. n \in 1 .. 9 /\ n - 1 = k
  BY <1>1
<1>5. v < 10 ^ n
  <2>1. v # 10 ^ n
    <3>1. CASE n = 9
      <4> HIDE DEF n
      <4> QED BY <3>1
    <3>2. CASE n # 9
      <4>1. n \in 1 .. 8
        BY <1>4, <3>2
      <4> HIDE DEF n
      <4> QED BY <4>1 DEF PowersOfTen
    <3> QED BY <3>1, <3>2
  <2>2. 10 ^ n \in Nat
    BY <1>1, <1>2
  <2> HIDE DEF n
  <2> DEFINE m == 10 ^ n
  <2>3. v <= m /\ v # m /\ m \in Nat
    BY <1>1, <2>1, <2>2
  <2> HIDE DEF m
  <2>4. v < m
    BY <2>3
  <2> QED BY <2>4 DEF m
<1>6. q[n] = 0 /\ q[k] > 0
  <2>1. q[n] = 0
    BY <1>1, <1>2, <1>5
  <2>2. q[k] > 0
    <3>1. CASE k = 0
      BY <1>2, <3>1
    <3>2. CASE 10 ^ k < v
      BY <1>1, <1>2, <3>2
    <3> QED BY <1>1, <3>1, <3>2
  <2> QED BY <2>1, <2>2
<1>7. ASSUME NEW j \in 0 .. k
      PROVE  /\ q[j] \in Nat /\ q[j] <= v /\ q[j + 1] \in Nat /\ q[j] = q[j + 1] * 10 + (q[j] % 10)
             /\ q[j] % 10 \in 0 .. 9 /\ digit(j) = q[j] % 10
  <2>1. j \in 0 .. 8
    BY <1>1
  <2>2. /\ q[j] \in Nat /\ q[j] <= v /\ q[j] = v \div 10 ^ j
        /\ q[j + 1] \in Nat /\ q[j] = q[j + 1] * 10 + (q[j] % 10)
    BY <1>2, <2>1
  <2>3. q[j] % 10 \in 0 .. 9
    <3>1. q[j] \in Nat
      BY <2>2
    <3> QED BY ONLY <3>1
  <2>4. CASE j = k
    <3>1. q[j + 1] = 0
      BY <1>6, <2>4
    <3>2. digit(j) = q[j]
      BY <2>2, <2>4
    <3>3. q[j] = q[j] % 10
      BY ONLY <2>2, <3>1
    <3> QED BY <2>2, <2>3, <3>2, <3>3
  <2>5. CASE j # k
    BY <2>2, <2>3, <2>5
  <2> QED BY <2>4, <2>5
<1> HIDE DEF digit
<1>8. ASSUME NEW i \in 1 .. n
      PROVE  /\ n - i \in 0 .. k /\ (n - i) + 1 = n - (i - 1) /\ i \in 0 .. n /\ i - 1 \in 0 .. n
             /\ n - i # 9
  BY <1>1
<1>9. /\ p[0] = 0 /\ p[1] > 0 /\ p[n] = v
      /\ \A i \in 0 .. n : p[i] = q[n - i]
  <2>1. \A i \in 0 .. n : p[i] = q[n - i]
    OBVIOUS
  <2>2. 0 \in 0 .. n /\ 1 \in 0 .. n /\ n \in 0 .. n /\ n - 0 = n /\ n - n = 0 /\ n - 1 = k
    BY <1>4
  <2> HIDE DEF p, n
  <2> QED BY <1>2, <1>6, <2>1, <2>2
<1>10. ASSUME NEW i \in 1 .. n
       PROVE  /\ p[i] \in Nat /\ p[i - 1] \in Nat /\ p[i] <= v /\ p[i] = p[i - 1] * 10 + (p[i] % 10)
              /\ u[i] = hexchar[(p[i] % 10) + 1] /\ u[i] \in NumberChars
  <2> DEFINE j == n - i
             h == i - 1
  <2>1. j \in 0 .. k /\ j + 1 = n - h /\ i \in 0 .. n /\ h \in 0 .. n
    BY <1>8
  <2>2. p[i] = q[j] /\ p[h] = q[j + 1]
    <3>1. p[i] = q[n - i] /\ p[h] = q[n - h]
      BY <1>9, <2>1
    <3> QED BY <2>1, <3>1
  <2>3. u[i] = IF digit(j) = 10 THEN ":" ELSE hexchar[digit(j) + 1]
    <3>1. u[i] = IF digit(k + 1 - i) = 10 THEN ":" ELSE hexchar[digit(k + 1 - i) + 1]
      BY <1>3
    <3>2. k + 1 - i = j
      BY <1>1
    <3> HIDE DEF j
    <3> QED BY <3>1, <3>2
  <2> HIDE DEF j, h, n, p
  <2>4. /\ q[j] \in Nat /\ q[j] <= v /\ q[j + 1] \in Nat /\ q[j] = q[j + 1] * 10 + (q[j] % 10)
        /\ q[j] % 10 \in 0 .. 9 /\ digit(j) = q[j] % 10
    BY <1>7, <2>1
  <2>5. u[i] = hexchar[(q[j] % 10) + 1]
    BY ONLY <2>3, <2>4
  <2>6. (q[j] % 10) + 1 \in 1 .. 16
    BY <2>4
  <2>7. hexchar[(q[j] % 10) + 1] \in NumberChars
    BY <2>6, DigitsApart DEF NumberChars
  <2> QED BY ONLY <2>2, <2>4, <2>5, <2>7 DEF h
<1>11. u \in Seq(NumberChars) /\ Len(u) = n
  <2>1. u = [i \in 1 .. n |-> u[i]] /\ n \in Nat
    BY <1>3, <1>4
  <2> HIDE DEF n, p
  <2> QED BY <1>10, <2>1
<1>12. p \in [0 .. n -> Nat]
  <2>1. \A i \in 0 .. n : p[i] \in Nat
    <3> SUFFICES ASSUME NEW i \in 0 .. n PROVE p[i] \in Nat
      OBVIOUS
    <3>1. CASE i = 0
      BY <1>9, <3>1
    <3>2. CASE i # 0
      <4>1. i \in 1 .. n
        BY <1>4, <3>2
      <4> HIDE DEF p, n
      <4> QED BY <1>10, <4>1
    <3> QED BY <3>1, <3>2
  <2>2. p = [i \in 0 .. n |-> p[i]]
    OBVIOUS
  <2> HIDE DEF p, n
  <2> QED BY <2>1, <2>2
<1> HIDE DEF p, n
<1>13. DigitsAre(u, n, p, v)
  BY <1>4, <1>9, <1>10, <1>11, <1>12 DEF DigitsAre
<1> QED BY <1>13 DEF u

(* The digits are read as the number, after a sign or without.                *)
LEMMA DecimalRead ==
  ASSUME NEW v \in Nat, v < Top, NEW u, NEW n, NEW p, DigitsAre(u, n, p, v),
         NEW o \in {0, 1}, NEW t \in Seq(NumberChars), Len(t) = n + o,
         \A i \in 1 .. n : t[i + o] = u[i], o = 1 => t[1] = "-"
  PROVE  FoldLeft(DecimalStep, 0, t) = v
<1> DEFINE C == NumberChars
           m == n + o
<1>1. /\ n \in 1 .. 9 /\ p \in [0 .. n -> Nat]
      /\ p[0] = 0 /\ p[n] = v
      /\ \A i \in 1 .. n : /\ p[i] <= v /\ p[i] = p[i - 1] * 10 + (p[i] % 10)
                           /\ u[i] = hexchar[(p[i] % 10) + 1]
  BY DEF DigitsAre
<1>2. t \in Seq(C) /\ Len(t) = m /\ m \in Nat /\ o \in Nat
  BY <1>1
<1> HIDE DEF C, m
<1>3. PICK h \in [0 .. Len(t) -> Nat] :
         Rounds(h, t, 0, DecimalSteps(C)) /\ FoldLeft(DecimalStep, 0, t) = h[Len(t)]
  BY <1>2, DecimalFold
<1>4. ASSUME NEW i \in 1 .. m PROVE h[i] = DecimalStep(h[i - 1], t[i])
  <2>1. h[i] = DecimalSteps(C)[<<h[i - 1], t[i]>>]
    BY <1>2, <1>3 DEF Rounds
  <2>2. h[i - 1] \in Nat /\ t[i] \in C
    <3> DEFINE j == i - 1
    <3>1. j \in 0 .. Len(t) /\ i \in 1 .. Len(t)
      BY <1>2
    <3> HIDE DEF j
    <3>2. h[j] \in Nat
      BY <3>1
    <3>3. t[i] \in C
      BY <1>2, <3>1
    <3> QED BY <3>2, <3>3 DEF j
  <2> QED BY <2>1, <2>2 DEF DecimalSteps
<1>5. h[o] = 0
  <2>1. h[0] = 0
    BY <1>3 DEF Rounds
  <2>2. CASE o = 1
    <3>1. 1 \in 1 .. m /\ 1 - 1 = 0
      BY <1>1, <2>2 DEF m
    <3>2. h[1] = DecimalStep(0, "-")
      BY <1>4, <2>1, <2>2, <3>1
    <3>3. "-" \notin Decimal
      BY DEF Decimal, hexchar
    <3>4. DecimalStep(0, "-") = 0 % Top
      BY <3>3 DEF DecimalStep
    <3> QED BY <2>2, <3>2, <3>4, TopAssumption
  <2> QED BY <2>1, <2>2
<1> DEFINE T == {i \in 0 .. n : h[i + o] = p[i]}
<1>6. 0 \in T
  <2>1. 0 + o = o /\ 0 \in 0 .. n /\ h[o] = p[0]
    BY <1>1, <1>2, <1>5
  <2> QED BY ONLY <2>1
<1>7. ASSUME NEW i \in 0 .. n - 1, i \in T PROVE i + 1 \in T
  <2> DEFINE k == i + 1
             j == k + o
             a == p[i]
             b == p[k]
  <2>1. k \in 1 .. n /\ k - 1 = i /\ j \in 1 .. m /\ j - 1 = i + o /\ k \in 0 .. n /\ i \in 0 .. n
    BY <1>1 DEF m
  <2>2. h[j - 1] = a
    BY <1>7, <2>1
  <2> HIDE DEF k, T
  <2>3. b \in Nat /\ b <= v /\ a \in Nat /\ b = a * 10 + (b % 10)
    BY <1>1, <2>1
  <2>4. t[j] = hexchar[(b % 10) + 1]
    BY <1>1, <2>1
  <2> HIDE DEF j, a, b
  <2>5. h[j] = DecimalStep(a, hexchar[(b % 10) + 1])
    BY <1>4, <2>1, <2>2, <2>4
  <2>6. h[j] = b
    <3>1. a * 10 + (b % 10) < Top /\ b % 10 \in 0 .. 9
      BY <2>3, TopAssumption
    <3> QED BY <2>3, <2>5, <3>1, DecimalDigitStep
  <2>7. k \in T
    BY <2>1, <2>6 DEF T, j, b
  <2> QED BY <2>7 DEF k
<1>8. n \in T
  <2>1. n \in Nat /\ n \in 0 .. n
    BY <1>1
  <2> HIDE DEF T
  <2> QED BY <1>6, <1>7, <2>1, SetInduction
<1>9. h[m] = v
  <2>1. h[n + o] = p[n]
    BY <1>8
  <2> QED BY <1>1, <2>1 DEF m
<1> QED BY <1>2, <1>3, <1>9

(* A number in decimal is read as it is printed, or less its sign.            *)
LEMMA DecimalShown ==
  ASSUME NEW v \in Int, NEW w \in Nat, w = IF v < 0 THEN -v ELSE v,
         w < 10 ^ 9, w < Top, w \notin PowersOfTen
  PROVE  micro_strtol(format_d(v)) = w
<1> DEFINE t == format_d(v)
           u == Unsigned(w)
<1>1. CASE v = 0
  <2>1. t = <<"0">> /\ w = 0
    BY <1>1 DEF format_d
  <2>2. hexchar[1] = "0" /\ "0" # "x"
    BY DEF hexchar
  <2>3. "0" \in NumberChars
    BY <2>2, DigitsApart DEF NumberChars
  <2>4. t \in Seq(NumberChars) /\ Len(t) = 1 /\ t[1] = "0"
    BY <2>1, <2>3
  <2> HIDE DEF t
  <2>5. PICK h \in [0 .. Len(t) -> Nat] :
           Rounds(h, t, 0, HexSteps(NumberChars)) /\ FoldLeft(HexStep, 0, t) = h[Len(t)]
    BY <2>4, HexFold
  <2>6. 1 \in 1 .. Len(t) /\ 1 - 1 = 0
    BY <2>4
  <2>7. h[0] = 0 /\ h[1] = HexSteps(NumberChars)[<<h[0], t[1]>>]
    BY <2>5, <2>6 DEF Rounds
  <2>8. h[1] = HexStep(0, "0")
    BY <2>3, <2>4, <2>7 DEF HexSteps
  <2>9. HexStep(0, hexchar[0 + 1]) = 0 * 16 + 0
    <3>1. 0 \in Nat /\ 0 \in 0 .. 15 /\ 0 * 16 + 0 < Top
      BY TopAssumption
    <3> QED BY <3>1, HexDigitStep
  <2>10. h[1] = 0
    BY <2>2, <2>8, <2>9
  <2>11. t # <<>>
    <3>1. Len(<<>>) = 0 /\ Len(t) # 0
      BY <2>4
    <3> QED BY <3>1, Zenon
  <2>12. micro_strtol(t) = FoldLeft(HexStep, 0, t)
    BY <2>4, <2>11, Zenon DEF micro_strtol
  <2> QED BY <2>1, <2>4, <2>5, <2>10, <2>12 DEF t
<1>2. CASE v # 0
  <2>1. w > 0 /\ t = IF v < 0 THEN <<"-">> \o u ELSE u
    BY <1>2 DEF format_d
  <2>2. PICK n, p : DigitsAre(u, n, p, w)
    BY <2>1, UnsignedDigits
  <2> HIDE DEF t, u
  <2>3. u \in Seq(NumberChars) /\ Len(u) = n /\ n \in 1 .. 9
    BY <2>2 DEF DigitsAre
  <2>4. \E o \in {0, 1} : /\ t \in Seq(NumberChars) /\ Len(t) = n + o
                          /\ \A i \in 1 .. n : t[i + o] = u[i]
                          /\ o = 1 => t[1] = "-"
                          /\ o = 0 => t = u
    <3>1. CASE v < 0
      <4> DEFINE a == "-"
                 s == <<a>> \o u
      <4>1. a \in NumberChars /\ t = s
        BY <2>1, <3>1 DEF NumberChars
      <4> HIDE DEF a
      <4>2. /\ s \in Seq(NumberChars) /\ Len(s) = Len(u) + 1 /\ s[1] = a
            /\ \A i \in 1 .. Len(u) : s[i + 1] = u[i]
        BY ONLY <2>3, <4>1
      <4> HIDE DEF s
      <4> QED BY <2>3, <4>1, <4>2 DEF a
    <3>2. CASE ~ (v < 0)
      <4>1. t = u
        BY <2>1, <3>2
      <4> QED BY <2>3, <4>1
    <3> QED BY <3>1, <3>2
  <2>5. PICK o \in {0, 1} : /\ t \in Seq(NumberChars) /\ Len(t) = n + o
                            /\ \A i \in 1 .. n : t[i + o] = u[i]
                            /\ o = 1 => t[1] = "-"
                            /\ o = 0 => t = u
    BY <2>4
  <2>6. FoldLeft(DecimalStep, 0, t) = w
    BY <2>2, <2>5, DecimalRead
  <2>7. t # <<>>
    <3>1. Len(<<>>) = 0 /\ Len(t) # 0
      BY <2>3, <2>5
    <3> QED BY <3>1, Zenon
  <2>8. t[1] # "0" /\ t[1] \in LeadsDecimal
    <3>1. CASE o = 1
      BY <2>5, <3>1 DEF LeadsDecimal
    <3>2. CASE o = 0
      <4> DEFINE d == p[1]
                 e == (d % 10) + 1
      <4>1. d \in Nat /\ d > 0 /\ d = 0 * 10 + (d % 10) /\ u[1] = hexchar[e]
        <5>1. 1 \in 1 .. n /\ 1 - 1 = 0 /\ 1 \in 0 .. n
          BY <2>3
        <5> QED BY <2>2, <5>1 DEF DigitsAre
      <4> HIDE DEF d
      <4>2. e \in 2 .. 10
        BY <4>1
      <4> HIDE DEF e
      <4>3. hexchar[e] \in Decimal
        BY <4>2 DEF Decimal
      <4>4. hexchar[e] # "0"
        BY <4>2 DEF hexchar
      <4> QED BY <2>5, <3>2, <4>1, <4>3, <4>4 DEF LeadsDecimal
    <3> QED BY <3>1, <3>2
  <2>9. micro_strtol(t) = FoldLeft(DecimalStep, 0, t)
    BY <2>7, <2>8, Zenon DEF micro_strtol
  <2> QED BY <2>6, <2>9 DEF t
<1> QED BY <1>1, <1>2

(* The number that is printed is read back.                                   *)
LEMMA ShowReads == ASSUME NEW v \in Shown, Show(v) PROVE ReadBack'
<1> DEFINE w == IF v < 0 THEN -v ELSE v
<1>1. /\ v \in Int /\ -Top < v /\ v < Top /\ v < 1000000000 /\ -1000000000 < v
  BY ShownAssumption
<1>2. /\ did'.x = format_x(v % Top, 8) /\ did'.d = format_d(v) /\ did'.of = v
  BY DEF Show
<1>3. ASSUME v >= 0 PROVE micro_strtol(<<"0", "x">> \o did'.x) = v
  <2>1. v \in Nat /\ v < Top /\ v < 16 ^ 8
    BY <1>1, <1>3
  <2>2. v % Top = v
    BY <2>1, BelowTop
  <2> QED BY <1>2, <2>1, <2>2, HexShown
<1>4. ASSUME w \notin PowersOfTen PROVE micro_strtol(did'.d) = w
  <2>1. w \in Nat /\ w < Top /\ w < 10 ^ 9
    BY <1>1, TopAssumption
  <2> QED BY <1>1, <1>2, <1>4, <2>1, DecimalShown
<1> QED BY <1>2, <1>3, <1>4 DEF ReadBack

(* No other step prints a number.                                             *)
LEMMA ShowNext == ReadBack /\ [Next]_vars => ReadBack'
<1> SUFFICES ASSUME ReadBack, [Next]_vars PROVE ReadBack'
  OBVIOUS
<1>1. ASSUME did'.op # "number" PROVE ReadBack'
  BY <1>1 DEF ReadBack
<1>2. CASE \E v \in Shown : Show(v)
  BY <1>2, ShowReads
<1>3. CASE Loop
  BY <1>1, <1>3 DEF Loop, LoopRead, LoopWrite, LoopNeither, Access, Nothing
<1>4. CASE Dump \/ Map
  BY <1>1, <1>4 DEF Dump, Map, Nothing
<1>5. CASE I2cReg \/ SpiReg
  <2>1. ASSUME NEW c, NEW table, RegAccess(c, table) PROVE did'.op # "number"
    BY <2>1 DEF RegAccess, RegRead, RegWrite, RegProbe, RegRefuse, PrintAll, Unknown
  <2> QED BY <1>1, <1>5, <2>1 DEF I2cReg, SpiReg
<1>6. CASE LsmAccess \/ LsmSession
  BY <1>1, <1>6 DEF LsmAccess, LsmSession, LsmBadDevice, LsmDisplay, LsmRead, LsmReadAll, LsmReadOne,
                    LsmWrite, LsmUnknown, LsmProbe, Nothing
<1>7. CASE Display \/ DisplayEnd
  BY <1>1, <1>7 DEF Display, DisplayEnd, SensorByte, SensorFails, ShowSample, Nothing
<1>8. CASE (\E c \in Keys : Session(c)) \/ Reprompt
  BY <1>1, <1>8 DEF Session, LsmMove, LsmDigit, LsmReturn, LsmErase, LsmForget, LsmClose, Reprompt, Nothing
<1>9. CASE UNCHANGED vars
  BY <1>9 DEF vars, ReadBack
<1> QED BY <1>2, <1>3, <1>4, <1>5, <1>6, <1>7, <1>8, <1>9 DEF Next, Others

(* ReadBack: what format_x and format_d print, micro_strtol reads as the same
   number, for every number of less than ten digits but the powers of ten
   (format.c, micro_util.c:47).                                               *)
THEOREM ShownReadsBack == Spec => []ReadBack
<1>1. Init => ReadBack
  BY DEF Init, ReadBack, Nothing
<1> QED BY <1>1, ShowNext, PTL DEF Spec
=============================================================================
