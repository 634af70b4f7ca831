------------------------------- MODULE Lsm303 -------------------------------
(* lsm303_driver.c: the registers of the accelerometer and the magnetometer  *)
(* over I2C, read and written by name or number, displayed as samples, and    *)
(* probed in a session that has the input to itself.  Every transfer may      *)
(* fail; what the chip holds is its own, so that a read returns any byte.     *)
EXTENDS Args

CONSTANTS
  Data,          \* bound: the bytes the chip returns
  Strays,        \* bound: the registers an index that was not set picks
  Keys,          \* bound: the characters typed in a session
  DefaultCount,  \* the samples shown when no count is typed: 100
  MaxSamples,    \* bound: samples of one display
  MaxDigits      \* bound: digits of one entry

ASSUME LsmAssumption ==
  /\ Data \subseteq 0 .. 255 /\ Data # {} /\ Strays \subseteq 0 .. 255
  /\ DefaultCount \in Nat /\ MaxSamples \in Nat /\ MaxDigits \in Nat

VARIABLES
  lsm303_probe_dev_num, lsm303_probe_index,
  getting_value, set_value,   \* statics of the session's function
  dev, left, ret_val, got,    \* a display: samples to go, the bytes of this one
  entry, lost                 \* history: digits on the screen; one was pushed out

probeState == <<lsm303_probe_dev_num, lsm303_probe_index>>
typing     == <<getting_value, set_value, entry, lost>>
display    == <<dev, left, ret_val, got>>
lsmVars    == <<probeState, typing, display>>

-----------------------------------------------------------------------------
(* Registers.                                                                *)
Acc == 50   \* 0x32
Mag == 60   \* 0x3c

R(name, num) == [name |-> name, num |-> num]

acc_reg ==
  LET name == <<"cr1", "cr2", "cr3", "cr4", "cr5", "cr6", "ref", "sr", "out_xl", "out_xh",
                "out_yl", "out_yh", "out_zl", "out_zh", "fifo_cr", "fifo_sr",
                "int1_cfg", "int1_src", "int1_ths", "int1_dur", "int2_cfg", "int2_src",
                "int2_ths", "int2_dur", "clik_cfg", "clik_src", "clik_ths",
                "time_lim", "time_lat", "time_win">>
  IN  [i \in DOMAIN name |-> R(name[i], 31 + i)]   \* from 0x20

mag_reg ==
  LET name == <<"cra", "crb", "mr", "out_xh", "out_xl", "out_zh", "out_zl", "out_yh", "out_ly",
                "sr", "ira", "irb", "irc", "temp_h", "temp_l">>
  IN  [i \in DOMAIN name |-> R(name[i], IF i < 14 THEN i - 1 ELSE i + 35)]

Table(d) == IF d = Acc THEN acc_reg ELSE mag_reg

BadReg == 255

(* A slip: only the upper end is looked at.                                  *)
InTableBelow(d, num) == num <= Table(d)[Len(Table(d))].num

(* Numbers between the first and the last register, whether or not there is one. *)
InTable(d, num) == num \in Table(d)[1].num .. Table(d)[Len(Table(d))].num

(* acc_reg_num_from_name, mag_reg_num_from_name.                             *)
RegNum(d, w) ==
  LET named == {i \in DOMAIN Table(d) : Table(d)[i].name = w}
      num   == micro_strtol(Spell[w]) % 256
  IN  IF named # {} THEN Table(d)[CHOOSE i \in named : TRUE].num
      ELSE IF InTable(d, num) THEN num ELSE BadReg

AllRegs(d) == {r.num : r \in Range(Table(d))}

(* X, Y and Z, the high byte first.                                          *)
sensor_num(d) == IF d = Acc THEN <<41, 40, 43, 42, 45, 44>> ELSE <<3, 4, 7, 8, 5, 6>>

-----------------------------------------------------------------------------
(* lsm303_cmd_access: the device, then the sub-command.                      *)
Device == LET num == Num(1) % 256
          IN  IF num \in {Acc, Mag} THEN num
              ELSE IF sargv'[1] = "acc" THEN Acc ELSE IF sargv'[1] = "mag" THEN Mag ELSE 0

LsmBadDevice == Device = 0 /\ did' = Nothing /\ mode' = "prompt" /\ UNCHANGED lsmVars

StartIndex == 1

LsmProbe ==
  /\ Device # 0 /\ Letter(2) = "p"
  /\ lsm303_probe_dev_num' = Device /\ lsm303_probe_index' = StartIndex
  /\ mode' = "session" /\ did' = Nothing
  /\ UNCHANGED <<typing, display>>

NoBytes == [ii \in 0 .. 7 |-> 0]    \* ret_val.u64 = 0; u8[0] first
Failed  == [ii \in 0 .. 7 |-> 255]  \* ret_val.s64 = -1

LsmDisplay ==
  LET count == IF sargc' = 4 THEN Num(3) ELSE DefaultCount
  IN  /\ Device # 0 /\ Letter(2) = "d" /\ count \in 0 .. MaxSamples
      /\ mode' = "display" /\ did' = Nothing
      /\ dev' = Device /\ left' = count /\ ret_val' = NoBytes /\ got' = <<>>
      /\ UNCHANGED <<probeState, typing>>

(* Something is read through a pointer or an index that was not set: at the end
   of a display and of an unknown sub-command the text of a message.          *)
Unset == mode' \in {"prompt", "fault"}

LsmReadAll ==
  /\ Letter(3) = "a" /\ did' = [op |-> "read", dev |-> Device, regs |-> AllRegs(Device)]
  /\ mode' = "prompt"

(* A name that is not known is refused, but before it is looked at the code
   reads mag_reg[ii] of whichever device it is (l. 581): ii has no value, and
   any register is read, or the access faults.  The name printed after the
   register's own value is that of the same index.                            *)
LsmReadOne ==
  LET reg == RegNum(Device, sargv'[3])
  IN  /\ Letter(3) # "a"
      /\ \/ did' = Nothing /\ mode' = "fault"
         \/ \E stray \in Strays :
              /\ did' = [op |-> "read", dev |-> Device, regs |-> {stray} \cup ({reg} \ {BadReg})]
              /\ IF reg = BadReg THEN mode' = "prompt" ELSE Unset

(* With three arguments sargv[3] is a word of an earlier line.                *)
LsmRead ==
  /\ Device # 0 /\ Letter(2) = "r"
  /\ LsmReadAll \/ LsmReadOne
  /\ UNCHANGED lsmVars

(* A register that is not known is written all the same, as 0xff.             *)
LsmWrite ==
  /\ Device # 0 /\ Letter(2) = "w"
  /\ did' = IF sargc' # 5 THEN Nothing
            ELSE [op |-> "write", dev |-> Device, reg |-> RegNum(Device, sargv'[3]),
                  value |-> Num(4) % 256, typed |-> <<>>, lost |-> 0]
  /\ mode' = "prompt" /\ UNCHANGED lsmVars

LsmUnknown ==
  /\ Device # 0 /\ Letter(2) \notin {"p", "d", "r", "w"}
  /\ Unset /\ did' = Nothing
  /\ UNCHANGED lsmVars

LsmAccess ==
  /\ Call("lsm303", 3, 5)
  /\ LsmBadDevice \/ LsmDisplay \/ LsmRead \/ LsmWrite \/ LsmUnknown

LsmSession == Call("lsm303", 3, 5) /\ LsmProbe

-----------------------------------------------------------------------------
(* The display, one transfer a step: get_sensor_values.                      *)
U16(bytes, k) == bytes[2 * k] + 256 * bytes[2 * k + 1]

ShowSample(bytes) ==
  /\ did' = [op |-> "sample", dev |-> dev, got |-> got,
             x |-> U16(bytes, 0), y |-> U16(bytes, 1), z |-> U16(bytes, 1)]
  /\ left' = left - 1 /\ ret_val' = NoBytes /\ got' = <<>>

SensorByte ==
  /\ Len(got) < 6
  /\ \E b \in Data : got' = Append(got, b) /\ ret_val' = [ret_val EXCEPT ![5 - Len(got)] = b]
  /\ did' = Nothing /\ UNCHANGED left

(* Slips: what was read before the failure is shown; the sample is not counted. *)
SensorFailsPartly == Len(got) < 6 /\ ShowSample(ret_val)
SensorRetries     == /\ Len(got) < 6 /\ did' = Nothing
                     /\ ret_val' = NoBytes /\ got' = <<>> /\ UNCHANGED left

SensorFails == Len(got) < 6 /\ ShowSample(Failed)

Display ==
  /\ mode = "display" /\ left > 0
  /\ SensorByte \/ SensorFails \/ (Len(got) = 6 /\ ShowSample(ret_val))
  /\ Over("lsm303")
  /\ UNCHANGED <<mode, probeState, typing, dev>>

DisplayEnd ==
  /\ mode = "display" /\ left = 0
  /\ Unset /\ did' = Nothing
  /\ Over("lsm303") /\ UNCHANGED lsmVars

-----------------------------------------------------------------------------
(* The session: lsm303_probe_pass_to_func.                                   *)

(* What follows the switch: the prompt and a read into set_value, unless a
   value is being typed.  A transfer that fails may have stored its byte.     *)
Prompt(digits, value) ==
  /\ getting_value' = digits
  /\ set_value' \in (IF digits = 0 THEN Data \cup {value} ELSE {value})

SameEntry == UNCHANGED <<entry, lost>>
NoEntry   == entry' = <<>> /\ lost' = 0

(* A slip: the length of the other table.                                    *)
WrapOther(i, n) == IF i > Len(acc_reg) THEN 1 ELSE IF i < 1 THEN n ELSE i

Wrap(i, n) == IF i > n THEN 1 ELSE IF i < 1 THEN n ELSE i

LsmMove(c) ==
  /\ c \in {"+", "-"}
  /\ lsm303_probe_index' = Wrap(IF c = "+" THEN lsm303_probe_index + 1 ELSE lsm303_probe_index - 1,
                                Len(Table(lsm303_probe_dev_num)))
  /\ Prompt(getting_value, set_value) /\ SameEntry /\ did' = Nothing

LsmReturn(c) ==
  /\ c \in {"\n", "\r"}
  /\ IF getting_value > 0
     THEN /\ did' = [op |-> "write", dev |-> lsm303_probe_dev_num,
                     reg |-> Table(lsm303_probe_dev_num)[lsm303_probe_index].num,
                     value |-> set_value, typed |-> entry, lost |-> lost]
          /\ Prompt(0, 0) /\ NoEntry
     ELSE did' = Nothing /\ Prompt(0, set_value) /\ SameEntry
  /\ UNCHANGED lsm303_probe_index

(* A slip: the value is not shifted back.                                    *)
DropDigitUnshifted(v) == v

DropDigit(v) == v \div 16

LsmErase(c) ==
  /\ c = "bs"
  /\ IF getting_value > 1
     THEN Prompt(getting_value - 1, DropDigit(set_value)) /\ entry' = Front(entry) /\ UNCHANGED lost
     ELSE IF getting_value = 1 THEN Prompt(0, 0) /\ NoEntry ELSE Prompt(0, set_value) /\ SameEntry
  /\ did' = Nothing /\ UNCHANGED lsm303_probe_index

LsmDigit(c) ==
  /\ c \in Range(hexchar) /\ getting_value < MaxDigits
  /\ Prompt(getting_value + 1, ((set_value * 16) % 256) + ValueOf(c))
  /\ entry' = Append(entry, c) /\ lost' = IF Len(entry) < 2 THEN lost ELSE 1
  /\ did' = Nothing /\ UNCHANGED lsm303_probe_index

LsmForget(c) ==
  /\ c \notin {"+", "-", "\n", "\r", "bs", ".", "q"} \cup Range(hexchar)
  /\ Prompt(0, 0) /\ NoEntry
  /\ did' = Nothing /\ UNCHANGED lsm303_probe_index

(* The statics keep what was typed.                                          *)
LsmClose(c) == c \in {".", "q"} /\ mode' = "prompt" /\ did' = Nothing /\ UNCHANGED lsmVars

Session(c) ==
  /\ mode = "session" /\ Over("lsm303")
  /\ \/ /\ LsmMove(c) \/ LsmReturn(c) \/ LsmErase(c) \/ LsmDigit(c) \/ LsmForget(c)
        /\ UNCHANGED <<mode, lsm303_probe_dev_num, display>>
     \/ LsmClose(c)

-----------------------------------------------------------------------------
(* Types; the register of a session is in the table of its device, whichever
   of the two tables, of different lengths, the session before was in, and
   however it is wrapped (lsm303_driver.c:381-390, 520).                      *)
LsmTypeOK ==
  /\ mode \in {"shell", "prompt", "session", "display", "fault"}
  /\ mode = "session" => /\ lsm303_probe_dev_num \in {Acc, Mag}
                         /\ lsm303_probe_index \in DOMAIN Table(lsm303_probe_dev_num)
  /\ getting_value \in 0 .. MaxDigits /\ set_value \in 0 .. 255
  /\ left \in 0 .. MaxSamples /\ DOMAIN ret_val = 0 .. 7 /\ got \in Seq(Data)

(* Every number of a sample is the high and the low byte of one axis, both read
   for this sample; if any of the six transfers failed, none of them is shown
   but the mark of a failure (lsm303_driver.c:307-311).  (Which axis is another
   matter: the display calls Z x, and shows Y twice.)                         *)
Part(s, names) ==
  s.got[CHOOSE i \in 1 .. 6 : \E r \in Range(Table(s.dev)) :
                                r.num = sensor_num(s.dev)[i] /\ r.name \in names]
Axes(s) == {256 * Part(s, {"out_xh"}) + Part(s, {"out_xl"}),
            256 * Part(s, {"out_yh"}) + Part(s, {"out_yl", "out_ly"}),
            256 * Part(s, {"out_zh"}) + Part(s, {"out_zl"})}
SampleWhole ==
  did.op = "sample" =>
    {did.x, did.y, did.z} \subseteq (IF Len(did.got) = 6 THEN Axes(did) ELSE {65535})

(* Once two digits have been typed and none pushed out, return writes their
   value, whatever was erased and moved in between (lsm303_driver.c:413-440):
   what the prompt read into set_value (l. 449) is gone from it.  After one
   digit it is not.                                                            *)
EntryValue(ds) == FoldLeft(LAMBDA v, c : 16 * v + ValueOf(c), 0, ds)
FullEntryWritten ==
  cmd = "lsm303" /\ did.op = "write" /\ Len(did.typed) > 1 /\ did.lost = 0 =>
    did.value = EntryValue(did.typed)

(* What the third word of a line stands for: the register of that name, and the
   number, if it lies between the first and the last register.  (On the
   magnetometer these begin at 0, which is what a name misspelt reads as.)      *)
Meant(d, w) ==
  {r.num : r \in {q \in Range(Table(d)) : q.name = w}} \cup
  ({micro_strtol(Spell[w]) % 256} \cap (Table(d)[1].num .. Table(d)[Len(Table(d))].num))

(* What lsm303 reads and writes when a register is on its line: all of the
   device's for "a...", otherwise the one that is meant and none in its place
   when none is ("bad register name/number", l. 584).  Two accesses besides are
   the code's, and in the statement for that: reading one register reads a
   stray one first (l. 581), and a write to a name not known goes to 0xff
   (l. 607).  What a session reads to show is not of the line.                 *)
LsmNamed ==
  cmd = "lsm303" /\ sargc > 3 =>
    /\ did.op = "read" =>
         \/ did.regs = AllRegs(did.dev) /\ Spell[sargv[3]][1] = "a"
         \/ \E stray \in Strays : did.regs \ {stray} \subseteq Meant(did.dev, sargv[3])
    /\ did.op = "write" => did.reg \in Meant(did.dev, sargv[3]) \cup {BadReg}

(* A display ends, even if the chip never answers.                            *)
DisplayEnds == (mode = "display") ~> (mode # "display")
=============================================================================
