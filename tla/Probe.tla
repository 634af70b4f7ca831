------------------------------- MODULE Probe --------------------------------
(***************************************************************************)
(* The probe sessions of probe.c, started by the commands of mem_db.c,     *)
(* i2c_reg.c and spi_reg.c and fed by the shell while pass_to is set.  A   *)
(* target is what the Probe_funcs of a command reach: memory, at any       *)
(* address and of three sizes, or the registers of a peripheral.           *)
(*                                                                         *)
(* Every step is a step of Shell: the conjuncts added here say what the    *)
(* probe does in it.                                                       *)
(***************************************************************************)
EXTENDS Shell

CONSTANTS
  Target,      \* the target of each command that probes
  Memory,      \* the target that is memory; the others are registers
  Count,       \* the registers of each other target
  Addresses,   \* the number of addresses: 2^32
  Digits, Hex, \* the digits and their values
  Base, Top,   \* 16, and 2^32, the values of set_value
  Width,       \* the values a place in memory of each size holds
  Inc, Dec,    \* '+' and '-'
  Close,       \* '.' and 'q'
  MaxDigits    \* bound: digits of one entry

Sizes   == {1, 2, 4}
Targets == {Target[c] : c \in DOMAIN Target}
Regs    == Targets \ {Memory}

ASSUME TargetAssumption ==
  /\ DOMAIN Target = {c \in Cmds : Does[c] = "session"}
  /\ Memory \in Targets /\ Null \notin Targets
  /\ Count \in [Regs -> Nat \ {0}]
ASSUME AddressAssumption ==
  Addresses \in Nat /\ Addresses > 0 /\ Addresses % 2 = 0 /\ Addresses % 4 = 0
ASSUME DigitAssumption ==
  /\ Base \in Nat /\ Base > 1 /\ Top \in Nat /\ Top > 0 /\ Top % Base = 0
  /\ Hex \in [Digits -> 0 .. Base - 1]
  /\ MaxDigits \in Nat
ASSUME WidthAssumption ==
  /\ Width \in [Sizes -> Nat \ {0}]
  /\ \A s \in Sizes : Top % Width[s] = 0

VARIABLES
  probe_pf,       \* the target of the session, Null when there is none
  getting_value,  \* digits of the value so far
  set_value,      \* the value so far
  pos,            \* probe_addr, i2c_reg_ind, spi_reg_ind
  probe_size,     \* the size for memory
  entry,          \* history: the digits of the value, as the user sees them
  lost,           \* history: 1 if one was erased when others had been shifted out
  fresh,          \* history: those of them typed in this session
  wrote           \* history: what the last character wrote

typing    == <<getting_value, set_value, entry, lost>>
probeVars == <<probe_pf, typing, pos, probe_size, fresh, wrote>>

NoWrite == [target |-> Null, size |-> 1, value |-> 0, typed |-> <<>>, lost |-> 0, own |-> 0]

ProbeInit ==
  /\ ShellInit
  /\ probe_pf = Null /\ getting_value = 0 /\ set_value = 0
  /\ pos = [t \in Targets |-> 0] /\ probe_size = 1
  /\ entry = <<>> /\ lost = 0 /\ fresh = 0 /\ wrote = NoWrite

-----------------------------------------------------------------------------
(* Starting a session.                                                      *)

(* probe_set_funcs, and the first prompt of the command.                    *)
SetFuncs(t) ==
  IF probe_pf = Null /\ pass_to = 0
  THEN pass_to' = 1 /\ probe_pf' = t /\ arg' = 0 /\ fresh' = 0
  ELSE UNCHANGED <<pass_to, probe_pf, fresh>> /\ arg' = 1

(* A slip: the address is aligned for words only.                           *)
AlignWords(a, size) == IF size = 4 THEN a - (a % 4) ELSE a

Align(a, size) == a - (a % size)

StartMemory(t) ==
  /\ t = Memory
  /\ \E a \in 0 .. Addresses - 1, size \in Sizes :
        /\ pos' = [pos EXCEPT ![t] = Align(a, size)]
        /\ probe_size' = size
  /\ SetFuncs(t)

StartRegs(t) == t \in Regs /\ UNCHANGED <<pos, probe_size>> /\ SetFuncs(t)

(* What the registers' command does besides: read, write, refuse.           *)
Other(t) == /\ t \in Regs /\ arg' = 1
            /\ UNCHANGED <<pass_to, probe_pf, pos, probe_size, fresh>>

RunCmd ==
  /\ IF last'.did = "ran" /\ last'.cmd \in DOMAIN Target
     THEN LET t == Target[last'.cmd] IN StartMemory(t) \/ StartRegs(t) \/ Other(t)
     ELSE UNCHANGED <<probe_pf, pos, probe_size, fresh>>
  /\ wrote' = NoWrite /\ UNCHANGED typing

-----------------------------------------------------------------------------
(* The functions of a target.                                               *)

Up(t)   == IF t = Memory THEN (pos[t] + probe_size) % Addresses
           ELSE IF pos[t] + 1 >= Count[t] THEN 0 ELSE pos[t] + 1

(* A slip: the register before the first is looked for with "<".            *)
DownSigned(t) == IF t = Memory THEN (pos[t] - probe_size) % Addresses ELSE pos[t] - 1

Down(t) == IF t = Memory THEN (pos[t] - probe_size) % Addresses
           ELSE IF pos[t] = 0 THEN Count[t] - 1 ELSE pos[t] - 1

-----------------------------------------------------------------------------
(* probe_proc.                                                              *)

NoEntry == /\ getting_value' = 0 /\ set_value' = 0
           /\ entry' = <<>> /\ lost' = 0 /\ fresh' = 0

(* What follows the switch.  It prints the prompt and the value at the
   position, unless a value is being typed.                                 *)
Reprompt == arg' = 0 /\ UNCHANGED <<probe_pf, pass_to, probe_size>>

Move(b) ==
  /\ b \in {Inc, Dec}
  /\ pos' = [pos EXCEPT ![probe_pf] = IF b = Inc THEN Up(probe_pf) ELSE Down(probe_pf)]
  /\ wrote' = NoWrite
  /\ UNCHANGED <<typing, fresh>> /\ Reprompt

(* The values a place holds: a register takes all 32 bits.                  *)
Room(t, size) == IF t = Memory THEN Width[size] ELSE Top

(* The casts of pf_write.                                                   *)
Stored(v) == v % Room(probe_pf, probe_size)

Return(b) ==
  /\ b \in Eol
  /\ IF getting_value # 0
     THEN /\ NoEntry
          /\ wrote' = [target |-> probe_pf, size |-> probe_size, value |-> Stored(set_value),
                       typed |-> entry, lost |-> lost, own |-> fresh]
     ELSE UNCHANGED <<typing, fresh>> /\ wrote' = NoWrite
  /\ UNCHANGED pos /\ Reprompt

(* A slip: the functions of the session stay set.                           *)
ReleaseHook == pass_to' = 0 /\ UNCHANGED probe_pf

Release == pass_to' = 0 /\ probe_pf' = Null

(* The end of the session.  The static variables keep what was typed.       *)
EndSession(b) ==
  /\ b \in Close
  /\ Release /\ arg' = 1
  /\ fresh' = 0 /\ wrote' = NoWrite
  /\ UNCHANGED <<typing, pos, probe_size>>

(* The number that is on the screen.                                        *)
ValueOf(ds) == FoldLeft(LAMBDA v, d : v * Base + Hex[d], 0, ds)

(* A slip: the value is not shifted back.                                   *)
DropDigitUnshifted(v) == v

DropDigit(v) == v \div Base

EraseDigit(b) ==
  /\ b \in Erase
  /\ IF getting_value > 1
     THEN /\ getting_value' = getting_value - 1
          /\ set_value' = DropDigit(set_value)
          /\ entry' = Front(entry)
          /\ lost' = IF ValueOf(entry) >= Top THEN 1 ELSE lost
          /\ fresh' = IF fresh = 0 THEN 0 ELSE fresh - 1
     ELSE IF getting_value = 1 THEN NoEntry ELSE UNCHANGED <<typing, fresh>>
  /\ wrote' = NoWrite
  /\ UNCHANGED pos /\ Reprompt

Digit(b) ==
  /\ b \in Digits /\ getting_value < MaxDigits
  /\ getting_value' = getting_value + 1
  /\ set_value' = ((set_value * Base) % Top) + Hex[b]
  /\ entry' = Append(entry, b) /\ fresh' = fresh + 1
  /\ wrote' = NoWrite
  /\ UNCHANGED <<pos, lost>> /\ Reprompt

Forget(b) ==
  /\ b \notin {Inc, Dec} \cup Eol \cup Close \cup Erase \cup Digits
  /\ NoEntry /\ wrote' = NoWrite
  /\ UNCHANGED pos /\ Reprompt

ProbeProc(b) == \/ Move(b) \/ Return(b) \/ EndSession(b)
                \/ EraseDigit(b) \/ Digit(b) \/ Forget(b)

ProbeNext ==
  \/ (StartShell \/ AddNext \/ StartLoop) /\ UNCHANGED probeVars
  \/ NoInput /\ wrote' = NoWrite /\ UNCHANGED <<probe_pf, typing, pos, probe_size, fresh>>
  \/ \E c \in Chars : Passed /\ ProbeProc(Lower[c])
  \/ \E c \in Chars : Input(Lower[c]) /\ RunCmd

ProbeSpec == ProbeInit /\ [][ProbeNext]_<<vars, probeVars>>

-----------------------------------------------------------------------------
(* Types; a register index never leaves the peripheral (i2c_reg.c:75, 81).  *)
ProbeTypeOK ==
  /\ ShellTypeOK
  /\ probe_pf \in Targets \cup {Null}
  /\ getting_value \in 0 .. MaxDigits /\ set_value \in 0 .. Top - 1
  /\ DOMAIN pos = Targets /\ probe_size \in Sizes
  /\ \A t \in Targets : pos[t] \in 0 .. (IF t = Memory THEN Addresses ELSE Count[t]) - 1
  /\ lost \in Bit

(* The shell passes characters on exactly while a probe has its functions:
   probe_proc never runs without them, and no command is ever refused with
   "could set pass to function" because an earlier session left one of the
   two behind.  (The LSM303 driver passes characters to a function of its own
   and is not among the targets here.)                                      *)
HookMeansProbe == pass_to = 1 <=> probe_pf # Null

(* Memory is accessed at a multiple of the size, whatever the way there:
   the start, '+' and '-', the wrap of the address.                         *)
Aligned == pos[Memory] % probe_size = 0

(* What return writes is the number on the screen, cut to what the place
   holds: "123" in a session of bytes writes 0x23.  Digits typed, erased and
   typed again, moves between them, a session that inherits them from an
   earlier one of another size or target: none comes between the screen and
   the memory.  Excepted is an entry of which a digit was erased after others
   had been shifted out of set_value: ">>= 4" does not bring those back
   (probe.c:74), and the screen still shows them.                           *)
WrittenAsShown ==
  wrote.target # Null /\ wrote.lost = 0
  => wrote.value = ValueOf(wrote.typed) % Room(wrote.target, wrote.size)

(* Return alone reads again and writes nothing (mem_db.c:326-327): what is
   written was typed in this session.                                       *)
WritesOwnDigits == wrote.target # Null => wrote.own > 0
=============================================================================
