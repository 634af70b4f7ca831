---------------------------- MODULE Probe_proofs ----------------------------
(* Proofs about Probe, for every memory size, peripheral and keyboard.      *)
EXTENDS Probe, Shell_proofs

LEMMA FindMember == ASSUME NEW w PROVE Find(w) \in Cmds \cup {Null}
<1>1. Found(w) \subseteq Cmds
  BY DEF Found, Listed, Walk, Nodes
<1>2. CASE Found(w) = {}
  BY <1>2 DEF Find
<1>3. CASE Found(w) # {}
  <2>1. Find(w) \in Found(w)
    BY <1>3 DEF Find
  <2> QED BY <1>1, <2>1
<1> QED BY <1>2, <1>3

LEMMA RanIsFound ==
  ASSUME NEW argv, Verdict(argv) = "ran"
  PROVE  Find(argv[1]) \in Cmds
<1>1. Find(argv[1]) # Null
  BY Zenon DEF Verdict
<1> QED BY <1>1, FindMember

(* A line changes pass_to only through a command that starts a session.     *)
LEMMA ProcessPass ==
  ASSUME NEW l, NEW s, Process(l, s), ShellTypeOK, pass_to = 0
  PROVE  \/ pass_to' = 0
         \/ pass_to' = 1 /\ last'.did = "ran" /\ last'.cmd \in DOMAIN Target
<1> DEFINE argv == Args(l, MaxArgs)
           verdict == Verdict(argv)
           cmd == IF verdict = "ran" THEN Find(argv[1]) ELSE Null
<1>1. /\ \/ verdict = "ran" /\ Effect(cmd)
         \/ verdict # "ran" /\ UNCHANGED pass_to
      /\ last'.did = verdict /\ last'.cmd = cmd
  BY DEF Process
<1>2. verdict = "ran" => cmd \in Cmds
  BY RanIsFound
<1> HIDE DEF verdict, cmd
<1> QED BY <1>1, <1>2, TargetAssumption DEF Effect

LEMMA InputPass ==
  ASSUME NEW b, Input(b), ShellTypeOK
  PROVE  /\ pass_to = 0
         /\ \/ pass_to' = 0
            \/ pass_to' = 1 /\ last'.did = "ran" /\ last'.cmd \in DOMAIN Target
BY ProcessPass DEF Input, EmptyLine, Quit, EraseChar, AddChar, EndLine, FillLine, Edits

-----------------------------------------------------------------------------
(* Every step of Probe is a step of the shell.                              *)
THEOREM ProbeUsesShell == ProbeSpec => ShellSpec
<1>1. ProbeInit => ShellInit
  BY DEF ProbeInit
<1>2. [ProbeNext]_<<vars, probeVars>> => [ShellNext]_vars
  BY DEF ProbeNext, ShellNext
<1> QED BY <1>1, <1>2, PTL DEF ProbeSpec, ShellSpec

LEMMA ProbeShellTypes == ProbeSpec => []ShellTypeOK
BY ProbeUsesShell, ShellTypes, PTL

-----------------------------------------------------------------------------
(* What one character does to the hook and to the position.                 *)

LEMMA ProbeProcHook ==
  ASSUME NEW b, Passed, ProbeProc(b), HookMeansProbe
  PROVE  HookMeansProbe'
<1>1. pass_to = 1 /\ probe_pf # Null
  BY DEF Passed, HookMeansProbe
<1>2. CASE EndSession(b)
  BY <1>2 DEF EndSession, Release, HookMeansProbe
<1>3. CASE ~ EndSession(b)
  <2>1. Reprompt
    BY <1>3 DEF ProbeProc, Move, Return, EraseDigit, Digit, Forget
  <2> QED BY <2>1, <1>1 DEF Reprompt, HookMeansProbe
<1> QED BY <1>2, <1>3

LEMMA RunCmdHook ==
  ASSUME NEW b, Input(b), RunCmd, ShellTypeOK, HookMeansProbe
  PROVE  HookMeansProbe'
<1>1. pass_to = 0 /\ probe_pf = Null
  BY InputPass DEF HookMeansProbe
<1>2. CASE last'.did = "ran" /\ last'.cmd \in DOMAIN Target
  <2> DEFINE t == Target[last'.cmd]
  <2>1. t \in Targets /\ t # Null
    BY <1>2, TargetAssumption DEF Targets
  <2>2. StartMemory(t) \/ StartRegs(t) \/ Other(t)
    BY <1>2 DEF RunCmd
  <2> HIDE DEF t
  <2>3. SetFuncs(t) \/ UNCHANGED <<pass_to, probe_pf>>
    BY <2>2 DEF StartMemory, StartRegs, Other
  <2> QED BY <1>1, <2>1, <2>3 DEF SetFuncs, HookMeansProbe
<1>3. CASE ~ (last'.did = "ran" /\ last'.cmd \in DOMAIN Target)
  <2>1. pass_to' = 0
    BY <1>3, InputPass
  <2>2. probe_pf' = probe_pf
    BY <1>3 DEF RunCmd
  <2> QED BY <1>1, <2>1, <2>2 DEF HookMeansProbe
<1> QED BY <1>2, <1>3

(* The shell passes characters on exactly while a probe has its functions.  *)
THEOREM ProbeHook == ProbeSpec => []HookMeansProbe
<1>1. ProbeInit => HookMeansProbe
  BY DEF ProbeInit, ShellInit, HookMeansProbe
<1>2. HookMeansProbe /\ ShellTypeOK /\ [ProbeNext]_<<vars, probeVars>> => HookMeansProbe'
  <2> SUFFICES ASSUME HookMeansProbe, ShellTypeOK, [ProbeNext]_<<vars, probeVars>>
               PROVE  HookMeansProbe'
    OBVIOUS
  <2>1. CASE (StartShell \/ AddNext \/ StartLoop) /\ UNCHANGED probeVars
    BY <2>1 DEF StartShell, AddNext, StartLoop, probeVars, HookMeansProbe
  <2>2. CASE NoInput /\ UNCHANGED probe_pf
    BY <2>2 DEF NoInput, HookMeansProbe
  <2>3. ASSUME NEW c \in Chars, Passed, ProbeProc(Lower[c]) PROVE HookMeansProbe'
    BY <2>3, ProbeProcHook
  <2>4. ASSUME NEW c \in Chars, Input(Lower[c]), RunCmd PROVE HookMeansProbe'
    BY <2>4, RunCmdHook
  <2>5. CASE UNCHANGED <<vars, probeVars>>
    BY <2>5 DEF vars, probeVars, HookMeansProbe
  <2> QED BY <2>1, <2>2, <2>3, <2>4, <2>5 DEF ProbeNext
<1> QED BY <1>1, <1>2, ProbeShellTypes, PTL DEF ProbeSpec

-----------------------------------------------------------------------------
(* The position.                                                            *)

LEMMA WrapUp ==
  ASSUME NEW A \in Nat, NEW a \in 0 .. A - 1, NEW s \in 0 .. A
  PROVE  (a + s) % A = IF a + s < A THEN a + s ELSE a + s - A
<1>1. CASE a + s < A
  BY <1>1
<1>2. CASE a + s >= A
  <2>1. a + s = A * 1 + (a + s - A) /\ a + s - A \in 0 .. A - 1 /\ A > 0
    BY <1>2
  <2> QED BY <2>1, <1>2
<1> QED BY <1>1, <1>2

LEMMA WrapDown ==
  ASSUME NEW A \in Nat, NEW a \in 0 .. A - 1, NEW s \in 0 .. A
  PROVE  (a - s) % A = IF s <= a THEN a - s ELSE a - s + A
<1>1. CASE s <= a
  BY <1>1
<1>2. CASE s > a
  <2>1. a - s = A * (-1) + (a - s + A) /\ a - s + A \in 0 .. A - 1 /\ A > 0
    BY <1>2
  <2> QED BY <2>1, <1>2
<1> QED BY <1>1, <1>2

LEMMA SizesFit ==
  ASSUME NEW s \in Sizes
  PROVE  s \in 1 .. Addresses /\ Addresses % s = 0 /\ Addresses \in Nat
BY AddressAssumption DEF Sizes

LEMMA AlignedDown ==
  ASSUME NEW a \in 0 .. Addresses - 1, NEW s \in Sizes
  PROVE  Align(a, s) \in 0 .. Addresses - 1 /\ Align(a, s) % s = 0
BY AddressAssumption DEF Align, Sizes

(* One size up or down from an aligned address is an aligned address.       *)
LEMMA AlignedStep ==
  ASSUME NEW a \in 0 .. Addresses - 1, NEW s \in Sizes, a % s = 0
  PROVE  /\ (a + s) % Addresses \in 0 .. Addresses - 1
         /\ ((a + s) % Addresses) % s = 0
         /\ (a - s) % Addresses \in 0 .. Addresses - 1
         /\ ((a - s) % Addresses) % s = 0
<1>1. s \in 1 .. Addresses /\ Addresses % s = 0 /\ Addresses \in Nat
  BY SizesFit
<1>0. Addresses \in Nat /\ s \in 0 .. Addresses
  BY <1>1
<1>2. (a + s) % Addresses = IF a + s < Addresses THEN a + s ELSE a + s - Addresses
  BY <1>0, WrapUp
<1>3. (a - s) % Addresses = IF s <= a THEN a - s ELSE a - s + Addresses
  BY <1>0, WrapDown
<1>4. (a + s) % s = 0 /\ (a + s - Addresses) % s = 0
  BY <1>1 DEF Sizes
<1>5. (a - s) % s = 0 /\ (a - s + Addresses) % s = 0
  BY <1>1 DEF Sizes
<1> QED BY <1>1, <1>2, <1>3, <1>4, <1>5

PosInv ==
  /\ pos \in [Targets -> Nat] /\ probe_size \in Sizes
  /\ pos[Memory] \in 0 .. Addresses - 1 /\ Aligned
  /\ \A t \in Regs : pos[t] \in 0 .. Count[t] - 1

(* What keeps the position: no session, and the shell's own steps.          *)
LEMMA PosKept == ASSUME PosInv, UNCHANGED <<pos, probe_size>> PROVE PosInv'
BY DEF PosInv, Aligned

LEMMA MoveInv ==
  ASSUME PosInv, NEW b, Move(b), probe_pf \in Targets
  PROVE  PosInv'
<1> DEFINE t == probe_pf
           p == IF b = Inc THEN Up(t) ELSE Down(t)
<1>1. pos' = [pos EXCEPT ![t] = p] /\ probe_size' = probe_size
  BY DEF Move, Reprompt
<1>2. /\ pos \in [Targets -> Nat] /\ probe_size \in Sizes /\ Memory \in Targets
      /\ pos[Memory] \in 0 .. Addresses - 1 /\ pos[Memory] % probe_size = 0
      /\ \A u \in Regs : pos[u] \in 0 .. Count[u] - 1 /\ Count[u] \in Nat \ {0}
  BY TargetAssumption DEF PosInv, Aligned
<1>3. CASE t = Memory
  <2>1. p \in 0 .. Addresses - 1 /\ p % probe_size = 0
    BY <1>2, <1>3, AlignedStep DEF Up, Down
  <2>2. p \in Nat
    BY <2>1, AddressAssumption
  <2> HIDE DEF p
  <2>3. pos'[Memory] = p /\ pos' \in [Targets -> Nat] /\ \A u \in Regs : pos'[u] = pos[u]
    BY <1>1, <1>2, <1>3, <2>2 DEF Regs
  <2> QED BY <1>1, <1>2, <2>1, <2>3 DEF PosInv, Aligned
<1>4. CASE t # Memory
  <2>1. t \in Regs
    BY <1>4 DEF Regs
  <2>2. p \in 0 .. Count[t] - 1 /\ p \in Nat
    BY <1>2, <1>4, <2>1 DEF Up, Down
  <2> HIDE DEF p
  <2>3. /\ pos'[Memory] = pos[Memory] /\ pos' \in [Targets -> Nat] /\ pos'[t] = p
        /\ \A u \in Regs \ {t} : pos'[u] = pos[u]
    BY <1>1, <1>2, <1>4, <2>1, <2>2 DEF Regs
  <2> QED BY <1>1, <1>2, <2>2, <2>3 DEF PosInv, Aligned
<1> QED BY <1>3, <1>4

LEMMA RunCmdInv ==
  ASSUME PosInv, RunCmd
  PROVE  PosInv'
<1>1. CASE UNCHANGED <<pos, probe_size>>
  BY <1>1, PosKept
<1>2. ASSUME NEW a \in 0 .. Addresses - 1, NEW size \in Sizes,
             pos' = [pos EXCEPT ![Memory] = Align(a, size)], probe_size' = size
      PROVE  PosInv'
  <2> DEFINE p == Align(a, size)
  <2>1. p \in 0 .. Addresses - 1 /\ p % size = 0 /\ p \in Nat
    BY AlignedDown, AddressAssumption
  <2> HIDE DEF p
  <2>2. pos' = [pos EXCEPT ![Memory] = p]
    BY <1>2 DEF p
  <2>3. pos'[Memory] = p /\ pos' \in [Targets -> Nat] /\ \A u \in Regs : pos'[u] = pos[u]
    BY <2>1, <2>2, TargetAssumption DEF PosInv, Regs
  <2> QED BY <1>2, <2>1, <2>3 DEF PosInv, Aligned
<1> QED BY <1>1, <1>2 DEF RunCmd, StartMemory, StartRegs, Other

LEMMA ProbeProcPos ==
  ASSUME PosInv, NEW b, ProbeProc(b), probe_pf \in Targets
  PROVE  PosInv'
<1>1. CASE Move(b)
  BY <1>1, MoveInv
<1>2. CASE Return(b) \/ EndSession(b) \/ EraseDigit(b) \/ Digit(b) \/ Forget(b)
  BY <1>2, PosKept DEF Return, EndSession, EraseDigit, Digit, Forget, Reprompt
<1> QED BY <1>1, <1>2 DEF ProbeProc

-----------------------------------------------------------------------------
(* The value being typed.                                                   *)

LEMMA ShiftIn ==
  ASSUME NEW v \in Nat, NEW h \in 0 .. Base - 1
  PROVE  ((v * Base) % Top) + h \in 0 .. Top - 1
<1> DEFINE k == Top \div Base
           q == (v * Base) \div Top
           m == v - (q * k)
<1>1. /\ Base \in Nat /\ Base > 0 /\ Top \in Nat /\ Top > 0 /\ v \in Nat
      /\ k \in Int /\ Top = Base * k
  BY DigitAssumption
<1>2. v * Base \in Nat
  BY <1>1
<1>3. q \in Int /\ v * Base = Top * q + ((v * Base) % Top) /\ (v * Base) % Top \in 0 .. Top - 1
  BY <1>1, <1>2
<1>4. m \in Int /\ (v * Base) % Top = m * Base
  BY <1>1, <1>3
<1> HIDE DEF k, q, m
<1>5. m * Base < k * Base
  BY <1>1, <1>3, <1>4
<1>6. m + 1 <= k
  BY <1>1, <1>4, <1>5
<1>7. (m + 1) * Base <= k * Base
  BY <1>1, <1>4, <1>6
<1> QED BY <1>1, <1>3, <1>4, <1>7

LEMMA ShiftOut ==
  ASSUME NEW v \in 0 .. Top - 1
  PROVE  v \div Base \in 0 .. Top - 1
BY DigitAssumption

EntryInv ==
  /\ getting_value \in 0 .. MaxDigits
  /\ set_value \in 0 .. Top - 1
  /\ lost \in Bit

LEMMA EntryKept == ASSUME EntryInv, UNCHANGED typing PROVE EntryInv'
BY DEF EntryInv, typing

LEMMA ProbeProcEntry ==
  ASSUME EntryInv, NEW b, ProbeProc(b)
  PROVE  EntryInv'
<1>1. CASE UNCHANGED typing
  BY <1>1, EntryKept
<1>2. CASE NoEntry
  BY <1>2, DigitAssumption DEF NoEntry, EntryInv, Bit
<1>3. CASE EraseDigit(b)
  <2>1. CASE getting_value > 1
    <3>1. /\ getting_value' = getting_value - 1 /\ set_value' = set_value \div Base
          /\ lost' \in {1, lost}
      BY <1>3, <2>1 DEF EraseDigit, DropDigit
    <3> QED BY <2>1, <3>1, ShiftOut, DigitAssumption DEF EntryInv, Bit
  <2> QED BY <1>1, <1>2, <1>3, <2>1 DEF EraseDigit
<1>4. CASE Digit(b)
  <2>1. Hex[b] \in 0 .. Base - 1 /\ getting_value < MaxDigits
    BY <1>4, DigitAssumption DEF Digit
  <2>2. ((set_value * Base) % Top) + Hex[b] \in 0 .. Top - 1
    <3>1. set_value \in Nat
      BY DigitAssumption DEF EntryInv
    <3> QED BY <2>1, <3>1, ShiftIn
  <2>3. /\ getting_value' = getting_value + 1 /\ lost' = lost
        /\ set_value' = ((set_value * Base) % Top) + Hex[b]
    BY <1>4 DEF Digit
  <2>4. set_value' \in 0 .. Top - 1
    BY <2>2, <2>3
  <2> QED BY <2>1, <2>3, <2>4, DigitAssumption DEF EntryInv, Bit
<1> QED BY <1>1, <1>2, <1>3, <1>4 DEF ProbeProc, Move, Return, EndSession, Forget

-----------------------------------------------------------------------------
LEMMA ProbeInvAlways == ProbeSpec => [](PosInv /\ EntryInv /\ probe_pf \in Targets \cup {Null})
<1> DEFINE Pf == probe_pf \in Targets \cup {Null}
<1>1. ProbeInit => PosInv /\ EntryInv /\ Pf
  <2> SUFFICES ASSUME ProbeInit PROVE PosInv /\ EntryInv /\ Pf
    OBVIOUS
  <2>1. pos = [t \in Targets |-> 0] /\ probe_size = 1
    BY DEF ProbeInit
  <2>2. PosInv
    BY <2>1, TargetAssumption, AddressAssumption DEF PosInv, Aligned, Sizes, Regs
  <2>3. EntryInv /\ Pf
    BY DigitAssumption DEF ProbeInit, EntryInv, Bit
  <2> QED BY <2>2, <2>3
<1>2. PosInv /\ EntryInv /\ Pf /\ HookMeansProbe /\ [ProbeNext]_<<vars, probeVars>>
      => (PosInv /\ EntryInv /\ Pf)'
  <2> SUFFICES ASSUME PosInv, EntryInv, Pf, HookMeansProbe,
                      [ProbeNext]_<<vars, probeVars>>
               PROVE  (PosInv /\ EntryInv /\ Pf)'
    OBVIOUS
  <2>1. ASSUME UNCHANGED <<pos, probe_size>>, UNCHANGED typing, UNCHANGED probe_pf
        PROVE  (PosInv /\ EntryInv /\ Pf)'
    BY <2>1, PosKept, EntryKept
  <2>2. CASE UNCHANGED probeVars
    BY <2>1, <2>2 DEF probeVars
  <2>3. CASE NoInput /\ UNCHANGED <<probe_pf, typing, pos, probe_size, fresh>>
    BY <2>1, <2>3
  <2>4. ASSUME NEW c \in Chars, Passed, ProbeProc(Lower[c])
        PROVE  (PosInv /\ EntryInv /\ Pf)'
    <3>1. probe_pf \in Targets
      BY <2>4 DEF Passed, HookMeansProbe
    <3>2. Pf'
      BY <2>4 DEF ProbeProc, Move, Return, EndSession, Release, EraseDigit, Digit,
                  Forget, Reprompt
    <3> QED BY <2>4, <3>1, <3>2, ProbeProcPos, ProbeProcEntry
  <2>5. ASSUME NEW c \in Chars, Input(Lower[c]), RunCmd
        PROVE  (PosInv /\ EntryInv /\ Pf)'
    <3>1. UNCHANGED typing
      BY <2>5 DEF RunCmd
    <3>2. CASE last'.did = "ran" /\ last'.cmd \in DOMAIN Target
      <4>1. Target[last'.cmd] \in Targets
        BY <3>2 DEF Targets
      <4> QED BY <2>5, <3>1, <3>2, <4>1, RunCmdInv, EntryKept
              DEF RunCmd, StartMemory, StartRegs, Other, SetFuncs
    <3>3. CASE ~ (last'.did = "ran" /\ last'.cmd \in DOMAIN Target)
      BY <2>5, <3>1, <3>3, RunCmdInv, EntryKept DEF RunCmd
    <3> QED BY <3>2, <3>3
  <2> QED BY <2>2, <2>3, <2>4, <2>5 DEF ProbeNext
<1> QED BY <1>1, <1>2, ProbeHook, PTL DEF ProbeSpec

(* Types; no index leaves its peripheral, no address its 32 bits.           *)
THEOREM ProbeTypes == ProbeSpec => []ProbeTypeOK
<1>1. /\ PosInv /\ EntryInv /\ probe_pf \in Targets \cup {Null} /\ ShellTypeOK
      => ProbeTypeOK
  BY DEF PosInv, EntryInv, ProbeTypeOK, Regs
<1> QED BY <1>1, ProbeInvAlways, ProbeShellTypes, PTL

(* Memory is accessed at a multiple of the size of the access.              *)
THEOREM ProbeAligned == ProbeSpec => []Aligned
<1>1. PosInv => Aligned
  BY DEF PosInv
<1> QED BY <1>1, ProbeInvAlways, PTL

-----------------------------------------------------------------------------
(* The value typed.                                                         *)

(* What one digit makes of a value, whatever is lost at the top.            *)
DigitStep == [p \in Nat \X Digits |-> p[1] * Base + Hex[p[2]]]

(* It is a number.                                                          *)
LEMMA DigitStepType == DigitStep \in [Nat \X Digits -> Nat]
<1>1. ASSUME NEW v \in Nat, NEW d \in Digits PROVE v * Base + Hex[d] \in Nat
  <2>1. Base \in Nat /\ Hex[d] \in Nat
    BY DigitAssumption
  <2> QED BY <2>1
<1> QED BY <1>1 DEF DigitStep

(* ValueOf adds digit after digit.                                          *)
LEMMA ValueFold ==
  ASSUME NEW ds \in Seq(Digits)
  PROVE  \E h \in [0 .. Len(ds) -> Nat] : Rounds(h, ds, 0, DigitStep) /\ ValueOf(ds) = h[Len(ds)]
<1> DEFINE D == 1 .. Len(ds)
           Eq(g) == g = [s \in SUBSET D |-> IF s = {} THEN 0
                                            ELSE g[s \ {Max(s)}] * Base + Hex[ds[Max(s)]]]
           f == CHOOSE g : Eq(g)
<1>1. Len(ds) \in Nat /\ DOMAIN ds = D /\ (\A i \in D : ds[i] \in Digits)
  OBVIOUS
<1>2. ValueOf(ds) = f[D]
  BY <1>1 DEF ValueOf, FoldLeft, MapThenFoldSet
<1>3. \A s \in SUBSET D : s # {} => ds[Max(s)] \in Digits
  BY <1>1, MaxOf
<1>4. PICK g \in [SUBSET D -> Nat] : FoldFcn(g, Len(ds), ds, 0, DigitStep)
  BY DigitStepType, FoldExists
<1>5. Eq(g)
  <2>1. ASSUME NEW s \in SUBSET D, s # {}
        PROVE  DigitStep[<<g[s \ {Max(s)}], ds[Max(s)]>>] = g[s \ {Max(s)}] * Base + Hex[ds[Max(s)]]
    BY <1>3, <2>1 DEF DigitStep
  <2> QED BY <1>4, <2>1 DEF FoldFcn
<1>6. Eq(f)
  <2> HIDE DEF Eq
  <2> QED BY <1>5
<1>7. Folds(f, ds, Digits, Nat, 0, DigitStep)
  <2> HIDE DEF f
  <2>1. ASSUME NEW s \in SUBSET D, s # {}, f[s \ {Max(s)}] \in Nat
        PROVE  f[s] = DigitStep[<<f[s \ {Max(s)}], ds[Max(s)]>>]
    <3>1. f[s] = f[s \ {Max(s)}] * Base + Hex[ds[Max(s)]]
      BY <1>6, <2>1
    <3> QED BY <1>3, <2>1, <3>1 DEF DigitStep
  <2>2. f[{}] = 0
    BY <1>6
  <2> QED BY <2>1, <2>2, DigitStepType DEF Folds
<1>8. PICK h \in [0 .. Len(ds) -> Nat] : Rounds(h, ds, 0, DigitStep) /\ h[Len(ds)] = f[D]
  <2> HIDE DEF f
  <2> QED BY <1>7, FoldRounds
<1> HIDE DEF f
<1> QED BY <1>2, <1>8

(* One more digit.                                                          *)
LEMMA ValueAppend ==
  ASSUME NEW ds \in Seq(Digits), NEW d \in Digits
  PROVE  /\ ValueOf(ds) \in Nat
         /\ ValueOf(Append(ds, d)) = ValueOf(ds) * Base + Hex[d]
<1>0. Append(ds, d) \in Seq(Digits) /\ Len(Append(ds, d)) = Len(ds) + 1 /\ Len(ds) \in Nat
  OBVIOUS
<1>1. PICK g : /\ g \in [0 .. Len(ds) -> Nat] /\ Rounds(g, ds, 0, DigitStep)
               /\ ValueOf(ds) = g[Len(ds)]
  BY ValueFold
<1>2. PICK h : /\ Rounds(h, Append(ds, d), 0, DigitStep)
               /\ ValueOf(Append(ds, d)) = h[Len(Append(ds, d))]
  BY <1>0, ValueFold
<1>3. h[Len(ds) + 1] = DigitStep[<<g[Len(ds)], d>>]
  <2>1. Rounds(g, ds, 0, DigitStep) /\ Rounds(h, Append(ds, d), 0, DigitStep)
    BY <1>1, <1>2
  <2> QED BY ONLY <2>1, ds \in Seq(Digits), d \in Digits, RoundsAppend
<1>4. g[Len(ds)] \in Nat
  BY <1>0, <1>1
<1> QED BY <1>0, <1>1, <1>2, <1>3, <1>4 DEF DigitStep

(* No digits.                                                               *)
LEMMA ValueEmpty == ValueOf(<<>>) = 0
<1>1. PICK h \in [0 .. Len(<<>>) -> Nat] :
              Rounds(h, <<>>, 0, DigitStep) /\ ValueOf(<<>>) = h[Len(<<>>)]
  <2>1. <<>> \in Seq(Digits)
    OBVIOUS
  <2> QED BY <2>1, ValueFold
<1>2. Len(<<>>) = 0
  OBVIOUS
<1> QED BY <1>1, <1>2 DEF Rounds

(* Erasing the last digit divides by the base.                              *)
LEMMA ValueFront ==
  ASSUME NEW ds \in Seq(Digits), ds # <<>>
  PROVE  /\ Front(ds) \in Seq(Digits) /\ Len(Front(ds)) = Len(ds) - 1
         /\ ValueOf(ds) \div Base = ValueOf(Front(ds))
<1> DEFINE n == Len(ds)
           s == SubSeq(ds, 1, n - 1)
<1>1. n \in Nat /\ n > 0 /\ ds[n] \in Digits /\ Front(ds) = s
  BY DEF Front
<1>2. s \in Seq(Digits) /\ Len(s) = n - 1
  <2> DEFINE m == n - 1
  <2>1. m \in Nat /\ m <= Len(ds) /\ \A i \in 1 .. m : ds[i] \in Digits
    BY <1>1
  <2> HIDE DEF m
  <2>2. SubSeq(ds, 1, m) \in Seq(Digits)
    BY <2>1
  <2>3. Len(SubSeq(ds, 1, m)) = m
    BY <2>1
  <2> QED BY <2>2, <2>3 DEF m
<1>3. ds = Append(s, ds[n])
  <2>1. \A i \in 1 .. n - 1 : s[i] = ds[i]
    BY <1>1
  <2>2. /\ Append(s, ds[n]) \in Seq(Digits) /\ Len(Append(s, ds[n])) = n
        /\ \A i \in 1 .. n : Append(s, ds[n])[i] = ds[i]
    <3> HIDE DEF s, n
    <3> QED BY <1>1, <1>2, <2>1
  <2> DEFINE a == Append(s, ds[n])
  <2> HIDE DEF a
  <2>3. a \in Seq(Digits) /\ Len(a) = Len(ds) /\ \A i \in 1 .. Len(ds) : a[i] = ds[i]
    BY <2>2 DEF a
  <2>4. a = ds
    BY <2>3
  <2> QED BY <2>4 DEF a
<1>4. ValueOf(s) \in Nat /\ ValueOf(ds) = ValueOf(s) * Base + Hex[ds[n]]
  <2> HIDE DEF s, n
  <2> QED BY <1>1, <1>2, <1>3, ValueAppend
<1>5. (ValueOf(s) * Base + Hex[ds[n]]) \div Base = ValueOf(s)
  <2> DEFINE v == ValueOf(s)
             x == Hex[ds[n]]
  <2>1. v \in Nat /\ x \in 0 .. Base - 1 /\ Base \in Nat /\ Base > 0
    BY <1>1, <1>4, DigitAssumption
  <2> HIDE DEF v, x
  <2>2. (v * Base + x) \div Base = v
    BY <2>1
  <2> QED BY <2>2 DEF v, x
<1> HIDE DEF s, n
<1> QED BY <1>1, <1>2, <1>4, <1>5 DEF n

-----------------------------------------------------------------------------
(* Arithmetic of the words and of the places they are cut to.                *)

(* What is left of a number is found by any way of dividing it.             *)
LEMMA Remainder ==
  ASSUME NEW n \in Int, NEW m \in Nat, m > 0, NEW q \in Int, NEW s \in Nat, s < m, n = q * m + s
  PROVE  n % m = s
<1> DEFINE a == n \div m
           b == n % m
<1>1. a \in Int /\ b \in Int /\ 0 <= b /\ b < m /\ n = a * m + b
  OBVIOUS
<1> HIDE DEF a, b
<1>2. q * m + s = a * m + b
  BY <1>1
<1>3. a = q
  <2>1. ASSUME a > q PROVE FALSE
    <3>1. (a - q) * m = s - b /\ (a - q) * m >= m
      BY <1>1, <1>2, <2>1
    <3> QED BY <1>1, <3>1
  <2>2. ASSUME a < q PROVE FALSE
    <3>1. (q - a) * m = b - s /\ (q - a) * m >= m
      BY <1>1, <1>2, <2>2
    <3> QED BY <1>1, <3>1
  <2> QED BY <1>1, <2>1, <2>2
<1>4. b = s
  BY <1>1, <1>2, <1>3
<1> QED BY <1>4 DEF b

(* A multiple of the word more changes nothing below it.                    *)
LEMMA Cut ==
  ASSUME NEW w \in Nat, w > 0, NEW k \in Int, NEW v \in Nat
  PROVE  (v + k * w) % w = v % w
<1> DEFINE q == v \div w
           s == v % w
<1>1. q \in Int /\ s \in Nat /\ s < w /\ v = q * w + s
  OBVIOUS
<1> HIDE DEF q, s
<1> DEFINE n == v + k * w
           c == q + k
<1>2. n \in Int /\ c \in Int /\ n = c * w + s
  BY <1>1
<1> HIDE DEF n, c
<1>3. n % w = s
  BY <1>1, <1>2, Remainder
<1> QED BY <1>3 DEF n, s

(* Cutting to a word, and then to a place that divides it.                  *)
LEMMA CutTwice ==
  ASSUME NEW v \in Nat, NEW w \in Nat, w > 0, Top % w = 0
  PROVE  (v % Top) % w = v % w
<1>1. Top \in Nat /\ Top > 0
  BY DigitAssumption
<1> DEFINE q == v \div Top
           r == v % Top
           c == Top \div w
<1>2. q \in Int /\ r \in Nat /\ v = q * Top + r
  BY <1>1
<1>3. c \in Int /\ Top = c * w
  BY <1>1
<1> HIDE DEF q, r, c
<1>4. v = r + (q * c) * w /\ q * c \in Int
  BY <1>2, <1>3
<1>5. (r + (q * c) * w) % w = r % w
  BY <1>2, <1>4, Cut
<1>6. v % w = r % w
  BY <1>4, <1>5
<1> QED BY <1>6 DEF r

(* One more digit, of a number and of what is left of it.                   *)
LEMMA ShiftCut ==
  ASSUME NEW v \in Nat, NEW h \in 0 .. Base - 1
  PROVE  (((v % Top) * Base) % Top) + h = (v * Base + h) % Top
<1>1. Top \in Nat /\ Top > 0 /\ Base \in Nat /\ h \in Nat
  BY DigitAssumption
<1> DEFINE r == v % Top
           q == v \div Top
           t == (r * Base) % Top
           p == (r * Base) \div Top
<1>2. r \in Nat /\ q \in Int /\ v = q * Top + r
  BY <1>1
<1>3. t + h \in 0 .. Top - 1
  BY <1>2, ShiftIn
<1> HIDE DEF r, q
<1>4. t \in Nat /\ p \in Int /\ r * Base = p * Top + t
  <2> DEFINE x == r * Base
  <2>1. x \in Nat
    BY <1>1, <1>2
  <2> HIDE DEF x
  <2>2. x % Top \in Nat /\ x \div Top \in Int /\ x = (x \div Top) * Top + (x % Top)
    BY <1>1, <2>1
  <2> QED BY <2>2 DEF x
<1> HIDE DEF t, p
<1>5. v * Base = (q * Base + p) * Top + t
  <2>1. v * Base = (q * Top) * Base + r * Base
    BY <1>1, <1>2
  <2> QED BY <1>1, <1>2, <1>4, <2>1
<1> DEFINE c == q * Base + p
           s == t + h
<1>6. c \in Int /\ s \in Nat /\ s < Top
  BY <1>1, <1>2, <1>3, <1>4
<1>7. v * Base + h = c * Top + s
  <2>1. v * Base = c * Top + t
    BY <1>5
  <2>2. v * Base \in Nat /\ c * Top \in Int
    BY <1>1, <1>6
  <2> HIDE DEF c
  <2> QED BY <1>1, <1>4, <2>1, <2>2
<1> DEFINE n == v * Base + h
<1>8. n \in Int /\ n = c * Top + s
  BY <1>1, <1>7
<1> HIDE DEF c, s, n
<1>9. n % Top = s
  BY <1>1, <1>6, <1>8, Remainder
<1> QED BY <1>9 DEF n, s, t, r

-----------------------------------------------------------------------------
(* set_value is what 32 bits hold of the number on the screen; what was written
   is what the place holds of it.                                             *)
ValueInv ==
  /\ entry \in Seq(Digits) /\ getting_value = Len(entry)
  /\ lost = 0 => set_value = ValueOf(entry) % Top
  /\ WrittenAsShown

LEMMA NotWritten ==
  ASSUME wrote' = NoWrite
  PROVE  WrittenAsShown'
BY DEF WrittenAsShown, NoWrite

(* No entry: nothing has been shifted in.                                   *)
LEMMA NoEntryValue == ASSUME NoEntry, WrittenAsShown' PROVE ValueInv'
<1>1. 0 % Top = 0
  BY DigitAssumption
<1>2. ValueOf(entry)' = 0
  BY ValueEmpty DEF NoEntry
<1> QED BY <1>1, <1>2 DEF NoEntry, ValueInv

(* What return writes.                                                      *)
LEMMA ReturnWrites ==
  ASSUME PosInv, ValueInv, NEW b, Return(b), getting_value # 0
  PROVE  ValueInv'
<1> DEFINE w == Room(probe_pf, probe_size)
           v == ValueOf(entry)
<1>1. /\ NoEntry
      /\ wrote' = [target |-> probe_pf, size |-> probe_size, value |-> set_value % w,
                   typed |-> entry, lost |-> lost, own |-> fresh]
  BY DEF Return, Stored
<1>2. v \in Nat
  <2>1. entry # <<>> /\ entry \in Seq(Digits)
    BY DEF ValueInv
  <2>2. PICK h : h \in [0 .. Len(entry) -> Nat] /\ ValueOf(entry) = h[Len(entry)]
    BY <2>1, ValueFold
  <2>3. Len(entry) \in 0 .. Len(entry)
    BY <2>1
  <2> QED BY <2>2, <2>3
<1>3. w \in Nat /\ w > 0 /\ Top % w = 0
  <2>1. Top \in Nat /\ Top > 0 /\ Top % Top = 0
    BY DigitAssumption
  <2>2. probe_size \in Sizes
    BY DEF PosInv
  <2> QED BY <2>1, <2>2, WidthAssumption DEF Room
<1> HIDE DEF w, v
<1>4. lost = 0 => set_value % w = v % w
  <2>1. (v % Top) % w = v % w
    BY <1>2, <1>3, CutTwice
  <2> QED BY <2>1 DEF ValueInv, v
<1>5. WrittenAsShown'
  <2>1. /\ wrote'.lost = lost /\ wrote'.typed = entry /\ wrote'.value = set_value % w
        /\ wrote'.target = probe_pf /\ wrote'.size = probe_size
    BY <1>1
  <2>2. Room(wrote.target, wrote.size)' = w
    BY <2>1 DEF Room, w
  <2>3. ValueOf(wrote.typed)' = v
    BY <2>1 DEF v
  <2> QED BY <1>4, <2>1, <2>2, <2>3 DEF WrittenAsShown
<1> QED BY <1>1, <1>5, NoEntryValue

LEMMA SameEntryValue == ASSUME ValueInv, UNCHANGED typing, WrittenAsShown' PROVE ValueInv'
BY DEF typing, ValueInv

(* probe_proc keeps the value and the digits together.                      *)
LEMMA ProbeProcValue ==
  ASSUME PosInv, EntryInv, ValueInv, NEW b, ProbeProc(b)
  PROVE  ValueInv'
<1>1. CASE Return(b) /\ getting_value # 0
  BY <1>1, ReturnWrites
<1>2. ASSUME ~ (Return(b) /\ getting_value # 0) PROVE WrittenAsShown'
  BY <1>2, NotWritten DEF ProbeProc, Move, Return, EndSession, EraseDigit, Digit, Forget
<1>3. CASE EraseDigit(b) /\ getting_value > 1
  <2>1. /\ getting_value' = getting_value - 1 /\ set_value' = set_value \div Base
        /\ lost' = IF ValueOf(entry) >= Top THEN 1 ELSE lost
        /\ entry' = Front(entry) /\ wrote' = NoWrite
    BY <1>3 DEF EraseDigit, DropDigit
  <2>2. entry \in Seq(Digits) /\ entry # <<>> /\ getting_value = Len(entry)
    BY <1>3 DEF ValueInv
  <2>3. /\ Front(entry) \in Seq(Digits) /\ Len(Front(entry)) = Len(entry) - 1
        /\ ValueOf(entry) \div Base = ValueOf(Front(entry))
    BY <2>2, ValueFront
  <2>4. lost = 0 => set_value = ValueOf(entry) % Top
    BY DEF ValueInv
  <2>5. ValueOf(entry)' = ValueOf(Front(entry))
    BY <2>1
  <2>6. ASSUME lost' = 0 PROVE set_value' = ValueOf(Front(entry)) % Top
    <3> DEFINE v == ValueOf(entry)
               u == ValueOf(Front(entry))
    <3>1. lost = 0 /\ ~ (v >= Top)
      BY <2>1, <2>6
    <3>2. v \in Nat /\ u \in Nat
      <4>1. ASSUME NEW ds \in Seq(Digits) PROVE ValueOf(ds) \in Nat
        <5>1. PICK h : h \in [0 .. Len(ds) -> Nat] /\ ValueOf(ds) = h[Len(ds)]
          BY ValueFold
        <5>2. Len(ds) \in 0 .. Len(ds)
          OBVIOUS
        <5> QED BY <5>1, <5>2
      <4> QED BY <2>2, <2>3, <4>1
    <3>3. set_value = v % Top /\ u = v \div Base /\ set_value' = set_value \div Base
      BY <2>1, <2>3, <2>4, <3>1
    <3> HIDE DEF u, v
    <3>4. Top \in Nat /\ Top > 0 /\ Base \in Nat /\ Base > 1
      BY DigitAssumption
    <3>5. v % Top = v /\ v < Top
      BY <3>1, <3>2, <3>4
    <3>6. u <= v
      BY <3>2, <3>3, <3>4
    <3>7. u % Top = u
      BY <3>2, <3>4, <3>5, <3>6
    <3> QED BY <3>3, <3>5, <3>7 DEF u
  <2> QED BY <1>2, <1>3, <2>1, <2>2, <2>3, <2>5, <2>6, NotWritten DEF ValueInv
<1>4. CASE Digit(b)
  <2>1. /\ getting_value' = getting_value + 1 /\ entry' = Append(entry, b) /\ b \in Digits
        /\ set_value' = ((set_value * Base) % Top) + Hex[b]
        /\ lost' = lost /\ wrote' = NoWrite
    BY <1>4 DEF Digit
  <2>2. /\ entry \in Seq(Digits) /\ getting_value = Len(entry)
        /\ lost = 0 => set_value = ValueOf(entry) % Top
    BY DEF ValueInv
  <2>3. /\ Append(entry, b) \in Seq(Digits) /\ Len(Append(entry, b)) = Len(entry) + 1
    BY <2>1, <2>2
  <2>4. /\ ValueOf(entry) \in Nat
        /\ ValueOf(entry)' = ValueOf(entry) * Base + Hex[b]
    <3>1. ValueOf(entry)' = ValueOf(Append(entry, b))
      BY <2>1
    <3> QED BY <2>1, <2>2, <3>1, ValueAppend
  <2>5. ASSUME lost = 0 PROVE set_value' = (ValueOf(entry) * Base + Hex[b]) % Top
    <3>1. Hex[b] \in 0 .. Base - 1
      BY <2>1, DigitAssumption
    <3> QED BY <2>1, <2>2, <2>4, <2>5, <3>1, ShiftCut
  <2> QED BY <2>1, <2>2, <2>3, <2>4, <2>5, NotWritten DEF ValueInv
<1>5. CASE UNCHANGED typing /\ WrittenAsShown'
  BY <1>5, SameEntryValue
<1>6. CASE NoEntry /\ WrittenAsShown'
  BY <1>6, NoEntryValue
<1> QED BY <1>1, <1>2, <1>3, <1>4, <1>5, <1>6
        DEF ProbeProc, Move, Return, EndSession, Forget, EraseDigit

(* WrittenAsShown: what return writes is what the place holds of the number on
   the screen, for any keys, sizes and targets, unless a digit was erased after
   others had been shifted out (probe.c:35-106, mem_db.c:346-361).            *)
THEOREM ProbeWrites == ProbeSpec => []WrittenAsShown
<1>1. ProbeInit => ValueInv
  <2> SUFFICES ASSUME ProbeInit PROVE ValueInv
    OBVIOUS
  <2>1. 0 % Top = 0
    BY DigitAssumption
  <2>2. entry = <<>> /\ ValueOf(entry) = 0 /\ Len(entry) = 0 /\ entry \in Seq(Digits)
    BY ValueEmpty DEF ProbeInit
  <2>3. getting_value = 0 /\ set_value = 0 /\ wrote = NoWrite
    BY DEF ProbeInit
  <2> QED BY <2>1, <2>2, <2>3 DEF ValueInv, WrittenAsShown, NoWrite
<1>2. PosInv /\ EntryInv /\ ValueInv /\ [ProbeNext]_<<vars, probeVars>> => ValueInv'
  <2> SUFFICES ASSUME PosInv, EntryInv, ValueInv, [ProbeNext]_<<vars, probeVars>>
               PROVE  ValueInv'
    OBVIOUS
  <2>1. ASSUME UNCHANGED typing, wrote' = NoWrite PROVE ValueInv'
    BY <2>1, NotWritten, SameEntryValue
  <2>2. ASSUME NEW c \in Chars, Passed, ProbeProc(Lower[c]) PROVE ValueInv'
    BY <2>2, ProbeProcValue
  <2>3. CASE UNCHANGED probeVars
    <3>1. UNCHANGED typing /\ UNCHANGED wrote
      BY <2>3 DEF probeVars
    <3>2. WrittenAsShown'
      BY <3>1 DEF ValueInv, WrittenAsShown, Room
    <3> QED BY <3>1, <3>2, SameEntryValue
  <2>4. CASE NoInput /\ wrote' = NoWrite /\ UNCHANGED <<probe_pf, typing, pos, probe_size, fresh>>
    BY <2>1, <2>4
  <2>5. CASE \E c \in Chars : Input(Lower[c]) /\ RunCmd
    BY <2>1, <2>5 DEF RunCmd
  <2> QED BY <2>2, <2>3, <2>4, <2>5 DEF ProbeNext
<1>3. ValueInv => WrittenAsShown
  BY DEF ValueInv
<1> QED BY <1>1, <1>2, <1>3, ProbeInvAlways, PTL DEF ProbeSpec
=============================================================================
