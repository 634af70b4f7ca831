------------------------------ MODULE Commands ------------------------------
(* The commands that take arguments, behind one shell: a line runs one of    *)
(* them; a session of the LSM303 driver or a display has the input to itself  *)
(* until it ends.                                                             *)
EXTENDS RegCmd, MemDb, Lsm303

CONSTANT Shown   \* bound: the numbers that are printed

(* Words of the machine, and no longer than Format's digits reach.            *)
ASSUME ShownAssumption ==
  \A v \in Shown : v \in Int /\ -Top < v /\ v < Top /\ -(10 ^ 9) < v /\ v < 10 ^ 9

vars == <<argVars, did, mode, lsmVars>>

Init ==
  /\ cmd = "none" /\ sargc = 0 /\ sargv = <<>>
  /\ did = Nothing /\ mode = "shell"
  /\ lsm303_probe_dev_num = 0 /\ lsm303_probe_index = 1
  /\ getting_value = 0 /\ set_value = 0 /\ entry = <<>> /\ lost = 0
  /\ dev = 0 /\ left = 0 /\ ret_val = NoBytes /\ got = <<>>

(* The examples of format.c.                                                  *)
Show(v) ==
  /\ mode = "shell" /\ mode' = "prompt" /\ Over("none")
  /\ did' = [op |-> "number", x |-> format_x(v % Top, 8), d |-> format_d(v), of |-> v]

(* Bound: everything but sessions is tried before the first session.  Nothing
   else reads or writes what a session leaves in the statics.                 *)
Fresh == lsm303_probe_dev_num = 0

Others == (\E v \in Shown : Show(v)) \/ Loop \/ Dump \/ Map \/ I2cReg \/ SpiReg

Next ==
  \/ Fresh /\ Others /\ UNCHANGED lsmVars
  \/ Fresh /\ LsmAccess
  \/ LsmSession
  \/ Display \/ DisplayEnd
  \/ \E c \in Keys : Session(c)
  \/ Reprompt /\ UNCHANGED lsmVars

Spec == Init /\ [][Next]_vars /\ WF_vars(Display \/ DisplayEnd)

(* The commands that name registers access what their line means: i2c_reg and
   spi_reg nothing else; lsm303 besides, and only there, the stray register and
   0xff that LsmNamed lists.                                                  *)
AccessAsTyped == NamedOnly /\ LsmNamed

(* A number that a command has printed in hexadecimal is read back as the same
   number when it is typed after 0x; one in decimal, when it is typed as it is
   printed, unless it is a power of ten, or less its sign if it has one.       *)
ReadBack ==
  did.op = "number" =>
    /\ did.of >= 0 => micro_strtol(<<"0", "x">> \o did.x) = did.of
    /\ LET abs == IF did.of < 0 THEN -did.of ELSE did.of
       IN  abs \notin PowersOfTen => micro_strtol(did.d) = abs
=============================================================================
