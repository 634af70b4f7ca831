------------------------------- MODULE RegCmd -------------------------------
(* The commands i2c_reg and spi_reg: two copies of one program that differ in *)
(* the registers of the peripheral.  Registers are known by their names; what *)
(* they hold is the hardware's.  The probe sub-command's session is Probe.    *)
EXTENDS Args

i2c_reg_name == <<"cr1", "cr2", "oar1", "oar2", "timingr", "timeoutr",
                  "isr", "icr", "pecr", "rxdr", "txdr">>
spi_reg_name == <<"cr1", "cr2", "sr", "dr", "crcpr",
                  "rxcrcr", "txcrcr", "iscfgr", "irspr">>

(* The registers a word names: the first, should there be more.               *)
Names(table, w) == {i \in DOMAIN table : table[i] = w}

Unknown == [op |-> "unknown"]

PrintAll(table) == [op |-> "read", regs |-> DOMAIN table]

RegRead(table) ==
  /\ sargc' = 3 /\ Letter(1) = "r"
  /\ did' = IF Letter(2) = "a" THEN PrintAll(table)
            ELSE IF Names(table, sargv'[2]) # {}
            THEN [op |-> "read", regs |-> Names(table, sargv'[2])] ELSE Unknown

RegWrite(table) ==
  /\ sargc' = 4 /\ Letter(1) = "w" /\ Names(table, sargv'[2]) # {}
  /\ did' = [op |-> "write", regs |-> Names(table, sargv'[2]), value |-> Num(3)]

RegProbe == sargc' = 2 /\ Letter(1) = "p" /\ did' = [op |-> "probe"]

(* "unknown subcommand": also for a register that is not known to write.      *)
RegRefuse(table) ==
  /\ ~ \/ sargc' = 2 /\ Letter(1) = "p"
       \/ sargc' = 3 /\ Letter(1) = "r"
       \/ sargc' = 4 /\ Letter(1) = "w" /\ Names(table, sargv'[2]) # {}
  /\ did' = Unknown

RegAccess(c, table) ==
  /\ Call(c, 2, 4)
  /\ RegRead(table) \/ RegWrite(table) \/ RegProbe \/ RegRefuse(table)
  /\ mode' = "prompt"

I2cReg == RegAccess("i2c_reg", i2c_reg_name)
SpiReg == RegAccess("spi_reg", spi_reg_name)

(* A register of a peripheral is read or written only if its name was typed,
   or "all" of them were asked for, and with the number typed: a name that is
   not quite a register's changes nothing (spi_reg.c:164, 192).              *)
RegTable == IF cmd = "i2c_reg" THEN i2c_reg_name ELSE spi_reg_name
NamedOnly ==
  cmd \in {"i2c_reg", "spi_reg"} /\ did.op \in {"read", "write"} =>
    /\ \/ \E i \in DOMAIN RegTable : did.regs = {i} /\ RegTable[i] = Typed[2]
       \/ did.op = "read" /\ did.regs = DOMAIN RegTable /\ Spell[Typed[2]][1] = "a"
    /\ did.op = "write" => Spell[Typed[1]][1] = "w" /\ did.value = micro_strtol(Spell[Typed[3]])
=============================================================================
