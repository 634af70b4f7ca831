# A verification project for stm32f3_discovery

The repository is a set of small packages for the STM32F3 Discovery board, meant to be
dropped into projects that STM32CubeMX generates: an interrupt-driven serial console, a
command shell over it, a trace buffer, commands that look at memory and at the registers of
I2C and SPI devices, a driver for the LSM303 sensor, and a host tool that signs program
images. This directory holds TLA+ models of those packages, the TLC runs that check them and
the TLAPS proofs about them. `PROJECT.json` says which source lines each definition stands
for, which properties each run checks, which broken variant of the code each property
rejects, and which theorems are proved.

## The system

### Components, their state, and how they meet

| Component (under `code/`) | State | Operations | Meets |
|---|---|---|---|
| byte fifo (`byte_fifo.c`) | head, tail, buffer of N slots | `bf_space_avail`, `bf_data_avail`, `bf_write`, `bf_read` | called by the program and by the interrupt handler on the two console fifos |
| serial console (`micro_stdio.c`, `stm32f3xx_it.c`) | two fifos of 200 bytes, the USART registers | `micro_putc`, `_write`, `micro_puts`, `micro_getc`, the USART1 handler (two copies) | the handler preempts the program at any instruction; shell and drivers print and read through it |
| shell (`shell.c`, `list.h`) | list of commands, line buffer, the `pass_to` and bypass hooks, quit counter | `shell_init`, `shell_add_cmd`, `shell_set_pass_to`, `shell_clear_pass_to`, `shell_process_input`, `shell_func`, `shell_exit` | reads `micro_getc`, dispatches to every command below; a command may take over the input with `pass_to` |
| probe (`probe.c`) | the functions of the session, a value being typed | `probe_set_funcs`, `probe_proc` | is the `pass_to` hook while a probe session runs |
| memory commands (`mem_db.c`) | address and size of the session | `loop`, `dump`, `probe`, `map` commands | shell, probe |
| register commands (`i2c_reg.c`, `spi_reg.c`) | register index | read, write and probe sub-commands | shell, probe, the peripheral |
| LSM303 driver (`lsm303_driver.c`) | register tables, state of its own probe session | read and write registers, read the sensors, the access command | shell (its own `pass_to` function), I2C |
| trace buffer (`dbt.c`) | ring of 64 records, index, mask | `dbt_write` and the mask functions, the print command | written from handlers and program, printed by a shell command |
| formatting and parsing (`format.c`, `micro_util.c`) | none | `format_d`, `format_x`, `strtol` and friends | everything that prints or parses |
| image signer (`tools/package_signer.c`) | the file being signed | the host program | the boot loader, which is described in `tools/README.md` and not in the repository |

Interaction: one processor, so a handler runs to completion between two instructions of the
program; the USART and the line run on their own. Everything above the console is sequential
code that one loop (`shell_func`) drives; what it shares with handlers is the two fifos and
the trace buffer.

### What is hard here

* the program and the handler on the two fifos, access by access, in either order the
  compiler gives the two stores of `buf[head++] = val`;
* who turns the transmit interrupt on and off;
* errors on the line, overruns, a full receive buffer;
* the trace buffer, whose index is read, used and updated by program and handlers alike;
* the shell's states that outlive a line: `pass_to`, the quit counter, stale arguments, the
  probe's half-typed value, a second `shell_init`;
* boundaries: the wrap of the fifo, the 128-byte line, the trace ring, `format_d` at 10 and
  at 2^31, the block arithmetic of the signer.

The list with lines and properties is in `PROJECT.json`, "hazards".

### What makes each component correct

* byte fifo and console: bytes come out as they went in, once, in order; nothing accepted is
  overwritten; a byte is dropped only when there is no room; what is queued is sent; the
  program is never starved and `micro_putc` returns.
* shell: the command list stays a list and holds each word once; a line goes to the command
  it names, with the arguments typed, or the characters go to the session; the line buffer
  stays in bounds; the third 'q' in a row leaves.
* probe: the hook is set exactly while a session runs; a written value is the one on the screen, as far as the
  place holds it, and typed in this session (the run `probe_stale` shows where it is not); addresses stay aligned.
* trace buffer: no write leaves it, the stop record marks the insertion point, records written
  undisturbed stay whole and in order, the print command shows the latest in order.
* register commands and LSM303 driver: only registers that were named are touched (but for the accesses `LsmNamed` lists); a sample is
  whole or marked as failed; a value typed is the value written.
* memory commands: only the addresses asked for are touched, as the words of this line say.
* formatting: the text denotes the number.
* signer: the output is whole blocks, image, filling and signature in place, with the checksum of what
  stands in front of the signature.

## Modules

| Module | What it is |
|---|---|
| `ByteFifo` | the index arithmetic of `byte_fifo.c` |
| `BytePipe` | abstract: an ordered pipe of bounded capacity |
| `UsartConsole` | the console: program, handler, USART and line |
| `MC_UsartConsole` | small instances of it for TLC |
| `UsartConsole_proofs` | the ring arithmetic, types; the receive side: order, drops, refinement of `BytePipe`; the transmit side: order, restart of the transmitter |
| `Registry` | abstract: commands are registered if new, and forgotten all at once |
| `CmdList` | the linked list of commands, `shell_init` and `shell_add_cmd` on it |
| `CmdLine` | the splitting of a line into arguments, and a reference definition of it |
| `Shell` | the shell and its main loop: extends `CmdList` and `CmdLine` |
| `Probe` | the probe sessions: extends `Shell`, every step of which it details |
| `MC_CmdList`, `MC_Shell`, `MC_Probe` | small instances of these for TLC |
| `DbtTrace`, `MC_DbtTrace` | the trace buffer under preemption, its print command, and small instances of it |
| `FoldLemmas` | what a fold computes on every sequence, and induction on numbers stated of a set: used by the proofs below |
| `CmdList_proofs` | the list is well linked, unambiguous, and refines `Registry` |
| `Shell_proofs` | the splitting of a line, types, the line shown, what is run and that no line is lost, sessions, quitting, start-up |
| `Probe_proofs` | the hook, types, alignment, the value written, and `Probe` as a `Shell` |
| `DbtTrace_proofs` | the bounds of `dbt_write`, the stop record, the records kept and printed |
| `Format` | numbers as text and back: `format.c`, `micro_strtol` |
| `Args` | the argument array a command gets, stale entries included: extends `Format` |
| `RegCmd`, `MemDb`, `Lsm303` | the commands `i2c_reg` and `spi_reg`; `loop`, `dump` and `map`; the LSM303 driver: each extends `Args` |
| `Commands`, `MC_Commands` | these commands behind one shell, and a small instance |
| `Commands_proofs` | the driver's types, samples and typed values; that only named registers are touched; `loop` and `dump`; numbers read back |
| `PackageSigner`, `MC_PackageSigner` | the image signer, and a small instance |
| `PackageSigner_proofs` | rounding to blocks, and that the package is whole |

The properties of text, lines and images are about folds, and the induction theorems of the library cannot be
used here, because they take a predicate as a parameter. `FoldLemmas` states induction of a set (a set of numbers
that holds 0 and with each its successor holds all), and from it what a fold does with a sequence that
gets an element at its end, or is split; each proof then says which set it means.

### UsartConsole

State and code. `txHead`, `txTail`, `txBuf` and the `rx` three are the fields of the two
`Byte_fifo` of `micro_stdio.c`; `txeie` is CR1.TXEIE, `txe`, `rdr` and `errs` are the flags
and data the handler reads; `pc` and `slot` say where the program is inside `bf_space_avail`,
`bf_write`, `bf_data_avail` or `bf_read`; `isrPc` and `snap` are the handler and the registers it has
read. `txOut`, `stored`, `rxAccepted`, `rxDelivered`, `arrived` and `txHit` record the
history the properties speak of.

Steps. The program makes one memory access per step. `PutIndexFirst`/`PutByte` and
`PutByteFirst`/`PutIndex` are the two orders C allows for `buf[head++] = val` (GCC takes the
first), and likewise for `bf_read`. The handler is two steps, reading the registers and the
rest: only the USART moves between them, because the program is suspended. When the request
is still up on return the handler is entered again before the program runs (`IsrReturn`),
as the processor does. The three writers `_write`, `micro_puts` and `micro_putc` share one
model: each is a loop around the body of `micro_putc`. `Handler` selects which copy of the
handler is linked in; they differ in one test (`TransmitDue`).

External: `TxDone`, `LineByte` and `IrqLine` are the USART, from what the code relies on: a
byte that arrives with RDR unread is lost and flagged ORE, RXNE and ORE request under
RXNEIE, TXE under TXEIE, errors under EIE, PE under PEIE. RXNEIE is taken to be set: no
source sets it, and the console could not receive otherwise.

Runs.

| Run | Instance | Shows |
|---|---|---|
| `console_tx` | three slots, six bytes to print, no input | `TxFifoUnlessHit`, `NoLostWakeup`, `PutReturns`, `TxDrains` |
| `console_duplex` | three slots each way, six bytes arriving, some with framing or parity errors, one sent, error interrupts on | `TypeOK`, `RxFifo`, `RxDropsOnlyWhenFull`, `RxDrains`, `ProgramRuns`, refinement of `BytePipe` |
| `console_race` | violation | an interrupt inside `bf_write` sends a byte that was not stored |
| `console_line_error` | violation | with EIE clear one framing error stops the program for good |

Bounds. Three slots are the smallest buffer in which a wrapped index, a free slot and
a queued byte exist together (with two, a full buffer is also one whose byte is not seen, and `micro_putc`
would spin for ever); six bytes go round it twice, so that both indices wrap against each
other. `MaxTx` bounds the bytes the transmitter sends:
after a hit the handler can send slots again and again while the program is held up, and
without a bound that history would grow for ever; it is above the number of bytes printed, so
it never limits a behaviour without a hit.

Fairness. Weak fairness of the program (it does not stop when no handler is active), of the
handler (a request that is up is taken) and of the transmitter (a byte is sent in one
character time). Nothing is assumed of the line, and weak fairness of the program is enough
because with finitely many bytes the handler is entered finitely often, unless a request
stays up, and then the program is rightly starved.

What the runs say. (1) `bf_data_avail` (`byte_fifo.c:56`) is one short across the wrap, a
fault without a run of its own. A lone byte in the last slot is invisible: the transmitter is turned off with it still
queued, and on the receive side `micro_getc` withholds it until the next byte. `NoLostWakeup`, `TxDrains` and
`RxDrains` say that this is all that goes wrong: never more than one byte, and it is
delivered, in order, once another follows. (2) `bf_write` publishes the index before the byte
and unwrapped, so `micro_putc` against the handler can send stale bytes; `TxFifoUnlessHit`
says that nothing else breaks the order. The receive direction, with the roles exchanged, is safe
in every interleaving, thanks to the slot that is always left free. (3) The
violation `console_line_error`: see the table. The copy of the
handler in `stm32f3xx_it.c` has a fault without a run of its own: `isrflags & USART_ISR_TXE != FLAGS_CLEAR`
(`stm32f3xx_it.c:143`) tests bit 0, so that it never serves the transmitter; the broken variant
`TransmitDuePrecedence` is this test, and violates `TxDrains`.

Proofs. Types and the absence of out-of-bounds indices (`TypeCorrect`); order on the
receive side (`RxOrdered`), drops only when full (`RxDrops`), refinement of `BytePipe`
(`RxImplementsPipe`); order on the transmit side until a hit (`TxOrdered`) and the restart of
the transmitter (`TxRestarts`): for every buffer size from 3 to 65535, every input, either
handler and any setting of the error interrupts. The assumptions are those named in
`UsartConsole`. `RxFifo` is not inductive: it says nothing about what is in the buffer. `RxInv`
adds that the slots from tail to head hold the youngest accepted bytes (`RxContent`), that
their number accounts for the difference of the histories (`RxCount`, with a correction for
the two points where index and byte are out of step), that the tests on the way to `bf_read`
remain true while the handler moves the head (`RxTested`), and that a byte whose slot was
released before it was loaded is still there (`RxInFlight`), which is where the free slot is
needed. `TxInv` is the same for the other side, up to the first hit, and adds what survives
of the torn reads of `bf_space_avail` (`TxTested`). `NoLostWakeup` is inductive by itself.

Only model-checked: the liveness properties.

### CmdList

State and code. `next` and `prev` are the two fields of every `struct list_head`: the head
`cmd_list` and the `list` of each command; `Null` is what the initialisers `{0, 0}` leave.
`Listed` is what `list_for_each_entry` would visit, defined as the least set that contains
the first node and is closed under `next`: a quantifier over sets of nodes rather than a
recursion, so that proofs can use it. `Find` chooses among the listed commands that answer
to a word; the list's order would matter only if there were two, and `OneAnswer` says there
never are. `AddCmd` is `shell_add_cmd`, refusals included: its callers ignore what it returns. Its
guard says that the list has been initialised.

Run. `cmd_list`: commands that share words in all the ways two can (name with name, name
with abbreviation, a command whose two words are equal) and one with bad counts, added in
every order and as often as one likes, with `shell_init` at any point. It checks `TypeOK`
(with it: a node has both links or neither), `WalkEnds`, `OneAnswer`, `LinksAgree` and the refinement
of `Registry` (`RegistrySpec`), in which a command once registered is never registered again, not even
after the registry was cleared: this is what a second `shell_init` runs into.

Proofs (`CmdList_proofs`). All five properties, for every set of commands. The inductive
invariant `ListInv` adds that commands with null links are the ones not linked, and that a command
is listed only if it is linked; the lemma `WalkAdd` says what adding a node does to the least closed set.

### CmdLine and Shell

State and code. `line` is `cmdline_buf` up to `cmdline_buf_ind`, `has_data` is
`buffer_has_data`; `pass_to` is 1 while `pass_to_func` is set; `arg` is what `shell_func`
returned, the main loop's `shell_arg`. `phase`, `added` and `starts` are the program:
`shell_init`, the init functions of the other modules one command at a time (`Startup`), the loop, the end
after a negative return, and, since `projects/i2c.md` puts all of this into the outer
`while(1)`, the next round. `shown`, `qrun` and `last` are histories: the line as its user
sees it, the 'q's in a row, and what the last call did.

Steps. A step is one call of `shell_func`; the shell is sequential, nothing falls between.
The actions are the branches of `shell_process_input` in order: `Passed`, `EmptyLine`,
`Quit`, and the editing of the line (`EraseChar`, `AddChar`, `EndLine`, `FillLine`), the last
two with the processing of the line that follows (`Process`). Characters are classes: token
characters, spaces, ends of line, erase, others; `Lower` is `TOLOWER`. What a command does
beyond the shell is reduced to what the shell sees of it (`Does`): the prompt, or none, or a
session; a session's function keeps the session or ends it.

Run. `shell_lines`: four commands, two of which differ in one
character and one of which starts sessions; `MaxArgs` is 2, so that lines have too many
arguments, and `BufLen` 6, the smallest in which the buffer can fill inside an argument,
between two and after the last that counts; `MaxStarts` is the number of times the program runs the shell
(2 shows what a restart meets); `MaxQ` bounds the quit counter (4: past 3 it does nothing
more). Deadlock is not checked: after the last exit the program is over.

`RunsWhatWasTyped` and `NoLineLost` compare what the shell did with the line on the screen,
broken into arguments by `ArgsOf`, which defines arguments as maximal runs and not by a scan. They hold although blanks from
earlier lines may precede it (`LineIsShown`) and although the flag for "has data" may be stale.

`ThirdQuits` and `StartupListedOnce` say what holds while the shell is started for the first
time, as `shell.c:555` asks. The model shows why: with the block of `projects/i2c.md` (from l. 45) in
the outer loop the second `shell_init` finds every command's links set, adds none of them,
and the shell knows no command, not even help.

Three smaller things the model shows without a run of their own. The quit counter is static and is
not reset by a second start, after which three 'q's do not leave the shell: this is why `ThirdQuits`
speaks of the first. A blank line is answered without emptying the buffer
(`shell.c:469-470`), so that its spaces precede the next line (`LineIsShown`) and a 'q' typed
there is stored, not counted. Erasing does not clear `buffer_has_data`, so that a line erased and then blank
goes through `Process`, finds no argument and gets no prompt.

Proofs (`Shell_proofs`), for every keyboard, buffer size and set of commands. Types and buffer
bounds, `LineIsShown` and `SessionOwnsInput` from one inductive invariant: these three and
`FlagCovers`, that while the flag is clear the buffer holds spaces only, without which the
spaces left by an empty line could not be told from a command. `ShellUsesList` shows that
the shell's steps are steps of `CmdList`, which carries the list's theorems over.
`ThirdQuitsOnce` rests on `QuitInv`, which bounds the run of 'q's by the quit counter and the
counter by 2 while the loop goes on; `StartupComplete` on `StartupInv`, which says that the list
holds exactly the commands added so far, and it assumes that the commands are well formed and share no word.

`TypedRuns` and `NoneLost` are about `convert_cmd_buf_to_substr`, a scan that writes NULs into the buffer
as it goes, and which the model gives as a fold. The scan is followed from state to state: after each
character what it has found are the arguments of what it has read, as `ArgsOf` defines them
(`ArgsAreArgs`), up to `MaxArgs`; leading spaces change none of them (`SpacesSkipped`), so that
those of an earlier blank line are harmless. `RunInv` is the two properties and that nothing has been run before the loop; the rest is what `LineIsShown` says of the line. Assumed: `ArgsAssumption` (there is room for an argument) and `CharAssumption` (the classes of characters are disjoint).

### Probe

State and code. `probe_pf` names the target whose `Probe_funcs` are set: memory
(`mem_db.c`) or a peripheral (`i2c_reg.c`, `spi_reg.c`, which differ in the number of registers). `pos` is
`probe_addr` and the two register indices; `getting_value` and `set_value` are the statics
of `probe_proc`. `entry`, `lost`, `fresh` and `wrote` are histories: the digits on
the screen, whether one was pushed out of the value, how many were typed in this session, and
the last write. Every step of `Probe` is a step of `Shell` with
its effect on these added: `Passed` becomes `ProbeProc`, `Input` starts a session when it ran
a command that probes. What is at an address is the hardware's and is left out.

The LSM303 driver has a session function of its own, without `probe_pf`; it is not among the
targets, and `HookMeansProbe` is about the sessions of `probe.c`.

Runs. `probe_session` and the violation `probe_stale`: eight addresses for 2^32 (a multiple of every
size, as that is) whose places hold one, two and three bits for bytes, half words and words; a peripheral of two
registers of three bits, the word; binary digits (a digit is one character, as four bits are there); entries of
four digits, so that one is pushed out of a word and more out of the smaller places.

`WrittenAsShown` is about the whole way from the keys to the memory: what return writes is the number on the
screen cut to the width of the place, because `mpf_write` casts it (`Stored`): "123" in a session of bytes writes 0x23.
It covers values that an earlier session, of another size or target, left behind. Its exception is an entry
of which a digit was erased after others had been shifted out of `set_value`: `>>= 4` (`probe.c:74`) does not bring them back,
and the screen still shows them.

What the violation says: ending a session leaves a half-typed value behind, which return
writes in the next session, to whatever place that one is at. The model also shows, without a
run of its own, that '+' and '-' inside a value move without printing (`Reprompt` prints only
while no value is being typed), so that return writes to a place the prompt did not show,
although `mem_db.c:324` promises the value at every '+'.

Proofs (`Probe_proofs`), for every number of addresses divisible by the sizes, every peripheral and
every base and width: `Probe` implements `Shell`; `HookMeansProbe`; types and ranges;
`Aligned`, with lemmas on the wrap of the address; and `WrittenAsShown` (`ProbeWrites`), for which
`ValueInv` adds that what is on the screen are digits and that, unless `lost`, `set_value` is their number modulo the
word: a digit typed appends to the fold, and the word cuts it (`ShiftCut`); one erased takes its last step back, which is a
division by the base as long as nothing has been cut; and cutting to the word and then to the place is cutting to the
place (`CutTwice`), because the widths divide the word (`WidthAssumption`).

### DbtTrace

State and code. `dbt_log_buf` and `dbt_log_index` are the code's; a word is a number that
says which record and which half of it is there. A context is the program or the handlers of one
priority; `pc`, `reg` and `rec` are where in `dbt_write` each is, the index it has read, and the
record it writes. `print` is a call of `dbt_print`. `hit` and `recent` are histories: whether
the outermost write has been preempted by another, and the records written since that last happened.
`dbt_write` has no caller in the repository; that handlers call it is what the comment
on the buffer says (`dbt.c:44-45`).

Steps. One access to shared memory per step: `Load` reads the index, `Step` does the rest of the
statement. `reloads` is the build: each statement reads the index again, as without optimisation, or
it stays in a register until it is masked. A context runs while no higher one is in a write
(`Runs`): this is how priorities nest. `PrintRecord` reads a record in one step although
the code reads it byte by byte; the properties of printing speak of prints during which
nothing is written.

Runs. `dbt_trace`: a ring of three records, three priorities, five writes, which is enough for the
ring to go round and for two handlers to nest at its end, behind which the second then writes; prints
of up to two records, all that the ring keeps beside the stop record. `TypeOK` says how
far behind the ring a handler may write: one record for each priority above the program
(`Limit`). `StopAtIndex` holds although a preempted write puts the stop record over a record
of the handler. `RecentKept` says that damage is confined to the writes that fell into each other, and
those before them. `dbt_print` has a fault without a run: a backward print begins in
front of the buffer when the index is 0 (`dbt.c:190`), and in both directions a print that crosses
the end takes in the slot behind the ring (`dbt.c:178`, `dbt.c:195`). `PrintsNewest` excepts
these (`Crosses`) and says that a print that does not cross the end is right.

The model also shows, without a run, that a write that falls into another costs records: the
handler's record may be overwritten by the program's, be torn between the two, or be cut off by an index
set back. "The log forms a time sequential record of events" (`dbt.h:37`) then does not hold.

Proofs (`DbtTrace_proofs`), for every ring and any number of priorities that the room behind
it allows (66 for the code's 128 words): all four properties. `StopAtIndex` is not
inductive: `StopInv` adds that a context about to write the stop record with an index it read
earlier either has read the present one, or a handler has written the stop record since, so
that one more word of it does no harm. `RecentKept` rests on `KeptInv`: while the one write under
way has not been preempted, it is at a known statement counted from the index it started at, and the youngest
records, as many as the ring keeps, are in the slots behind that index; a preempted write
makes `recent` empty, so that nothing is claimed of the records before it. `PrintsNewest` rests on
`PrintKeeps`: what a clean print has shown so far is the part of `newest` it should be, and it stands at
the slot of the next record.

### Format and Args

State and code. None: `format_x`, `format_d` and `micro_strtol` are operators on sequences of
characters; `micro_strtol` is two folds, one for each base. `Args` holds what `shell.c` hands to a command:
`sargc`, and in `sargv` the words typed and, behind them, any others, because the array
is static, is not cleared, and points into a buffer that later lines overwrite. `did` is what the command did to memory
or devices, `mode` who has the input.

### RegCmd, MemDb and Lsm303

State and code. `RegCmd` and the commands of `MemDb` keep none. `lsm303_probe_dev_num`,
`lsm303_probe_index`, `getting_value` and `set_value` are the driver's statics; `dev`, `left` and
`ret_val` are locals of the display loop and of `get_sensor_values`; `got`, `entry` and `lost` are histories: the
bytes of this sample, the digits on the screen, whether one was pushed out.

Steps. One command is one step, for a shell that runs it to the end; two things go on: a display, one I2C transfer
a step (`SensorByte`, `SensorFails`), and a session, one character a step (`Session`). `Reprompt`
is the return to the shell. A transfer may fail at any of the six bytes, and the chip returns any of `Data`.
Where the code prints what a variable that was never set picks (`ii` at `lsm303_driver.c:589`, `lsm303_err_str` at the end
of a display and of an unknown sub-command), `Unset` lets it go on or fault. At `lsm303_driver.c:581` that `ii` picks a
register, which is read of the device before the name is even looked at: `LsmReadOne` reads any of `Strays` or
faults, and then reads the register meant, or none.

Run. `commands`, on 2^16 addresses instead of 2^32 (the words typed include `0xfff7`, from where a dump goes over the
end of memory and a length is negative): for each command the words `Tried` in each place, among them words of both
tables, words of neither, words that are sub-commands, and numbers inside, between and outside the registers; two bytes
from the chip; three stray registers, in the range of one device, of the other, and of neither; displays of up to two samples; entries of up to three digits, one more than a byte holds. `Fresh` tries
all other commands only before the first session, because nothing else reads or writes the statics a session leaves.
Numbers are printed and read back for -130 .. 130 and around the powers of ten up to 65535.

| Property | Says |
|---|---|
| `LsmTypeOK` | types; the register of a session is in its device's table, of the two with different lengths |
| `SampleWhole` | a sample is six bytes read for it, paired by axis, or the mark of a failure |
| `FullEntryWritten` | two digits typed in a session are what is written, erasures and moves included |
| `AccessAsTyped` | `i2c_reg` and `spi_reg` touch the register named, or read all when asked to, and write the number typed (`NamedOnly`); `lsm303` reads and writes what its line means, by name or number, and beyond that only the stray register and 0xff (`LsmNamed`) |
| `LoopAsTyped` | `loop` does what the words on the line say, never what stale ones say |
| `DumpShows` | `dump` covers what was asked for, in both of its columns |
| `ReadBack` | a number printed is read back as the same number, unless it is a power of ten in decimal |
| `DisplayEnds` | a display ends although the chip may never answer |

Fairness. Of the display only: it is a loop of the program, which nothing else stops. Nothing is assumed of
what is typed. Deadlock is not checked: a fault is the end.

Proofs (`Commands_proofs`), for any words, any keys, any bytes and any size of memory: `LsmTypes`; `SamplesWhole`, from
`SampleInv`, which adds that the bytes read so far are in `ret_val` from the top down, and from two lemmas
that say which axis a byte belongs to in each table; `AccessesAsTyped`, by the cases of a word that is a
name, a number in the range, or neither (`NumberMeant`). `EntryWritten` rests on `EntryInv`: unless one was pushed out there are at most two
digits on the screen; two are the whole value, of one only the low half of the value is known, because the prompt may have put a
register's contents above it. `LoopTyped` and `DumpsTrue` need that `micro_strtol` gives a number for every word, that the
words of this line are the first in `sargv` (`LineTyped`), and the arithmetic of units and lines
(`Units`, `LineCount`). `ShownReadsBack` compares the digits printed with those read from both ends:
what is printed so far is the number divided by the power reached, what is left its remainder (`DecimalShown`, `HexShown`); it
assumes that the numbers shown are below 10^9 either way (`ShownAssumption`), where `power * 10` does not overflow.
Only model-checked: `DisplayEnds`.

### PackageSigner

State and code. `par` is `flash_block_size`, `version`, `magic_number`, `load_addr` and `entry_point`; `in_fd`,
`out_fd` and `file_buf` are the code's, `fbs` is the signature. A byte is its value and its
kind (of the image, of the filling, of the signature, or held by the output file before).
`given` is the history of the options.

Steps. One option, then `Load`, `Sign`, `Write`; opening, allocating and reading, and writing may each fail, writing after
none, half or all of the bytes. One read or write moves at most `Transfer` bytes, which is the kernel's limit and less than
2^31: a longer image is refused. `RoundUp` has the mask of `package_signer.c:354`, which is one word and clears what is
above; numbers of a version and characters of a magic number are ORed in (`Pack`), so that those over a byte run into the ones before.
`hung` is a loop that is never left, `fault` an access outside the buffer.

The output is the whole file. It is opened without `O_TRUNC`, so that an old file that is longer keeps its end behind the package.

Runs. All on words of 7 bits, a radix of 4 for 256, a kilobyte of 4 bytes, signatures of 4 and transfers of 60, in which a block
size wraps to 0 as 2^32 does; up to three options of twenty-one, among them blocks of half a word (where the loop that
fills does nothing) and numbers over the radix; images of 0 to 17 bytes around a block of 16 and around the room the signature
leaves, and of 57, 62 and 125, around the limit of a transfer and the end of the word; an empty output file and one longer than most packages.

| Run | Property | Says, or finds |
|---|---|---|
| `signer` | `SignedWhole` | the output begins with whole blocks: the image as far as it fits, filling, signature with the checksum of what stands in front of it; behind them is only what the file held |
| `signer` | `Ends` | the program ends but for the two loops it names |
| `signer_tail` | `ImageKept` | violated: the signature replaces the end of an image whose last block has no room for it (`package_signer.c:398`) |

`SignedWhole` is what the code does. The documents say otherwise in three points: the whole image is kept (the run `signer_tail`); the
file is a multiple of the page size (`tools/README.md:28`), which the end of an older, longer file breaks; and the checksum covers `fbs_length` bytes
(`package_signer.h:58`, `tools/README.md:93`), whereas the code's takes in the filling and leaves out the bytes the signature replaces. `Ends` needs weak
fairness of the program, which is sequential.

Proofs (`PackageSigner_proofs`), for any word, radix, kilobyte, signature and transfer limit, any options, images and old files: `WholePackage`.
`2 ^ (n + 1) = 2 * 2 ^ n` is not known to the provers and comes from the number of subsets (`PowerStep`); a
size of which `check_block_size` finds a single bit is a power of two, by following the bits down (`OneBit`); masking with it then
rounds up to the next multiple, and for a buffer that holds the image the word does not cut it (`RoundedUp`). `SignerInv` says, from step to step, what the buffer
holds: the image and the filling, then the signature over its end, and that what is written is this buffer over the old file. Of the
constants `SignerAssumption` asks that the default block is a power of two in a word, that a transfer is less than half a word, that the
argument of `-b` is a number, that images are sequences of numbers and old files of old bytes. Only model-checked: `Ends`.

## Known faults

Found while modelling, and not the subject of a run: the properties name them as exceptions, or
the model contains them. Those of the console, the shell, the probe and the trace buffer are described above.

* `lsm303_driver.c:449`: the prompt of a session reads the register into the variable in which the next value is typed, so a
  single digit is written with the register's old low digit in front of it, although `lsm303_driver.c:365-366` says that
  the value typed is set. `FullEntryWritten` speaks of two digits. What is half typed when a session ends is kept for the next (l. 375).
* `lsm303_driver.c:216`: on the magnetometer a misspelt name is the number 0, which is a register (`Meant`).
  `:607`: the write command passes 0xff, the mark of an unknown register, on to the device; `LsmNamed` excepts it.
* `lsm303_driver.c:581`: reading one register reads another one first, picked by an index that was never set, and does so too when
  the name is then refused; `LsmNamed` excepts this one. `:552`: with three arguments the register read is a word of an earlier line.
* `lsm303_driver.c:307`: the two bytes of an axis are two transfers; that the chip may take a sample between them is not modelled.
  The display shows Z as x, and Y as both y and z (`ShowSample`).
* `mem_db.c:133`: the count of writes is taken from the value; `LoopAsTyped` leaves it out. `:127`: the check for a missing value is one short; nothing is written then, because there is no count either.
* `format.c:84`: the powers of ten print as `:`, `:0`, and so on; `ReadBack` excepts them.
* `tools/package_signer.c:101` and `:149`: the two loops `Ends` excepts. `:395`: `fbs_cksum` is taken over its own
  uninitialised low byte. Nothing sets `fbs_fbs_version`. `:391`: the checksum takes in the filling. `:208`: an output file keeps what it
  held behind the package. An output file that cannot be opened is replaced
  by the standard output. An empty image, or a block smaller than the signature, makes it write in front of its buffer (`fault`).

## Plan

Done: the console, `CmdList`, `CmdLine`, `Shell`, `Probe`, `DbtTrace`, `Format`, `RegCmd`, `MemDb`, `Lsm303`, `PackageSigner`,
with the theorems above: every invariant and action property that a run checks, and both refinements, are proved.
The liveness properties (`PutReturns`, `TxDrains`, `RxDrains`, `ProgramRuns`, `DisplayEnds`, `Ends`) stay with TLC: they rest on
fairness, that is on ENABLED, which the provers installed do not handle. Left:

* The LSM303 session composed with `Shell` beside `Probe`, with the theorem that each session gets its own characters.
  `Commands` has a shell reduced to who has the input.

## Not modelled

* `l3gd20_driver.c`: stubs. `micro_console.c`: an empty template.
* `lsm303_driver.c:73-142`: functions that return 0.
* `micro_util.c`: `micro_tolower` and the tests of characters, which nothing modelled depends on beyond `Lower` of `Shell`;
  in `format_d` numbers above 10^9, whose power overflows.
* `tools/package_signer.c`: `fbs_cksum`, which has no determined value, and the loop that writes pad blocks, which is
  never entered because `get_pad_blocks` always returns 0.
* `dbt.c`: the mask, which only the macros of `dbt.h` read, and the layout of a record.
* `shell.c`: the bypass hook, which nothing in the repository sets; `shell_sub_cmd_list_search`, which has no caller; the text
  `help` prints. `list.h`: `list_del` and `list_empty`, which have no caller.
* What memory, registers and the chip hold: theirs. The HAL and the boot loader are not in the repository; the USART is
  modelled as the code uses it. The `.ioc` files are generated.
* The desktop demonstrations under `SA_CONSOLE_BUILD`.
