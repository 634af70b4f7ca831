------------------------------- MODULE Shell --------------------------------
(***************************************************************************)
(* The command shell of shell.c: the line editor, the quit counter, the    *)
(* dispatch of a line to a command, the function characters are passed to, *)
(* and the program that initialises it and calls shell_func for ever.      *)
(*                                                                         *)
(* The shell is sequential: one step is one call of shell_func, from the   *)
(* character it gets to the value it returns.                              *)
(***************************************************************************)
EXTENDS Integers, CmdList, CmdLine

CONSTANTS
  BufLen,        \* CMDLINE_BUF_LEN
  Chars,         \* the characters the console delivers, 0 and EOF excepted
  Lower,         \* what TOLOWER makes of each
  Eol, Erase,    \* '\n' and '\r'; '\b' and 0x7f
  Q, Hash,       \* 'q' and '#'
  Startup,       \* the commands in the order the program adds them
  Does,          \* what each command does
  MaxStarts,     \* bound: times the program runs the shell
  MaxQ           \* bound: 'q's counted

ASSUME BufAssumption == BufLen \in Nat /\ BufLen >= 3
ASSUME CharAssumption ==
  /\ Lower \in [Chars -> Chars]
  /\ Eol \cup Erase \cup SpaceChars \cup TokenChars \subseteq Chars
  /\ Q \in TokenChars /\ Hash \in TokenChars
  /\ SpaceChars \cap TokenChars = {} /\ Eol \cap Erase = {}
  /\ (Eol \cup Erase) \cap (SpaceChars \cup TokenChars) = {}
ASSUME BoundAssumption == MaxStarts \in Nat /\ MaxQ \in Nat
ASSUME StartupAssumption == Startup \in Seq(Cmds)
(* A command returns 1 for the prompt, or returns 0, or may start a session
   that gets the characters from now on.                                    *)
ASSUME DoesAssumption == Does \in [Cmds -> {"prompt", "quiet", "session"}]

VARIABLES
  line,       \* cmdline_buf up to cmdline_buf_ind
  has_data,   \* buffer_has_data
  q_count,    \* the static counter of shell_process_input
  pass_to,    \* 1 if pass_to_func is set
  arg,        \* shell_arg: what the last call returned
  phase,      \* "init", "add": commands are being added; "run"; "exit"
  added,      \* the commands of Startup tried so far
  starts,     \* times the shell has been initialised
  shown,      \* history: the line as its user sees it
  qrun,       \* history: 'q's in a row on an empty line
  last        \* history: what the last call did

editor == <<line, has_data>>
boot   == <<phase, added, starts>>
vars   == <<links, editor, q_count, pass_to, arg, boot, shown, qrun, last>>

Nothing == [did |-> "nothing", typed |-> <<>>, argv |-> <<>>, cmd |-> Null]
Did(what) == [Nothing EXCEPT !.did = what, !.typed = shown]

ShellInit ==
  /\ Init
  /\ line = <<>> /\ has_data = 0 /\ q_count = 0 /\ pass_to = 0 /\ arg = 1
  /\ phase = "init" /\ added = 0 /\ starts = 0
  /\ shown = <<>> /\ qrun = 0 /\ last = Nothing

-----------------------------------------------------------------------------
(* The program.                                                             *)

(* shell_init, up to its first shell_add_cmd.                               *)
StartShell ==
  /\ phase \in {"init", "exit"} /\ starts < MaxStarts
  /\ InitListHead
  /\ phase' = "add" /\ added' = 0 /\ starts' = starts + 1
  /\ qrun' = 0 /\ last' = Nothing
  /\ UNCHANGED <<editor, q_count, pass_to, arg, shown>>

(* The rest of shell_init, and the init functions of the other modules.     *)
AddNext ==
  /\ phase = "add" /\ added < Len(Startup)
  /\ AddCmd(Startup[added + 1])
  /\ added' = added + 1
  /\ UNCHANGED <<editor, q_count, pass_to, arg, phase, starts, shown, qrun, last>>

StartLoop ==
  /\ phase = "add" /\ added = Len(Startup)
  /\ phase' = "run" /\ arg' = 1
  /\ UNCHANGED <<links, editor, q_count, pass_to, added, starts, shown, qrun, last>>

-----------------------------------------------------------------------------
(* shell_func.                                                              *)

NoInput ==
  /\ phase = "run"
  /\ arg' = 0 /\ last' = Nothing
  /\ UNCHANGED <<links, editor, q_count, pass_to, boot, shown, qrun>>

(* The function characters are passed to keeps the session or ends it.      *)
Passed ==
  /\ phase = "run" /\ pass_to = 1
  /\ \/ pass_to' = 1 /\ arg' = 0
     \/ pass_to' = 0 /\ arg' = 1
  /\ qrun' = 0 /\ last' = Did("passed")
  /\ UNCHANGED <<links, editor, q_count, boot, shown>>

IsEmpty == line = <<>> \/ has_data = 0

EmptyLine(b) ==
  /\ phase = "run" /\ pass_to = 0
  /\ IsEmpty /\ b \in Eol
  /\ arg' = 1 /\ shown' = <<>> /\ qrun' = 0
  /\ last' = Did("empty")
  /\ UNCHANGED <<links, editor, q_count, pass_to, boot>>

(* A slip: the third 'q' is announced like the first two.                   *)
QuitResultLate(n) == IF n \in 1 .. 3 THEN 1 ELSE IF n = 4 THEN -1 ELSE 0

QuitResult(n) == IF n \in {1, 2} THEN 1 ELSE IF n = 3 THEN -1 ELSE 0

Quit(b) ==
  /\ phase = "run" /\ pass_to = 0
  /\ line = <<>> /\ b = Q /\ q_count < MaxQ
  /\ q_count' = q_count + 1
  /\ arg' = QuitResult(q_count + 1)
  /\ phase' = IF arg' < 0 THEN "exit" ELSE "run"
  /\ qrun' = qrun + 1 /\ last' = Did("quit")
  /\ UNCHANGED <<links, editor, pass_to, added, starts, shown>>

(* add_to_cmdline_buffer.                                                   *)
Edits(b) ==
  /\ phase = "run" /\ pass_to = 0
  /\ ~ (IsEmpty /\ b \in Eol) /\ ~ (line = <<>> /\ b = Q)

Erased(l) == IF l = <<>> THEN l ELSE Front(l)

EraseChar(b) ==
  /\ Edits(b) /\ b \in Erase
  /\ line' = Erased(line) /\ shown' = Erased(shown)
  /\ arg' = 0 /\ qrun' = 0 /\ last' = Nothing
  /\ UNCHANGED <<links, has_data, q_count, pass_to, boot>>

(* Slips: the buffer counts as full one character too late; a space after
   the data clears the flag.                                                *)
FullLate(l)   == Len(l) = BufLen
DataSpace(b)  == IF b \in SpaceChars THEN 0 ELSE 1

Full(l)       == Len(l) = BufLen - 1
DataFlag(b)   == IF b \in SpaceChars THEN has_data ELSE 1
Typed(b)      == b \notin Eol \cup Erase

AddChar(b) ==
  /\ Edits(b) /\ Typed(b) /\ ~ Full(Append(line, b))
  /\ line' = Append(line, b) /\ shown' = Append(shown, b)
  /\ has_data' = DataFlag(b)
  /\ arg' = 0 /\ qrun' = 0 /\ last' = Nothing
  /\ UNCHANGED <<links, q_count, pass_to, boot>>

(* shell_process_input once a line is done: what becomes of its arguments.  *)
ArgCountOK(c, n) == Cmd[c].min <= n /\ n <= Cmd[c].max

Verdict(argv) ==
  CASE argv = <<>>                              -> "no argument"
    [] argv # <<>> /\ argv[1][1] = Hash         -> "comment"
    [] OTHER -> IF Find(argv[1]) = Null         THEN "bad command"
                ELSE IF ArgCountOK(Find(argv[1]), Len(argv)) THEN "ran"
                ELSE "wrong count"

(* What the command does to the prompt and to pass_to_func.  One that starts
   a session may also be refused, or do something else by its arguments.    *)
Effect(c) ==
  \/ Does[c] # "quiet" /\ arg' = 1 /\ UNCHANGED pass_to
  \/ Does[c] = "quiet" /\ arg' = 0 /\ UNCHANGED pass_to
  \/ Does[c] = "session" /\ arg' = 0 /\ pass_to' = 1

(* A slip: the line is not emptied when the command returns 0.              *)
LineDoneOnPrompt ==
  IF arg' = 1 THEN line' = <<>> /\ has_data' = 0 ELSE UNCHANGED editor

LineDone == line' = <<>> /\ has_data' = 0

(* l is the buffer, s the line as its user sees it.                         *)
Process(l, s) ==
  LET argv    == Args(l, MaxArgs)
      verdict == Verdict(argv)
      cmd     == IF verdict = "ran" THEN Find(argv[1]) ELSE Null
  IN  /\ \/ verdict = "ran" /\ Effect(cmd)
         \/ verdict = "no argument" /\ arg' = 0 /\ UNCHANGED pass_to
         \/ verdict \notin {"ran", "no argument"} /\ arg' = 1 /\ UNCHANGED pass_to
      /\ q_count' = IF verdict = "no argument" THEN q_count ELSE 0
      /\ LineDone
      /\ shown' = <<>> /\ qrun' = 0
      /\ last' = [did |-> verdict, typed |-> s, argv |-> argv, cmd |-> cmd]
      /\ UNCHANGED <<links, boot>>

EndLine(b)  == Edits(b) /\ b \in Eol /\ Process(line, shown)
FillLine(b) == /\ Edits(b) /\ Typed(b) /\ Full(Append(line, b))
               /\ Process(Append(line, b), Append(shown, b))

Input(b) == \/ EmptyLine(b) \/ Quit(b) \/ EraseChar(b) \/ AddChar(b)
            \/ EndLine(b) \/ FillLine(b)

ShellNext ==
  \/ StartShell \/ AddNext \/ StartLoop
  \/ NoInput \/ Passed
  \/ \E c \in Chars : Input(Lower[c])

ShellSpec == ShellInit /\ [][ShellNext]_vars

-----------------------------------------------------------------------------
Bit   == {0, 1}
Lines == Seq(Chars)

(* Types, and the bounds of the line buffer: between calls there is room in
   it for one more character and the terminator.                            *)
ShellTypeOK ==
  /\ line \in Lines /\ Len(line) <= BufLen - 2
  /\ has_data \in Bit /\ pass_to \in Bit /\ q_count \in Nat /\ arg \in {-1, 0, 1}
  /\ phase \in {"init", "add", "run", "exit"}
  /\ added \in 0 .. Len(Startup) /\ starts \in 0 .. MaxStarts
  /\ shown \in Lines /\ qrun \in Nat

(* The line the shell holds is the line its user sees, after spaces left
   over from empty lines: shell_process_input returns for an empty line
   without resetting cmdline_buf_ind.                                       *)
Left == Len(line) - Len(shown)
LineIsShown ==
  /\ Left >= 0
  /\ \A i \in 1 .. Left : line[i] \in SpaceChars
  /\ \A i \in 1 .. Len(shown) : line[Left + i] = shown[i]

(* What runs is what was typed: the command the first argument of the line
   names, with the arguments of the line, as many as it takes; and a line is
   refused only if no command answers to its first argument.                *)
RunsWhatWasTyped ==
  /\ last.did = "ran" =>
       /\ last.argv = ArgsOf(last.typed, MaxArgs)
       /\ last.cmd \in Listed /\ last.argv[1] \in Words(last.cmd)
       /\ ArgCountOK(last.cmd, Len(last.argv))
  /\ last.did = "bad command" =>
       \A c \in Listed : ArgsOf(last.typed, MaxArgs)[1] \notin Words(c)
  /\ last.did = "comment" => ArgsOf(last.typed, MaxArgs)[1][1] = Hash

(* No line is lost: one that the shell takes for empty has no argument, in
   spite of the flag that erasing does not clear.                           *)
NoLineLost ==
  last.did \in {"empty", "no argument"} => ArgsOf(last.typed, MaxArgs) = <<>>

(* While characters are passed to a session the shell holds no part of a
   line, so that the user meets an empty one when the session ends.         *)
SessionOwnsInput == pass_to = 1 => line = <<>> /\ has_data = 0 /\ shown = <<>>

(* The third 'q' in a row on an empty line ends the program's loop
   (shell.c:178, "three 'q' in a row exits or resets"), if the shell was
   started once: the counter is not reset for a second time.                *)
ThirdQuits == starts = 1 /\ qrun = 3 => phase = "exit"

(* Every command of the program can be found once it runs, if the shell was
   started once (shell.c:555).                                              *)
StartupListed == phase = "run" => \A i \in DOMAIN Startup : Startup[i] \in Listed
StartupListedOnce == starts = 1 => StartupListed
=============================================================================
