------------------------------ MODULE CmdLine -------------------------------
(* How shell.c breaks a line into arguments, and what arguments a line has. *)
EXTENDS Naturals, Sequences, SequencesExt, FiniteSets

CONSTANTS
  TokenChars,   \* letters, digits, '_' and '#'
  SpaceChars    \* what micro_isspace accepts

(* Slips: separators do not end an argument; an argument too many is begun. *)
AppendCharSticky(size, st, c) ==
  LET n == Len(st.argv)
  IN  IF n = size \/ (n > 0 /\ c \in TokenChars)
        THEN [st EXCEPT !.argv[n] = Append(@, c)]
      ELSE IF c \in TokenChars
        THEN [in |-> TRUE, argv |-> Append(st.argv, <<c>>)]
      ELSE [st EXCEPT !.in = FALSE]

(* One round of the loop: st.in is in_string, st.argv the arguments so far.
   Once the last argument has begun the loop is left, and that argument runs
   to the end of the line.                                                  *)
AppendChar(size, st, c) ==
  LET n == Len(st.argv)
  IN  IF n = size \/ (st.in /\ c \in TokenChars)
        THEN [st EXCEPT !.argv[n] = Append(@, c)]
      ELSE IF c \in TokenChars
        THEN [in |-> TRUE, argv |-> Append(st.argv, <<c>>)]
      ELSE [st EXCEPT !.in = FALSE]

(* convert_cmd_buf_to_substr                                                *)
Args(line, size) ==
  FoldLeft(LAMBDA st, c : AppendChar(size, st, c), [in |-> FALSE, argv |-> <<>>], line).argv

(* The arguments of a line: its maximal runs of token characters, at most
   size of them, the last of these with all that follows it.                *)
Starts(line) == {i \in 1 .. Len(line) :
                   line[i] \in TokenChars /\ (i = 1 \/ line[i - 1] \notin TokenChars)}

RunEnd(line, i) ==
  CHOOSE j \in i .. Len(line) :
    /\ \A k \in i .. j : line[k] \in TokenChars
    /\ j = Len(line) \/ line[j + 1] \notin TokenChars

(* The k-th place where an argument starts: k - 1 are before it.            *)
StartsBefore(line, i) == {j \in Starts(line) : j < i}
NthStart(line, k)     ==
  CHOOSE i \in Starts(line) : Cardinality(StartsBefore(line, i)) = k - 1

ArgsOf(line, size) ==
  LET starts  == Cardinality(Starts(line))
      last(k) == IF k = size THEN Len(line) ELSE RunEnd(line, NthStart(line, k))
  IN  [k \in 1 .. (IF starts < size THEN starts ELSE size) |->
         SubSeq(line, NthStart(line, k), last(k))]
=============================================================================
