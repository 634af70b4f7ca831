-------------------------------- MODULE MemDb -------------------------------
(* The commands loop and dump of mem_db.c on memory of Top addresses.  (The  *)
(* command probe is in Probe; map prints a table.)  What memory holds is left *)
(* out: the properties are about which bytes are touched.                     *)
EXTENDS Args

SizeLetter == Letter(2)

IsSize == SizeLetter \in {"b", "c", "1", "s", "2", "l", "4"}

SizeOf(letter) == IF letter \in {"b", "c", "1"} THEN 1 ELSE IF letter \in {"s", "2"} THEN 2 ELSE 4

(* Where the read or write stands: behind the size, if there is one.          *)
index_for_size_arg == IF IsSize THEN 3 ELSE 2

Aligned(a, size) == a - (a % size)

(* The cast to the width of the access.                                       *)
Low(value, size) ==
  IF size = 1 THEN value % 256 ELSE IF size = 2 THEN value % 65536 ELSE value

Access(op, count, value) ==
  [op |-> op, size |-> SizeOf(SizeLetter), addr |-> Aligned(Num(1), SizeOf(SizeLetter)),
   count |-> count, value |-> Low(value, SizeOf(SizeLetter))]

(* A slip: the count is read whether or not there is one.                     *)
HasCountAlways(k) == TRUE

HasCount(k) == sargc' > index_for_size_arg + k

(* The count is the one typed.                                                *)
LoopRead ==
  LET count == IF HasCount(1) THEN Num(index_for_size_arg + 1) ELSE 0
  IN  /\ Letter(index_for_size_arg) = "r"
      /\ did' = IF count # 0 THEN Access("reads", count, 0) ELSE Nothing

(* The count is the value again (l. 133); a line without a value is not always
   refused (l. 127), and then the value is a word of an earlier line, but there
   is no count either and nothing is written.                                 *)
LoopWrite ==
  LET value == Num(index_for_size_arg + 1)
      count == IF HasCount(2) THEN value ELSE 0
  IN  /\ Letter(index_for_size_arg) = "w"
      /\ did' = IF sargc' >= index_for_size_arg + 1 /\ count # 0
                THEN Access("writes", count, value) ELSE Nothing

LoopNeither == Letter(index_for_size_arg) \notin {"r", "w"} /\ did' = Nothing

Loop == Call("loop", 3, 6) /\ (LoopRead \/ LoopWrite \/ LoopNeither) /\ mode' = "prompt"

-----------------------------------------------------------------------------
(* dump: lines of sixteen bytes, as units of the size and again as text.      *)
DumpSize == IF sargc' = 3 THEN 1
            ELSE IF Letter(3) \in {"s", "2"} THEN 2 ELSE IF Letter(3) \in {"l", "4"} THEN 4 ELSE 1

(* A slip: as many units whatever their size.                                 *)
LineLenFixed(size) == 16

line_len(size) == 16 \div size

Signed(x) == IF x >= Top \div 2 THEN x - Top ELSE x

(* The loop is left when ii, which grows by line_len, has reached len.        *)
Dump ==
  /\ Call("dump", 3, 4)
  /\ LET size == DumpSize
         len  == Signed(Num(2)) \div size
         per  == line_len(size)
     IN  did' = [op |-> "dump", size |-> size, from |-> Aligned(Num(1), size),
                 lines |-> IF len <= 0 THEN 0 ELSE (len + per - 1) \div per]
  /\ mode' = "prompt"

(* The bytes that line l shows as numbers: addr grows from line to line; and
   as text: from where addr was at the start of the line.                     *)
HexOf(l) ==
  LET per == line_len(did.size)
  IN  {(did.from + (l * per + j) * did.size + b) % Top : j \in 0 .. per - 1, b \in 0 .. did.size - 1}
TextOf(l) == {(did.from + l * line_len(did.size) * did.size + jj) % Top : jj \in 0 .. 15}

Map == Call("map", 1, 1) /\ did' = Nothing /\ mode' = "prompt"

-----------------------------------------------------------------------------
Number(w) == micro_strtol(Spell[w])

(* What follows the address and the size, if one was typed.                   *)
Rest ==
  LET sized == Len(Typed) > 1 /\ Spell[Typed[2]][1] \in {"b", "c", "1", "s", "2", "l", "4"}
  IN  SubSeq(Typed, IF sized THEN 3 ELSE 2, Len(Typed))

(* loop touches memory only as the words on the line say, at the unit that
   contains the address typed, and never as words left by an earlier line say:
   although it looks at those (mem_db.c:94, 127, 132).  Reads are as many as
   were asked for; writes have the value typed (their count has not).         *)
LoopAsTyped ==
  cmd = "loop" =>
    /\ did.op # "nothing" =>
         /\ did.addr % did.size = 0
         /\ Number(Typed[1]) \in did.addr .. did.addr + did.size - 1
         /\ Len(Rest) >= (IF did.op = "reads" THEN 2 ELSE 3)
         /\ Spell[Rest[1]][1] = (IF did.op = "reads" THEN "r" ELSE "w")
         /\ did.op = "reads"  => did.count = Number(Rest[2])
         /\ did.op = "writes" => did.value = Low(Number(Rest[2]), did.size)
    /\ Len(Rest) > 1 /\ Spell[Rest[1]][1] = "r" /\ Number(Rest[2]) # 0 => did.op = "reads"

(* The two halves of a line of dump show the same bytes; when the address and
   the length are multiples of the size, everything asked for is shown; and no
   line is shown of which nothing was asked for (mem_db.c:255-300).           *)
DumpShows ==
  cmd = "dump" =>
    LET len == Signed(Number(Typed[2]))
        all == 0 .. did.lines - 1
    IN  /\ \A l \in all : HexOf(l) = TextOf(l)
        /\ len % did.size = 0 /\ Number(Typed[1]) % did.size = 0 =>
             \A b \in 0 .. len - 1 : \E l \in all : (Number(Typed[1]) + b) % Top \in HexOf(l)
        /\ did.lines = 0 \/ (did.lines - 1) * 16 < len
=============================================================================
