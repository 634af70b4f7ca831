---------------------------- MODULE PackageSigner ---------------------------
(* tools/package_signer.c: the options, one by one; the image, padded to      *)
(* whole flash blocks and signed at its end; the output.  A byte of a file    *)
(* has a kind, which says where it came from, and a value.  Every call to the *)
(* system may fail.                                                           *)
EXTENDS Integers, Sequences, SequencesExt, FiniteSets

CONSTANTS
  Bits,         \* the bits of a word: 32
  Radix,        \* 256
  Kilo,         \* 1024
  Sig,          \* the size of the signature: 32
  Transfer,     \* the most that one read or write moves: less than 2^31
  Options,      \* bound: the options that are tried
  Images, Old,  \* bound: the input files; what the output file may hold before
  MaxOptions    \* bound: the options of one command

Word == 2 ^ Bits

Default == [block |-> 4 * Kilo, version |-> 1, magic |-> 1, load |-> 0, entry |-> 0]

ASSUME SignerAssumption ==
  /\ {Bits, Radix, Kilo, Sig} \subseteq Nat \ {0}
  /\ Transfer \in Nat /\ Transfer < Word \div 2
  /\ 4 * Kilo < Word /\ \E k \in 0 .. Bits - 1 : 2 ^ k = 4 * Kilo
  /\ \A o \in Options : o.opt = "b" => o.arg.num \in Nat
  /\ \A i \in Images : i \in Seq(Nat)
  /\ \A f \in Old : f \in Seq({"old"} \X Nat)
  /\ MaxOptions \in Nat

VARIABLES
  pc,
  given,          \* history: the options so far
  par,            \* flash_block_size, version, magic_number, load_addr, entry_point
  image,          \* what in_fd reads, <<>> before it is opened
  in_fd, out_fd,
  file_buf, fbs,
  outfile, stdout

vars == <<pc, given, par, image, in_fd, out_fd, file_buf, fbs, outfile, stdout>>

Init ==
  /\ pc = "options" /\ given = <<>> /\ par = Default
  /\ image = <<>> /\ in_fd = -1 /\ out_fd = "stdout"
  /\ file_buf = <<>> /\ fbs = <<>>
  /\ outfile \in Old /\ stdout = <<>>

-----------------------------------------------------------------------------
(* Parsing.  A size is a number and what follows it; a version is a list of
   numbers, a number being bad if anything but '.' or the end follows it.     *)
Hangs == 0

BitsOf(n) == {bit \in 0 .. Bits - 1 : (n \div 2 ^ bit) % 2 = 1}

(* The first bit is looked for until it is found: there is none in 0.  Then
   there must not be another.                                                 *)
check_block_size(size) ==
  IF BitsOf(size) = {} THEN Hangs ELSE IF Cardinality(BitsOf(size)) = 1 THEN size ELSE Default.block

Unit(a)    == IF a.unit = "k" THEN Kilo ELSE IF a.unit = "m" THEN Kilo * Kilo ELSE 1
InBytes(a) == (a.num * Unit(a)) % Word

(* A slip: 0 is not taken care of.                                            *)
get_block_sizeUnchecked(a) ==
  IF a.unit \notin {"", "k", "m"} THEN Default.block ELSE check_block_size(InBytes(a))

get_block_size(a) ==
  IF a.num % Word = 0 \/ a.unit \notin {"", "k", "m"} THEN Default.block
  ELSE check_block_size(InBytes(a))

Or(m, n) == MapThenSumSet(LAMBDA bit : 2 ^ bit, BitsOf(m) \cup BitsOf(n))

(* Every number moves those before it up by a byte; one that is longer than a
   byte runs into them.                                                       *)
Pack(ns) == FoldLeft(LAMBDA v, n : Or((v * Radix) % Word, n % Word), 0, ns)
OrDefault(v, default) == IF v = 0 THEN default ELSE v

(* A bad number before the last is read again and again.                      *)
get_version(a) ==
  IF a.bad = 0 THEN OrDefault(Pack(a.nums), Default.version)
  ELSE IF a.bad < Len(a.nums) THEN Hangs ELSE Default.version

get_magic_num(a) == OrDefault(Pack(a.chars), Default.magic)
get_address(a)   == a.num % Word

-----------------------------------------------------------------------------
(* The options.                                                               *)
Take(o) == pc = "options" /\ Len(given) < MaxOptions /\ given' = Append(given, o)

Same == UNCHANGED <<image, in_fd, file_buf, fbs, outfile, stdout>>

Set(field, v) ==
  /\ IF v = Hangs THEN pc' = "hung" /\ UNCHANGED par
     ELSE par' = [par EXCEPT ![field] = v] /\ UNCHANGED pc
  /\ UNCHANGED out_fd /\ Same

SetNumber(field, v) == par' = [par EXCEPT ![field] = v] /\ UNCHANGED <<pc, out_fd>> /\ Same

Option(o) ==
  /\ Take(o)
  /\ \/ o.opt = "b" /\ Set("block", get_block_size(o.arg))
     \/ o.opt = "v" /\ Set("version", get_version(o.arg))
     \/ o.opt = "m" /\ SetNumber("magic", get_magic_num(o.arg))
     \/ o.opt = "l" /\ SetNumber("load", get_address(o.arg))
     \/ o.opt = "e" /\ SetNumber("entry", get_address(o.arg))
     \/ o.opt = "p" /\ UNCHANGED <<pc, par, out_fd>> /\ Same   \* get_pad_blocks: always 0

(* A file that cannot be opened is replaced by the standard output; one that is
   there is not emptied.                                                      *)
OutputOption(o) ==
  /\ Take(o) /\ o.opt = "o"
  /\ out_fd' \in {"outfile", "stdout"}
  /\ UNCHANGED <<pc, par>> /\ Same

Exit(status) == pc' = status /\ UNCHANGED <<par, out_fd>> /\ Same

(* An option that is not known, or that lacks its argument.                   *)
BadOption(o) == Take(o) /\ o.opt = "?" /\ Exit("failed")

InputFile(o) ==
  /\ Take(o) /\ o.opt = "input"
  /\ \/ /\ in_fd = -1 /\ in_fd' = 3 /\ image' \in Images
        /\ UNCHANGED <<pc, par, out_fd, file_buf, fbs, outfile, stdout>>
     \/ Exit("failed")   \* it cannot be opened, or is the second one

OptionsDone ==
  /\ pc = "options" /\ Exit(IF in_fd = -1 THEN "failed" ELSE "load")
  /\ UNCHANGED given

-----------------------------------------------------------------------------
(* The image.                                                                 *)
Bytes(kind, vs) == [i \in DOMAIN vs |-> <<kind, vs[i]>>]
Total(bytes)    == FoldLeft(LAMBDA s, b : (s + b[2]) % Word, 0, bytes)

(* The mask is a word of its own, and clears what lies above one.             *)
RoundUp(n, b) == (((n + b - 1) \div b) * b) % Word

(* What follows the image in a buffer of this size.  The index is an int: for
   a buffer of 2^31 bytes the loop that fills does nothing.                   *)
Padding(size) == IF size < Word \div 2 THEN <<"fill", 255>> ELSE <<"unset", 0>>

(* A file that one read does not bring is refused; one that is longer than its
   buffer is read over the end of it first.                                   *)
Load ==
  /\ pc = "load"
  /\ LET mem_to_get == RoundUp(Len(image), par.block)
         rest == [i \in 1 .. mem_to_get - Len(image) |-> Padding(mem_to_get)]
     IN  \/ /\ Len(image) <= Transfer /\ Len(image) <= mem_to_get
            /\ pc' = "sign" /\ file_buf' = Bytes("image", image) \o rest
         \/ pc' = "failed" /\ UNCHANGED file_buf
         \/ mem_to_get < Len(image) /\ pc' = "fault" /\ UNCHANGED file_buf
  /\ UNCHANGED <<given, par, image, in_fd, out_fd, fbs, outfile, stdout>>

(* fbs_fbs_version is left out: nothing sets it.  So is fbs_cksum, which is
   taken over its own low byte before that is set.  A buffer that has no room
   for the signature, of an empty file or of blocks smaller than it, is written
   in front of its beginning.                                                 *)
Sign ==
  /\ pc = "sign"
  /\ IF Len(file_buf) < Sig THEN pc' = "fault" /\ UNCHANGED <<file_buf, fbs>>
     ELSE LET room == Len(file_buf) - Sig
          IN  /\ fbs' = [magic |-> par.magic, length |-> Len(image), version |-> par.version,
                         image_cksum |-> Total(SubSeq(file_buf, 1, room)),
                         load_addr |-> par.load, entry_point |-> par.entry]
              /\ file_buf' = SubSeq(file_buf, 1, room) \o Bytes("sig", [j \in 1 .. Sig |-> 0])
              /\ pc' = "write"
  /\ UNCHANGED <<given, par, image, in_fd, out_fd, outfile, stdout>>

(* What a file holds after bytes have been written at its beginning.          *)
Over(bytes, old) == bytes \o SubSeq(old, Len(bytes) + 1, Len(old))

WriteOut(n) ==
  LET bytes == SubSeq(file_buf, 1, n)
  IN  IF out_fd = "stdout" THEN stdout' = bytes /\ UNCHANGED outfile
      ELSE outfile' = Over(bytes, outfile) /\ UNCHANGED stdout

(* A slip: a short write goes unnoticed.                                      *)
WriteUnchecked ==
  /\ pc = "write" /\ pc' = "done"
  /\ \E n \in {0, Len(file_buf) \div 2, Len(file_buf)} : WriteOut(n)
  /\ UNCHANGED <<given, par, image, in_fd, out_fd, file_buf, fbs>>

Write ==
  /\ pc = "write"
  /\ \/ pc' = "done" /\ Len(file_buf) <= Transfer /\ WriteOut(Len(file_buf))
     \/ pc' = "failed" /\ \E n \in {0, Len(file_buf) \div 2} : WriteOut(n)
  /\ UNCHANGED <<given, par, image, in_fd, out_fd, file_buf, fbs>>

Next ==
  \/ \E o \in Options : Option(o) \/ OutputOption(o) \/ BadOption(o) \/ InputFile(o)
  \/ OptionsDone \/ Load \/ Sign \/ Write

Spec == Init /\ [][Next]_vars /\ WF_vars(Next)

-----------------------------------------------------------------------------
Output == IF out_fd = "stdout" THEN stdout ELSE outfile

(* The output begins with a package of n bytes, whole blocks of a power of two,
   fewer than one more than the image needs: first the image, byte for byte and
   as far as it fits, then 0xff, and the signature in the last of the n; behind
   them is only what the file held before.  The checksum in the signature is
   that of everything in front of it.  This is what the code does, for every
   combination of options, sizes and failures.  The documents say otherwise in
   three points: the file is a multiple of the page (tools/README.md:28), which
   the end of an old file breaks; the checksum covers fbs_length bytes
   (package_signer.h:58, tools/README.md:93), and the code's takes in the
   filling; the image is all there, which is ImageKept.                        *)
SignedWhole ==
  pc = "done" =>
    /\ \E k \in 0 .. Bits - 1 : par.block = 2 ^ k
    /\ \E n \in 0 .. Len(Output) :
         /\ n % par.block = 0 /\ n \in Len(image) .. Len(image) + par.block - 1
         /\ \A i \in 1 .. n :
              Output[i] = IF i > n - Sig THEN <<"sig", 0>>
                          ELSE IF i > Len(image) THEN <<"fill", 255>> ELSE <<"image", image[i]>>
         /\ \A i \in n + 1 .. Len(Output) : Output[i][1] = "old"
         /\ fbs.image_cksum = Total(SubSeq(Output, 1, n - Sig))

(* "pads the image file to the flash page boundary, minus the size of the
   signature block, and appends the signature block" (tools/README.md:28): the
   whole image is in the package.                                             *)
ImageKept ==
  pc = "done" => \A i \in 1 .. Len(image) : Len(Output) >= i /\ Output[i] = <<"image", image[i]>>

(* The program ends, unless a block size was typed that is not 0 but a multiple
   of 2^32 once its unit is applied, or a version with something after a number
   that is not the last (package_signer.c:101, 149).                          *)
Loops(o) ==
  \/ o.opt = "b" /\ o.arg.num % Word # 0 /\ InBytes(o.arg) = 0
  \/ o.opt = "v" /\ o.arg.bad \in 1 .. Len(o.arg.nums) - 1
Ends == <>(pc \in {"done", "failed", "fault"} \/ \E i \in DOMAIN given : Loops(given[i]))
=============================================================================
