------------------------------ MODULE CmdList -------------------------------
(***************************************************************************)
(* The command list of the shell: the circular list of list.h, with the    *)
(* head cmd_list, and shell_init and shell_add_cmd on it.  A link that was *)
(* never set is Null, as the initialisers {0, 0} leave it.                 *)
(***************************************************************************)
EXTENDS Naturals

CONSTANTS
  Cmds,      \* the Shell_cmd structures of the program
  Cmd,       \* their fields
  cmd_list,  \* the list head
  Null,      \* the null pointer
  MaxArgs    \* CMD_BUF_NARGS

ASSUME ArgsAssumption == MaxArgs \in Nat /\ MaxArgs > 0
ASSUME NodeAssumption == cmd_list \notin Cmds /\ Null \notin Cmds /\ cmd_list # Null

VARIABLES next, prev

links == <<next, prev>>
Nodes == Cmds \cup {cmd_list}

(* What list_for_each_entry meets: everything reached from the head.        *)
Walk ==
  {n \in Nodes \cup {Null} :
     \A S \in SUBSET (Nodes \cup {Null}) :
        (next[cmd_list] \in S /\ \A m \in S \ {cmd_list, Null} : next[m] \in S) => n \in S}

Listed == Walk \ {cmd_list, Null}

(* The words a command answers to.                                          *)
Words(c) == {Cmd[c].name, Cmd[c].abrev}

Found(w) == {c \in Listed : w \in Words(c)}
Find(w)  == IF Found(w) = {} THEN Null ELSE CHOOSE c \in Found(w) : TRUE

Init ==
  /\ next = [n \in Nodes |-> Null]
  /\ prev = [n \in Nodes |-> Null]

InitListHead ==
  /\ next' = [next EXCEPT ![cmd_list] = cmd_list]
  /\ prev' = [prev EXCEPT ![cmd_list] = cmd_list]

(* Slips: the old first node keeps pointing back to the head; the new node
   is not given its prev; the head is changed before it is copied.          *)
ListAddOneWay(c) ==
  /\ prev' = [prev EXCEPT ![c] = cmd_list]
  /\ next' = [next EXCEPT ![c] = next[cmd_list], ![cmd_list] = c]

ListAddHalf(c) ==
  /\ prev' = [prev EXCEPT ![next[cmd_list]] = c]
  /\ next' = [next EXCEPT ![c] = next[cmd_list], ![cmd_list] = c]

ListAddSwapped(c) ==
  /\ prev' = [prev EXCEPT ![next[cmd_list]] = c, ![c] = cmd_list]
  /\ next' = [next EXCEPT ![c] = c, ![cmd_list] = c]

ListAdd(c) ==
  /\ prev' = [prev EXCEPT ![next[cmd_list]] = c, ![c] = cmd_list]
  /\ next' = [next EXCEPT ![c] = next[cmd_list], ![cmd_list] = c]


(* A slip: the links are not checked.                                       *)
UnlinkedUnchecked(c) == c \in Cmds

Unlinked(c) == next[c] = Null /\ prev[c] = Null

(* The bounds of sc_min and sc_max; a slip that wants them different.       *)
CountsStrict(c) == Cmd[c].min < Cmd[c].max /\ Cmd[c].max <= MaxArgs

Counts(c) == /\ Cmd[c].min <= Cmd[c].max
             /\ Cmd[c].min <= MaxArgs /\ Cmd[c].max <= MaxArgs

WellFormed(c) ==
  /\ Null \notin {Cmd[c].name, Cmd[c].abrev, Cmd[c].help, Cmd[c].func}
  /\ Counts(c)

Valid(c) == Unlinked(c) /\ WellFormed(c)

(* A slip: only the long name is looked up.                                 *)
NewByName(c) == Find(Cmd[c].name) = Null

New(c) == Find(Cmd[c].name) = Null /\ Find(Cmd[c].abrev) = Null

(* shell_add_cmd; the callers ignore the error it returns.  It is called
   after the list has been initialised.                                     *)
AddCmd(c) ==
  /\ next[cmd_list] # Null
  /\ IF Valid(c) /\ New(c) THEN ListAdd(c) ELSE UNCHANGED links

Next == InitListHead \/ \E c \in Cmds : AddCmd(c)
Spec == Init /\ [][Next]_links

-----------------------------------------------------------------------------
(* Links are nodes or null, and no node is half linked: it has both links
   or neither, which is what validate_cmd tells added commands by.          *)
TypeOK ==
  /\ next \in [Nodes -> Nodes \cup {Null}]
  /\ prev \in [Nodes -> Nodes \cup {Null}]
  /\ \A n \in Nodes : next[n] = Null <=> prev[n] = Null

(* Every walk of the list comes back to the head and meets no null pointer,
   so list_for_each_entry ends and dereferences nothing it must not, also
   when the list has been initialised again over commands already linked.   *)
WalkEnds == next[cmd_list] # Null => cmd_list \in Walk /\ Null \notin Walk

(* No two listed commands answer to the same word, be it name or
   abbreviation: shell_find_cmd has one answer whatever the order.          *)
OneAnswer == \A c, d \in Listed : c # d => Words(c) \cap Words(d) = {}

(* The two directions of the list agree (list.h).                           *)
LinksAgree ==
  next[cmd_list] # Null => \A n \in Listed \cup {cmd_list} : prev[next[n]] = n

(* The list is a registry: shell_init clears it, shell_add_cmd registers,
   and a command linked once is never registered again.                     *)
R == INSTANCE Registry WITH Answers <- [c \in Cmds |-> Words(c)],
                            known   <- Listed,
                            used    <- {c \in Cmds : next[c] # Null}
RegistrySpec == R!Spec
=============================================================================
