--------------------------- MODULE CmdList_proofs ---------------------------
(* Proofs about CmdList, for any set of commands with any words.            *)
EXTENDS CmdList, TLAPS

Closed(S, nx) == nx[cmd_list] \in S /\ \A m \in S \ {cmd_list, Null} : nx[m] \in S
WalkOf(nx)    == {n \in Nodes \cup {Null} :
                    \A S \in SUBSET (Nodes \cup {Null}) : Closed(S, nx) => n \in S}

(* Nothing points to a command that has not been added.                     *)
Untouched == \A n \in Nodes : next[n] \in Cmds => next[next[n]] # Null

ListInv == TypeOK /\ Untouched /\ WalkEnds /\ LinksAgree

(* list_add inserts the new node in the walk and loses none.                *)
LEMMA WalkAdd ==
  ASSUME NEW nx \in [Nodes -> Nodes \cup {Null}], NEW c \in Cmds,
         nx[cmd_list] # Null, nx[c] = Null, \A n \in Nodes : nx[n] # c
  PROVE  WalkOf([nx EXCEPT ![c] = nx[cmd_list], ![cmd_list] = c]) = WalkOf(nx) \cup {c}
<1> DEFINE ny == [nx EXCEPT ![c] = nx[cmd_list], ![cmd_list] = c]
           All == Nodes \cup {Null}
<1>0. /\ cmd_list \in Nodes /\ c \in Nodes /\ c # cmd_list /\ c # Null /\ cmd_list # Null
      /\ ny[cmd_list] = c /\ ny[c] = nx[cmd_list]
      /\ \A n \in Nodes \ {c, cmd_list} : ny[n] = nx[n]
  BY NodeAssumption DEF Nodes
<1> HIDE DEF ny
<1>1. ASSUME NEW S \in SUBSET All, Closed(S, nx)
      PROVE  Closed(S \cup {c}, ny)
  BY <1>1, <1>0 DEF Closed
<1>2. ASSUME NEW S \in SUBSET All, Closed(S, ny)
      PROVE  c \in S /\ Closed(S \ {c}, nx)
  <2>1. c \in S /\ nx[cmd_list] \in S \ {c}
    BY <1>2, <1>0 DEF Closed
  <2>2. ASSUME NEW m \in (S \ {c}) \ {cmd_list, Null}
        PROVE  nx[m] \in S \ {c}
    BY <1>2, <1>0 DEF Closed
  <2> QED BY <2>1, <2>2 DEF Closed
<1>3. WalkOf(ny) \subseteq WalkOf(nx) \cup {c}
  <2> SUFFICES ASSUME NEW n \in WalkOf(ny), n # c
               PROVE  n \in WalkOf(nx)
    OBVIOUS
  <2>1. ASSUME NEW S \in SUBSET All, Closed(S, nx)
        PROVE  n \in S
    <3>1. S \cup {c} \in SUBSET All /\ Closed(S \cup {c}, ny)
      BY <2>1, <1>1, <1>0
    <3> QED BY <3>1 DEF WalkOf
  <2> QED BY <2>1 DEF WalkOf
<1>4. WalkOf(nx) \cup {c} \subseteq WalkOf(ny)
  <2> SUFFICES ASSUME NEW n \in WalkOf(nx) \cup {c}, NEW S \in SUBSET All, Closed(S, ny)
               PROVE  n \in S
    BY <1>0 DEF WalkOf
  <2>1. c \in S /\ S \ {c} \in SUBSET All /\ Closed(S \ {c}, nx)
    BY <1>2
  <2> QED BY <2>1 DEF WalkOf
<1> QED BY <1>3, <1>4 DEF ny

(* The walk is closed: whatever it meets, it goes on from there.            *)
LEMMA WalkClosed ==
  ASSUME TypeOK
  PROVE  Closed(Walk, next)
<1>1. next[cmd_list] \in Nodes \cup {Null}
  BY DEF TypeOK, Nodes
<1>2. next[cmd_list] \in Walk
  BY <1>1 DEF Walk
<1>3. ASSUME NEW m \in Walk \ {cmd_list, Null}
      PROVE  next[m] \in Walk
  <2>1. m \in Nodes /\ next[m] \in Nodes \cup {Null}
    BY <1>3 DEF Walk, TypeOK
  <2> QED BY <1>3, <2>1 DEF Walk
<1> QED BY <1>2, <1>3 DEF Closed

(* The walk after each change.                                              *)
LEMMA WalkAfterInit ==
  ASSUME TypeOK, InitListHead
  PROVE  Walk' = {cmd_list}
<1>1. next'[cmd_list] = cmd_list
  BY DEF InitListHead, TypeOK, Nodes
<1>2. Walk' = WalkOf(next')
  BY DEF Walk, WalkOf, Closed
<1>3. {cmd_list} \in SUBSET (Nodes \cup {Null}) /\ Closed({cmd_list}, next')
  BY <1>1 DEF Closed, Nodes
<1>4. cmd_list \in WalkOf(next')
  BY <1>1 DEF WalkOf, Closed, Nodes
<1> QED BY <1>2, <1>3, <1>4 DEF WalkOf

LEMMA WalkAfterAdd ==
  ASSUME TypeOK, Untouched, next[cmd_list] # Null, NEW c \in Cmds, next[c] = Null, ListAdd(c)
  PROVE  Walk' = Walk \cup {c}
<1>1. \A n \in Nodes : next[n] # c
  BY DEF Untouched
<1>2. next' = [next EXCEPT ![c] = next[cmd_list], ![cmd_list] = c]
  BY DEF ListAdd
<1>3. WalkOf(next') = WalkOf(next) \cup {c}
  BY <1>1, <1>2, WalkAdd DEF TypeOK
<1> QED BY <1>3 DEF Walk, WalkOf, Closed

LEMMA ListedAfterAdd ==
  ASSUME TypeOK, Untouched, next[cmd_list] # Null, NEW c \in Cmds, next[c] = Null, ListAdd(c)
  PROVE  Listed' = Listed \cup {c} /\ c \notin Listed
<1>1. c # cmd_list /\ c # Null
  BY NodeAssumption
<1>2. c \notin Walk
  <2>1. next[c] = Null /\ \A n \in Nodes : next[n] # c
    BY DEF Untouched
  <2>2. Closed(Walk \ {c}, next)
    BY <2>1, <1>1, WalkClosed DEF Closed, Nodes, Walk
  <2>3. Walk \ {c} \in SUBSET (Nodes \cup {Null})
    BY DEF Walk
  <2>4. ASSUME c \in Walk PROVE c \in Walk \ {c}
    BY <2>2, <2>3, <2>4 DEF Walk, Closed
  <2> QED BY <2>4
<1> QED BY <1>1, <1>2, WalkAfterAdd DEF Listed

(* What list_add and INIT_LIST_HEAD preserve.                               *)
LEMMA ListInvInit == Init => ListInv
<1> SUFFICES ASSUME Init PROVE ListInv
  OBVIOUS
<1>1. TypeOK /\ next[cmd_list] = Null /\ \A n \in Nodes : next[n] = Null
  BY DEF Init, TypeOK, Nodes
<1>2. Untouched
  BY <1>1, NodeAssumption DEF Untouched
<1> QED BY <1>1, <1>2 DEF ListInv, WalkEnds, LinksAgree

LEMMA ListInvClear ==
  ASSUME ListInv, InitListHead
  PROVE  ListInv'
<1>1. /\ next' = [next EXCEPT ![cmd_list] = cmd_list] /\ prev' = [prev EXCEPT ![cmd_list] = cmd_list]
      /\ TypeOK /\ Untouched
      /\ cmd_list \in Nodes /\ cmd_list # Null
  BY NodeAssumption DEF InitListHead, ListInv, Nodes
<1>2. TypeOK'
  BY <1>1 DEF TypeOK
<1>3. Untouched'
  BY <1>1, NodeAssumption DEF Untouched, TypeOK, Nodes
<1>4. Walk' = {cmd_list}
  BY <1>1, WalkAfterInit DEF ListInv
<1>5. WalkEnds'
  BY <1>4, <1>1 DEF WalkEnds
<1>6. LinksAgree'
  <2>1. Listed' \cup {cmd_list} = {cmd_list}
    BY <1>4 DEF Listed
  <2>2. next'[cmd_list] = cmd_list /\ prev'[cmd_list] = cmd_list
    BY <1>1 DEF TypeOK
  <2> QED BY <2>1, <2>2 DEF LinksAgree
<1> QED BY <1>2, <1>3, <1>5, <1>6 DEF ListInv

LEMMA ListInvAdd ==
  ASSUME ListInv, next[cmd_list] # Null, NEW c \in Cmds, next[c] = Null, ListAdd(c)
  PROVE  ListInv'
<1>1. /\ c \in Nodes /\ cmd_list \in Nodes /\ c # cmd_list /\ c # Null /\ cmd_list # Null
      /\ TypeOK /\ Untouched /\ WalkEnds /\ LinksAgree
  BY NodeAssumption DEF ListInv, Nodes
<1> DEFINE first == next[cmd_list]
<1>2. first \in Nodes /\ first # c
  BY <1>1 DEF TypeOK, Untouched
<1>3. /\ next' = [next EXCEPT ![c] = first, ![cmd_list] = c]
      /\ prev' = [prev EXCEPT ![first] = c, ![c] = cmd_list]
  BY DEF ListAdd
<1>4. /\ next'[cmd_list] = c /\ next'[c] = first
      /\ \A n \in Nodes \ {c, cmd_list} : next'[n] = next[n]
      /\ prev'[c] = cmd_list /\ prev'[first] = c
      /\ \A n \in Nodes \ {c, first} : prev'[n] = prev[n]
  BY <1>1, <1>2, <1>3 DEF TypeOK
<1>5. Walk' = Walk \cup {c} /\ Listed' = Listed \cup {c}
  BY <1>1, WalkAfterAdd, ListedAfterAdd
<1>6. TypeOK'
  <2>1. next' \in [Nodes -> Nodes \cup {Null}] /\ prev' \in [Nodes -> Nodes \cup {Null}]
    BY <1>1, <1>2, <1>3 DEF TypeOK
  <2>2. next[first] # Null
    BY <1>1, <1>2 DEF Untouched, Nodes
  <2>3. ASSUME NEW n \in Nodes PROVE next'[n] = Null <=> prev'[n] = Null
    <3>1. CASE n = c
      BY <3>1, <1>1, <1>2, <1>4, NodeAssumption DEF Nodes
    <3>2. CASE n = cmd_list
      BY <3>2, <1>1, <1>2, <1>4 DEF TypeOK
    <3>3. CASE n = first /\ n # cmd_list
      BY <3>3, <1>1, <1>2, <1>4, <2>2
    <3>4. CASE n \notin {c, cmd_list, first}
      BY <3>4, <1>4, <1>1 DEF TypeOK
    <3> QED BY <3>1, <3>2, <3>3, <3>4
  <2> QED BY <2>1, <2>3 DEF TypeOK
<1>7. Untouched'
  <2> SUFFICES ASSUME NEW n \in Nodes, next'[n] \in Cmds
               PROVE  next'[next'[n]] # Null
    BY DEF Untouched
  <2>1. CASE n = cmd_list
    BY <2>1, <1>4, <1>2, NodeAssumption DEF Nodes
  <2>2. CASE n = c
    BY <2>2, <1>1, <1>2, <1>4 DEF Untouched
  <2>3. CASE n \notin {c, cmd_list}
    <3>1. next'[n] = next[n] /\ next[n] \in Nodes /\ next[n] # c /\ next[next[n]] # Null
      BY <2>3, <1>1, <1>4 DEF Untouched, Nodes
    <3> QED BY <3>1, <1>1, <1>4
  <2> QED BY <2>1, <2>2, <2>3
<1>8. WalkEnds'
  BY <1>1, <1>5 DEF WalkEnds
<1>9. LinksAgree'
  <2> SUFFICES ASSUME NEW n \in Listed \cup {c, cmd_list}
               PROVE  prev'[next'[n]] = n
    BY <1>5 DEF LinksAgree
  <2>1. CASE n = cmd_list
    BY <2>1, <1>4
  <2>2. CASE n = c
    BY <2>2, <1>4
  <2>3. CASE n \in Listed /\ n # c
    <3>1. n \in Nodes /\ n # cmd_list /\ next[n] \in Walk
      BY <2>3, <1>1, WalkClosed DEF Closed, Listed, Walk
    <3>2. next[n] \in Nodes
      BY <3>1, <1>1 DEF WalkEnds, Walk
    <3>3. prev[next[n]] = n /\ prev[first] = cmd_list
      BY <2>3, <1>1 DEF LinksAgree
    <3>4. next[n] # c /\ next[n] # first
      BY <3>1, <3>3, <1>1 DEF Untouched
    <3> QED BY <2>3, <3>1, <3>2, <3>3, <3>4, <1>4
  <2> QED BY <2>1, <2>2, <2>3
<1> QED BY <1>6, <1>7, <1>8, <1>9 DEF ListInv

(* Looking a word up tells whether a listed command answers to it.          *)
LEMMA FindNull ==
  ASSUME NEW w, Find(w) = Null
  PROVE  \A d \in Listed : w \notin Words(d)
<1>1. ASSUME Found(w) # {} PROVE FALSE
  <2>1. Find(w) \in Found(w)
    BY <1>1 DEF Find
  <2> QED BY <2>1 DEF Found, Listed
<1> QED BY <1>1 DEF Found

(* The two ways shell_add_cmd ends.                                         *)
LEMMA AddCases ==
  ASSUME ListInv, NEW c \in Cmds, AddCmd(c)
  PROVE  \/ UNCHANGED links
         \/ /\ next[cmd_list] # Null /\ next[c] = Null /\ ListAdd(c)
            /\ \A d \in Listed : Words(c) \cap Words(d) = {}
            /\ Listed' = Listed \cup {c} /\ c \notin Listed
<1> SUFFICES ASSUME ~ UNCHANGED links
             PROVE  /\ next[cmd_list] # Null /\ next[c] = Null /\ ListAdd(c)
                    /\ \A d \in Listed : Words(c) \cap Words(d) = {}
                    /\ Listed' = Listed \cup {c} /\ c \notin Listed
  OBVIOUS
<1>1. next[cmd_list] # Null /\ Valid(c) /\ New(c) /\ ListAdd(c)
  BY DEF AddCmd
<1>2. next[c] = Null
  BY <1>1 DEF Valid, Unlinked
<1>3. \A d \in Listed : Words(c) \cap Words(d) = {}
  BY <1>1, FindNull DEF New, Words
<1> QED BY <1>1, <1>2, <1>3, ListedAfterAdd DEF ListInv

LEMMA ListInvNext == ListInv /\ [Next]_links => ListInv'
<1> SUFFICES ASSUME ListInv, [Next]_links PROVE ListInv'
  OBVIOUS
<1>1. CASE InitListHead
  BY <1>1, ListInvClear
<1>2. ASSUME NEW c \in Cmds, AddCmd(c) PROVE ListInv'
  <2>1. CASE UNCHANGED links
    BY <2>1 DEF links, ListInv, TypeOK, Untouched, WalkEnds, LinksAgree, Walk, Listed
  <2> QED BY <1>2, <2>1, AddCases, ListInvAdd
<1>3. CASE UNCHANGED links
  BY <1>3 DEF links, ListInv, TypeOK, Untouched, WalkEnds, LinksAgree, Walk, Listed
<1> QED BY <1>1, <1>2, <1>3 DEF Next

LEMMA ListInvAlways == Spec => []ListInv
BY ListInvInit, ListInvNext, PTL DEF Spec

(* The two ends of every link of list.h agree, re-initialised or not.       *)
THEOREM ListLinks == Spec => []LinksAgree
BY ListInvAlways, PTL DEF ListInv

(* Links are nodes.                                                         *)
THEOREM ListTypes == Spec => []TypeOK
BY ListInvAlways, PTL DEF ListInv

(* A walk along the list ends at the head.                                  *)
THEOREM ListCorrect == Spec => []WalkEnds
BY ListInvAlways, PTL DEF ListInv

(* shell_find_cmd has at most one answer, for any commands and words.       *)
THEOREM FindUnambiguous == Spec => []OneAnswer
<1>1. Init => OneAnswer
  <2> SUFFICES ASSUME Init PROVE OneAnswer
    OBVIOUS
  <2>1. cmd_list \in Nodes /\ next[cmd_list] = Null
    BY DEF Init, Nodes
  <2>2. {Null} \in SUBSET (Nodes \cup {Null}) /\ next[cmd_list] \in {Null}
    BY <2>1
  <2>3. Walk \subseteq {Null}
    BY <2>2 DEF Walk
  <2> QED BY <2>3 DEF Listed, OneAnswer
<1>2. ListInv /\ OneAnswer /\ [Next]_links => OneAnswer'
  <2> SUFFICES ASSUME ListInv, OneAnswer, [Next]_links PROVE OneAnswer'
    OBVIOUS
  <2>1. CASE InitListHead
    BY <2>1, WalkAfterInit DEF ListInv, OneAnswer, Listed
  <2>2. CASE UNCHANGED links
    BY <2>2 DEF links, OneAnswer, Listed, Walk, Words
  <2>3. ASSUME NEW c \in Cmds, AddCmd(c), ~ UNCHANGED links PROVE OneAnswer'
    <3>1. /\ \A d \in Listed : Words(c) \cap Words(d) = {}
          /\ Listed' = Listed \cup {c}
      BY <2>3, AddCases
    <3> QED BY <3>1 DEF OneAnswer, Words
  <2> QED BY <2>1, <2>2, <2>3 DEF Next
<1> QED BY <1>1, <1>2, ListInvAlways, PTL DEF Spec

(* The list implements the registry of commands: what shell_add_cmd accepts *)
(* is a command not yet used whose words are free, and nothing else changes *)
(* what is known except shell_init, which forgets everything.               *)
THEOREM ListImplementsRegistry == Spec => RegistrySpec
<1> DEFINE used == {c \in Cmds : next[c] # Null}
<1>1. Init => R!Init
  <2> SUFFICES ASSUME Init PROVE Listed = {} /\ used = {}
    BY DEF R!Init
  <2>1. cmd_list \in Nodes /\ \A n \in Nodes : next[n] = Null
    BY DEF Init, Nodes
  <2>2. {Null} \in SUBSET (Nodes \cup {Null}) /\ next[cmd_list] \in {Null}
    BY <2>1
  <2>3. Walk \subseteq {Null}
    BY <2>2 DEF Walk
  <2> QED BY <2>1, <2>3 DEF Listed, Nodes
<1>2. ListInv /\ [Next]_links => [R!Next]_<<Listed, used>>
  <2> SUFFICES ASSUME ListInv, [Next]_links
               PROVE  R!Next \/ (Listed' = Listed /\ used' = used)
    OBVIOUS
  <2>1. CASE InitListHead
    <3>1. Listed' = {}
      BY <2>1, WalkAfterInit DEF ListInv, Listed
    <3>2. \A c \in Cmds : next'[c] = next[c]
      BY <2>1, NodeAssumption DEF InitListHead, ListInv, TypeOK, Nodes
    <3> QED BY <3>1, <3>2 DEF R!Next, R!Clear
  <2>2. CASE UNCHANGED links
    BY <2>2 DEF links, Listed, Walk
  <2>3. ASSUME NEW c \in Cmds, AddCmd(c), ~ UNCHANGED links
        PROVE  R!Register(c)
    <3>1. /\ next[cmd_list] # Null /\ next[c] = Null /\ ListAdd(c)
          /\ \A d \in Listed : Words(c) \cap Words(d) = {}
          /\ Listed' = Listed \cup {c}
      BY <2>3, AddCases
    <3>2. \A d \in Listed : R!Disjoint(c, d)
      BY <3>1 DEF R!Disjoint, Listed, Walk, Nodes
    <3>3. used' = used \cup {c}
      BY <3>1, NodeAssumption DEF ListAdd, ListInv, TypeOK, Nodes
    <3> QED BY <3>1, <3>2, <3>3 DEF R!Register
  <2> QED BY <2>1, <2>2, <2>3 DEF Next, R!Next
<1> QED BY <1>1, <1>2, ListInvAlways, PTL DEF Spec, RegistrySpec, R!Spec
=============================================================================
