----------------------------- MODULE AgentProofs -----------------------------
(***************************************************************************)
(* Theorems about Agent, for every set of disks, partitions and clients    *)
(* and any number of disturbances.                                         *)
(***************************************************************************)
EXTENDS Agent, TLAPS

USE AgentAssumption

-----------------------------------------------------------------------------
(* Type correctness *)

LEMMA WatchTyped ==
  ASSUME TypeOK, Watch, osdParts' \subseteq Parts
  PROVE  stayed' \subseteq Parts /\ seen' \subseteq Parts
BY DEF TypeOK, Watch, Readable

LEMMA CloseTyped ==
  ASSUME TypeOK, NEW c \in Clients, Close(c), UNCHANGED budget \/ budget' \in Nat
  PROVE  TypeOK'
BY DEF TypeOK, Close, host, poll

LEMMA PollTyped ==
  ASSUME TypeOK, Poll
  PROVE  TypeOK'
<1> USE DEF TypeOK, host, request, history
<1>1. CASE GetDisks \/ GetEmptyDisks
  BY <1>1 DEF GetDisks, GetEmptyDisks
<1>2. CASE ListPartitions
  BY <1>2 DEF ListPartitions, Present, Readable
<1>3. CASE AnswerOsds \/ UpdateStatus
  BY <1>3 DEF AnswerOsds, UpdateStatus
<1>4. ASSUME NEW p \in Parts, ReadSuperblock(p) PROVE TypeOK'
  BY <1>4 DEF ReadSuperblock, RestAfter
<1> QED
  BY <1>1, <1>2, <1>3, <1>4 DEF Poll

LEMMA PrepareTyped ==
  ASSUME TypeOK, NEW c \in Clients, Prepare(c)
  PROVE  TypeOK'
<1>1. CASE Refuse(c) \/ ToolGivesUp(c) \/ Answer(c)
  BY <1>1, CloseTyped DEF Refuse, ToolGivesUp, Answer
<1>2. CASE StartTool(c)
  BY <1>2 DEF StartTool, TypeOK, host, poll, history
<1>3. CASE Partition(c)
  <2>1. PICK s \in Room(c) : parts' = parts \cup s /\ made' = [made EXCEPT ![c] = s]
    BY <1>3 DEF Partition
  <2>2. s \subseteq Parts
    BY <2>1 DEF Room
  <2> QED
    BY <1>3, <2>1, <2>2, WatchTyped DEF Partition, TypeOK, poll
<1>4. CASE Format(c)
  <2>1. PICK p \in made[c] :
          osdParts' = osdParts \cup {p} /\ made' = [made EXCEPT ![c] = @ \ {p}]
    BY <1>4 DEF Format
  <2>2. osdParts' \subseteq Parts /\ made' \in [Clients -> SUBSET Parts]
    BY <2>1 DEF TypeOK
  <2> QED
    BY <1>4, <2>2, WatchTyped DEF Format, TypeOK, poll
<1> QED
  BY <1>1, <1>2, <1>3, <1>4 DEF Prepare

LEMMA EnvironmentTyped ==
  ASSUME TypeOK, Environment
  PROVE  TypeOK'
<1>0. budget' \in Nat
  <2>1. \A kind : Disturb(kind) => budget' \in Nat
    BY DEF Disturb, TypeOK
  <2> QED
    BY <2>1 DEF Environment, Plug, Unplug, Wipe, Post, ToolFails, ReadFails, Crash
<1>1. ASSUME NEW d \in Disks, Plug(d) \/ Unplug(d) \/ Wipe(d) PROVE TypeOK'
  <2>1. plugged' \subseteq Disks /\ parts' \subseteq Parts /\ osdParts' \subseteq Parts
    BY <1>1 DEF Plug, Unplug, Wipe, TypeOK
  <2>2. Watch /\ UNCHANGED <<poll, request, overlap>>
    BY <1>1 DEF Plug, Unplug, Wipe
  <2> QED
    BY <1>0, <2>1, <2>2, WatchTyped DEF TypeOK, poll, request
<1>2. ASSUME NEW d \in Disks, NEW c \in Clients, NEW n \in 1..Cardinality(Parts), Post(c, d, n)
      PROVE  TypeOK'
  <2>1. n \in Nat
    OBVIOUS
  <2>2. empty' \in [Clients -> BOOLEAN]
    BY <1>2 DEF Post, TypeOK, NoChildren
  <2>3. overlap' \in [Clients -> BOOLEAN]
    BY <1>2 DEF Post, TypeOK, Open
  <2> QED
    BY <1>0, <1>2, <2>1, <2>2, <2>3 DEF Post, TypeOK, host, poll
<1>3. ASSUME NEW c \in Clients, ToolFails(c) PROVE TypeOK'
  BY <1>0, <1>3, CloseTyped DEF ToolFails
<1>4. ASSUME NEW p \in Parts, ReadFails(p) PROVE TypeOK'
  BY <1>0, <1>4 DEF ReadFails, RestAfter, TypeOK, host, request
<1>5. CASE Crash
  BY <1>0, <1>5 DEF Crash, TypeOK, host
<1> QED
  BY <1>1, <1>2, <1>3, <1>4, <1>5 DEF Environment

LEMMA InitTyped == Init => TypeOK
BY DEF Init, TypeOK

LEMMA StepTyped == TypeOK /\ [Next]_vars => TypeOK'
<1> SUFFICES ASSUME TypeOK, [Next]_vars PROVE TypeOK'
  OBVIOUS
<1>1. CASE UNCHANGED vars
  BY <1>1 DEF vars, host, poll, request, history, TypeOK
<1>2. CASE Next
  BY <1>2, PollTyped, PrepareTyped, EnvironmentTyped DEF Next
<1> QED
  BY <1>1, <1>2

\* The agent's loop and its requests keep the types of their variables.
THEOREM TypeCorrect == Spec => []TypeOK
BY InitTyped, StepTyped, PTL DEF Spec

-----------------------------------------------------------------------------
(* The answer of GET /disk/osd.  While the loop runs, an OSD partition that has
   been readable all the time is in the answer or still to be read, and all that
   is readable has been seen. *)

Reading ==
    asked = "osd" =>
      /\ stayed \subseteq osdInfo \cup unread /\ stayed \subseteq Readable
      /\ osdInfo \subseteq seen /\ Readable \subseteq seen

AnswerInv == Reading /\ AnswerBounded

\* A step of the host, with the loop where it is.
LEMMA WatchedAnswer ==
  ASSUME AnswerInv, Watch, UNCHANGED poll
  PROVE  AnswerInv'
BY DEF AnswerInv, Reading, AnswerBounded, Watch, poll

\* A step that neither the loop nor the host takes.
LEMMA OtherAnswer ==
  ASSUME AnswerInv, UNCHANGED <<poll, stayed, seen, host>>
  PROVE  AnswerInv'
BY DEF AnswerInv, Reading, AnswerBounded, poll, host, Readable, Present

LEMMA PollAnswer ==
  ASSUME AnswerInv, Poll
  PROVE  AnswerInv'
<1> USE DEF AnswerInv, Reading, AnswerBounded
<1>1. ASSUME NEW p \in Parts, ReadSuperblock(p) PROVE AnswerInv'
  <2>1. UNCHANGED <<asked, stayed, seen, Readable>> /\ asked = "osd"
    BY <1>1 DEF ReadSuperblock, host, history, Readable, Present
  <2>2. \/ p \in Readable /\ osdInfo' = osdInfo \cup {p} /\ unread' = unread \ {p}
        \/ p \notin Readable /\ osdInfo' = osdInfo /\ unread' = unread \ {p}
    BY <1>1 DEF ReadSuperblock, RestAfter
  <2> QED
    BY <2>1, <2>2
<1>2. CASE ListPartitions
  BY <1>2 DEF ListPartitions, Readable, Present, host
<1>3. CASE GetDisks \/ GetEmptyDisks \/ AnswerOsds \/ UpdateStatus
  BY <1>3 DEF GetDisks, GetEmptyDisks, AnswerOsds, UpdateStatus, history
<1> QED
  BY <1>1, <1>2, <1>3 DEF Poll

LEMMA StepAnswer ==
  ASSUME AnswerInv, [Next]_vars
  PROVE  AnswerInv'
<1>1. ASSUME NEW c \in Clients, Prepare(c) PROVE AnswerInv'
  <2>1. CASE Partition(c) \/ Format(c)
    BY <2>1, WatchedAnswer DEF Partition, Format
  <2>2. CASE Refuse(c) \/ ToolGivesUp(c) \/ Answer(c)
    BY <2>2, OtherAnswer DEF Refuse, ToolGivesUp, Answer, Close
  <2>3. CASE StartTool(c)
    BY <2>3, OtherAnswer DEF StartTool, history
  <2> QED
    BY <1>1, <2>1, <2>2, <2>3 DEF Prepare
<1>2. CASE Environment
  <2>1. ASSUME NEW d \in Disks, Plug(d) \/ Unplug(d) \/ Wipe(d) PROVE AnswerInv'
    BY <2>1, WatchedAnswer DEF Plug, Unplug, Wipe
  <2>2. ASSUME NEW c \in Clients, ToolFails(c) \/ \E d \in Disks : \E n \in 1..Cardinality(Parts) : Post(c, d, n)
        PROVE  AnswerInv'
    BY <2>2, OtherAnswer DEF ToolFails, Close, Post
  <2>3. ASSUME NEW p \in Parts, ReadFails(p) PROVE AnswerInv'
    BY <2>3 DEF ReadFails, RestAfter, host, AnswerInv, Reading, AnswerBounded, Readable, Present
  <2>4. CASE Crash
    BY <2>4 DEF Crash, AnswerInv, Reading, AnswerBounded
  <2> QED
    BY <1>2, <2>1, <2>2, <2>3, <2>4 DEF Environment
<1>3. CASE UNCHANGED vars
  BY <1>3, OtherAnswer DEF vars, history
<1> QED
  BY <1>1, <1>2, <1>3, PollAnswer DEF Next

\* The answer about OSDs has every partition that could be read throughout, and
\* none that could not be read at some time, whatever is plugged, wiped or prepared
\* while the loop awaits.
THEOREM AnswersAreBounded == Spec => []AnswerBounded
<1>1. Init => AnswerInv
  BY DEF Init, AnswerInv, Reading, AnswerBounded
<1>2. AnswerInv => AnswerBounded
  BY DEF AnswerInv
<1> QED
  BY <1>1, <1>2, StepAnswer, PTL DEF Spec

-----------------------------------------------------------------------------
(* Who prepares a disk.  A request that has seen no partitions, and met no other
   for the same disk since, is right: only a request makes partitions. *)

ClashInv ==
    \A c \in Clients : pc[c] = "decide" /\ ~overlap[c] =>
      /\ empty[c] => Children(device[c]) = {}
      /\ \A b \in Clients \ {c} : ~Open(b, device[c])

\* A step that makes no partition, opens no request and decides none.
LEMMA QuietClash ==
  ASSUME TypeOK, ClashInv, parts' \subseteq parts,
         \A c \in Clients :
           \/ pc'[c] = "idle"
           \/ /\ pc'[c] # "idle" => pc[c] # "idle"
              /\ pc'[c] = "decide" => pc[c] = "decide"
              /\ device'[c] = device[c] /\ empty'[c] = empty[c] /\ overlap'[c] = overlap[c]
  PROVE  ClashInv'
BY DEF ClashInv, Open, Children

LEMMA CloseClash ==
  ASSUME TypeOK, ClashInv, NEW c \in Clients, Close(c)
  PROVE  ClashInv'
BY QuietClash DEF TypeOK, Close, host

LEMMA StepClash ==
  ASSUME TypeOK, ClashInv, [Next]_vars
  PROVE  ClashInv'
<1>1. CASE UNCHANGED <<parts, pc, device, empty, overlap>>
  BY <1>1, QuietClash DEF TypeOK
<1>2. ASSUME NEW c \in Clients, Prepare(c) PROVE ClashInv'
  <2>1. CASE Refuse(c) \/ ToolGivesUp(c) \/ Answer(c)
    BY <2>1, CloseClash DEF Refuse, ToolGivesUp, Answer
  <2>2. CASE StartTool(c)
    BY <2>2, QuietClash DEF StartTool, TypeOK, host, history
  <2>3. CASE Partition(c)
    <3>1. PICK s \in Room(c) : parts' = parts \cup s
      BY <2>3 DEF Partition
    <3>2. /\ pc[c] = "tool" /\ UNCHANGED <<device, empty, overlap>>
          /\ pc' = [pc EXCEPT ![c] = "format"]
      BY <2>3 DEF Partition
    <3>3. \A b \in Clients \ {c} : pc[b] = "decide" /\ ~overlap[b] => device[b] # device[c]
      BY <3>2 DEF ClashInv, Open
    <3>4. \A b \in Clients : device[b] # device[c] => Children(device[b])' = Children(device[b])
      BY <3>1, <3>2 DEF Children, Room
    <3> QED
      BY <3>2, <3>3, <3>4 DEF ClashInv, Open, TypeOK
  <2>4. CASE Format(c)
    BY <2>4, QuietClash DEF Format, TypeOK
  <2> QED
    BY <1>2, <2>1, <2>2, <2>3, <2>4 DEF Prepare
<1>3. ASSUME NEW d \in Disks, NEW c \in Clients, NEW n \in 1..Cardinality(Parts), Post(c, d, n)
      PROVE  ClashInv'
  <2>1. /\ pc[c] = "idle" /\ pc' = [pc EXCEPT ![c] = "decide"]
        /\ device' = [device EXCEPT ![c] = d] /\ empty' = [empty EXCEPT ![c] = NoChildren(d)]
        /\ UNCHANGED parts
    BY <1>3 DEF Post, host
  <2>2. /\ ~overlap'[c] => \A b \in Clients \ {c} : ~Open(b, d)
        /\ \A b \in Clients \ {c} : pc[b] = "decide" /\ ~overlap'[b] => device[b] # d /\ ~overlap[b]
    BY <1>3 DEF Post
  <2>3. empty'[c] => Children(d) = {}
    BY <2>1 DEF TypeOK, NoChildren
  <2> QED
    BY <2>1, <2>2, <2>3 DEF ClashInv, Open, Children, TypeOK
<1>4. CASE Environment
  <2>1. ASSUME NEW d \in Disks, Plug(d) \/ Unplug(d) \/ Wipe(d) PROVE ClashInv'
    BY <2>1, QuietClash DEF Plug, Unplug, Wipe, request, TypeOK
  <2>2. ASSUME NEW c \in Clients, ToolFails(c) PROVE ClashInv'
    BY <2>2, CloseClash DEF ToolFails
  <2>3. ASSUME NEW p \in Parts, ReadFails(p) PROVE ClashInv'
    BY <2>3, <1>1 DEF ReadFails, host, request
  <2>4. CASE Crash
    BY <2>4, QuietClash DEF Crash, host
  <2> QED
    BY <1>3, <1>4, <2>1, <2>2, <2>3, <2>4 DEF Environment
<1>5. CASE Poll \/ UNCHANGED vars
  BY <1>1, <1>5 DEF Poll, GetDisks, GetEmptyDisks, ListPartitions, ReadSuperblock, AnswerOsds,
                    UpdateStatus, vars, host, request, history
<1> QED
  BY <1>2, <1>4, <1>5 DEF Next

\* vitastor-disk prepare meets partitions only where two requests overlapped: the
\* test that a request makes before it awaits the tool is enough against every
\* request before it, however that one ended.
THEOREM ClashesNeedOverlap == Spec => ClashNeedsOverlap
<1>1. Init => ClashInv
  BY DEF Init, ClashInv
<1>2. ASSUME TypeOK, ClashInv, [Next]_vars, NEW c \in Clients,
             pc[c] = "decide", pc'[c] = "tool", ~overlap[c]
      PROVE  Children(device[c]) = {}
  <2>1. empty[c]
    <3>1. CASE Poll \/ UNCHANGED vars
      BY <1>2, <3>1 DEF Poll, GetDisks, GetEmptyDisks, ListPartitions, ReadSuperblock, AnswerOsds,
                        UpdateStatus, vars, request
    <3>2. CASE Environment
      BY <1>2, <3>2 DEF Environment, Plug, Unplug, Wipe, Post, ToolFails, ReadFails, Crash, Close, request, TypeOK
    <3>3. ASSUME NEW b \in Clients, Prepare(b) PROVE empty[c]
      BY <1>2, <3>3 DEF Prepare, Refuse, StartTool, Partition, Format, ToolGivesUp, Answer, Close, TypeOK
    <3> QED
      BY <1>2, <3>1, <3>2, <3>3 DEF Next
  <2> QED
    BY <1>2, <2>1 DEF ClashInv
<1>3. TypeOK /\ ClashInv /\ [Next]_vars =>
        \A c \in Clients : pc[c] = "decide" /\ pc'[c] = "tool" /\ Children(device[c]) # {} => overlap[c]
  BY <1>2
<1>4. TypeOK /\ ClashInv /\ [Next]_vars => ClashInv'
  BY StepClash
<1> QED
  BY <1>1, <1>3, <1>4, TypeCorrect, PTL DEF Spec, ClashNeedsOverlap
=============================================================================
