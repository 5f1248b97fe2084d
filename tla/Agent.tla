-------------------------------- MODULE Agent --------------------------------
(***************************************************************************)
(* The agent of one host (agent/vitastor-agent.py) and those who talk to   *)
(* it: the VitastorNode controller asks for disks, empty disks and OSDs    *)
(* and copies the answers into the VitastorNode's status, users post       *)
(* /disk/prepare.  The agent is one asyncio loop: between two awaits a     *)
(* request runs alone, at an await the others run, and so do the tools.    *)
(*                                                                         *)
(* An action is what happens from one await to the next.  A tool that only *)
(* looks (lsblk, read-sb) is a look at the host; `vitastor-disk prepare`   *)
(* takes several steps of its own.                                         *)
(***************************************************************************)
EXTENDS FiniteSets, Naturals

CONSTANTS
    Disks,          \* block devices of lsblk's type "disk"
    Nbd,            \* the ones that are mapped volumes (/dev/nbd...)
    Parts,          \* partitions there can be
    DiskOf,         \* DiskOf[p]: the disk of p
    None,           \* no disk
    Clients,        \* users' requests that can be open at a time
    Disturbances,   \* the kinds of disturbance a run allows ...
    MaxDisturb      \* ... and how many of them happen in one behaviour

Kinds == {"prepare", "plug", "unplug", "wipe", "toolfail", "readsb", "crash"}

ASSUME AgentAssumption ==
    /\ Nbd \subseteq Disks
    /\ None \notin Disks
    /\ IsFiniteSet(Parts) /\ DiskOf \in [Parts -> Disks]
    /\ Disturbances \subseteq Kinds
    /\ MaxDisturb \in Nat

VARIABLES
    plugged,        \* the disks that are there
    parts,          \* the partitions made so far, plugged in or not
    osdParts,       \* the ones with a Vitastor superblock
    \* the VitastorNode controller's three questions
    asked,          \* the answer it waits for
    systemDisks, emptyDisks,    \* the first two answers
    unread,         \* partitions that were listed and not looked at yet
    osdInfo,        \* the third answer so far
    status,         \* the lists in the VitastorNode's status
    \* POST /disk/prepare, by client
    pc,
    device,         \* device.disk
    osdNum,         \* device.osd_num
    empty,          \* children is None, when lsblk looked
    made,           \* partitions the tool made and has not formatted yet
    \* bookkeeping of the model
    stayed, seen,   \* history: the OSD partitions that were readable all the
                    \* time, or at some time, since the third question
    overlap,        \* history: another request for the device was open
                    \* between the look of this one and its decision
    budget

host    == <<plugged, parts, osdParts>>
poll    == <<asked, systemDisks, emptyDisks, unread, osdInfo, status>>
request == <<pc, device, osdNum, empty, made>>
history == <<stayed, seen, overlap>>
vars    == <<host, poll, request, history, budget>>

TypeOK ==
    /\ plugged \subseteq Disks /\ parts \subseteq Parts /\ osdParts \subseteq Parts
    /\ asked \in {"none", "disks", "empty", "osd", "status"}
    /\ systemDisks \subseteq Disks /\ emptyDisks \subseteq Disks
    /\ unread \subseteq Parts /\ osdInfo \subseteq Parts
    /\ status \in [disks: SUBSET Disks, emptyDisks: SUBSET Disks, vitastorDisks: SUBSET Parts]
    /\ pc \in [Clients -> {"idle", "decide", "tool", "format"}]
    /\ device \in [Clients -> Disks \cup {None}] /\ osdNum \in [Clients -> Nat]
    /\ empty \in [Clients -> BOOLEAN] /\ made \in [Clients -> SUBSET Parts]
    /\ stayed \subseteq Parts /\ seen \subseteq Parts /\ overlap \in [Clients -> BOOLEAN]
    /\ budget \in Nat

-----------------------------------------------------------------------------
(* What lsblk, /dev/disk/by-partuuid and read-sb show *)

Children(d) == {p \in parts : DiskOf[p] = d}
Present == {p \in parts : DiskOf[p] \in plugged}
Readable == Present \cap osdParts

\* Mutant: only a partition with a superblock counts.
NoOsd(d) == Children(d) \cap osdParts = {}

\* disk.children is None.
NoChildren(d) == Children(d) = {}

\* The histories follow a change of the host while the third question is open.
Watch ==
    /\ stayed' = IF asked = "osd" THEN stayed \cap Readable' ELSE stayed
    /\ seen' = IF asked = "osd" THEN seen \cup Readable' ELSE seen

-----------------------------------------------------------------------------
(* The three questions *)

\* GET /disk and GET /disk/empty: one look each, filtered.
GetDisks ==
    /\ asked = "none"
    /\ asked' = "disks"
    /\ systemDisks' = plugged
    /\ UNCHANGED <<host, emptyDisks, unread, osdInfo, status, request, history, budget>>

GetEmptyDisks ==
    /\ asked = "disks"
    /\ asked' = "empty"
    /\ emptyDisks' = {d \in plugged \ Nbd : NoChildren(d)}
    /\ UNCHANGED <<host, systemDisks, unread, osdInfo, status, request, history, budget>>

\* GET /disk/osd: list the partitions once ...
ListPartitions ==
    /\ asked = "empty"
    /\ asked' = "osd"
    /\ unread' = Present
    /\ osdInfo' = {}
    /\ stayed' = Readable /\ seen' = Readable
    /\ UNCHANGED <<host, systemDisks, emptyDisks, status, request, overlap, budget>>

\* Mutant: the loop ends at a partition that has no superblock.
RestAfterFirst(p) == {}

\* "continue": the loop goes on after a partition that has no superblock.
RestAfter(p) == unread \ {p}

\* ... then look for a superblock on each, with an await in between.
ReadSuperblock(p) ==
    /\ asked = "osd" /\ p \in unread
    /\ IF p \in Readable
       THEN osdInfo' = osdInfo \cup {p} /\ unread' = unread \ {p}
       ELSE unread' = RestAfter(p) /\ UNCHANGED osdInfo
    /\ UNCHANGED <<host, asked, systemDisks, emptyDisks, status, request, history, budget>>

AnswerOsds ==
    /\ asked = "osd" /\ unread = {}
    /\ asked' = "status"
    /\ UNCHANGED <<host, systemDisks, emptyDisks, unread, osdInfo, status, request, history, budget>>

\* Mutant: the last comparison sets nodeStatusUpdated to what it found.
NodeStatusUpdatedByLast == osdInfo # status.vitastorDisks

NodeStatusUpdated ==
    \/ systemDisks # status.disks
    \/ emptyDisks # status.emptyDisks
    \/ osdInfo # status.vitastorDisks

UpdateStatus ==
    /\ asked = "status"
    /\ status' = IF NodeStatusUpdated
                 THEN [disks |-> systemDisks, emptyDisks |-> emptyDisks, vitastorDisks |-> osdInfo]
                 ELSE status
    /\ asked' = "none"
    /\ systemDisks' = {} /\ emptyDisks' = {} /\ osdInfo' = {} /\ stayed' = {} /\ seen' = {}
    /\ UNCHANGED <<host, unread, request, overlap, budget>>

Poll ==
    \/ GetDisks \/ GetEmptyDisks \/ ListPartitions \/ AnswerOsds \/ UpdateStatus
    \/ \E p \in Parts : ReadSuperblock(p)

-----------------------------------------------------------------------------
(* POST /disk/prepare *)

\* The request is answered.
Close(c) ==
    /\ pc' = [pc EXCEPT ![c] = "idle"]
    /\ device' = [device EXCEPT ![c] = None] /\ osdNum' = [osdNum EXCEPT ![c] = 0]
    /\ empty' = [empty EXCEPT ![c] = FALSE] /\ made' = [made EXCEPT ![c] = {}]
    /\ overlap' = [overlap EXCEPT ![c] = FALSE]
    /\ UNCHANGED <<host, poll, stayed, seen>>

\* "That disk already partitioned": 409.
Refuse(c) ==
    /\ pc[c] = "decide" /\ ~empty[c]
    /\ Close(c)
    /\ UNCHANGED budget

StartTool(c) ==
    /\ pc[c] = "decide" /\ empty[c]
    /\ pc' = [pc EXCEPT ![c] = "tool"]
    /\ UNCHANGED <<host, poll, device, osdNum, empty, made, history, budget>>

\* What vitastor-disk needs: the disk, and room for the partitions.
Room(c) == {s \in SUBSET {p \in Parts \ parts : DiskOf[p] = device[c]} : Cardinality(s) = osdNum[c]}

\* It partitions the disk ...
Partition(c) ==
    /\ pc[c] = "tool" /\ device[c] \in plugged
    /\ \E s \in Room(c) : parts' = parts \cup s /\ made' = [made EXCEPT ![c] = s]
    /\ pc' = [pc EXCEPT ![c] = "format"]
    /\ UNCHANGED <<plugged, osdParts, poll, device, osdNum, empty, overlap, budget>>
    /\ Watch

\* ... and writes a superblock on each partition.
Format(c) ==
    /\ pc[c] = "format" /\ device[c] \in plugged
    /\ \E p \in made[c] :
         /\ osdParts' = osdParts \cup {p}
         /\ made' = [made EXCEPT ![c] = @ \ {p}]
    /\ UNCHANGED <<plugged, parts, poll, pc, device, osdNum, empty, overlap, budget>>
    /\ Watch

\* It ends with an error without a disk or room: 500, and what it did stays.
ToolGivesUp(c) ==
    /\ pc[c] \in {"tool", "format"}
    /\ device[c] \notin plugged \/ (pc[c] = "tool" /\ Room(c) = {})
    /\ Close(c)
    /\ UNCHANGED budget

\* It succeeds: the request looks at the new partitions and answers.
Answer(c) ==
    /\ pc[c] = "format" /\ made[c] = {}
    /\ Close(c)
    /\ UNCHANGED budget

Prepare(c) ==
    Refuse(c) \/ StartTool(c) \/ Partition(c) \/ Format(c) \/ ToolGivesUp(c) \/ Answer(c)

-----------------------------------------------------------------------------
(* Disturbances, MaxDisturb times *)

Disturb(kind) == kind \in Disturbances /\ budget > 0 /\ budget' = budget - 1

Open(c, d) == pc[c] # "idle" /\ device[c] = d

\* A user asks for n OSDs on disk d, and lsblk looks at it.  A name that lsblk does not
\* know ends the request with an error at once; a mapped volume is a disk like another.
Post(c, d, n) ==
    /\ Disturb("prepare")
    /\ pc[c] = "idle" /\ d \in plugged
    /\ pc' = [pc EXCEPT ![c] = "decide"]
    /\ device' = [device EXCEPT ![c] = d] /\ osdNum' = [osdNum EXCEPT ![c] = n]
    /\ empty' = [empty EXCEPT ![c] = NoChildren(d)]
    /\ overlap' = [b \in Clients |-> IF b = c THEN \E a \in Clients \ {c} : Open(a, d)
                                     ELSE overlap[b] \/ (pc[b] = "decide" /\ device[b] = d)]
    /\ UNCHANGED <<host, poll, made, stayed, seen>>

Plug(d) ==
    /\ Disturb("plug")
    /\ d \notin plugged
    /\ plugged' = plugged \cup {d}
    /\ UNCHANGED <<parts, osdParts, poll, request, overlap>>
    /\ Watch

Unplug(d) ==
    /\ Disturb("unplug")
    /\ d \in plugged
    /\ plugged' = plugged \ {d}
    /\ UNCHANGED <<parts, osdParts, poll, request, overlap>>
    /\ Watch

\* A user clears a disk that no tool is at work on.
Wipe(d) ==
    /\ Disturb("wipe")
    /\ d \in plugged /\ Children(d) # {}
    /\ \A c \in Clients : ~(pc[c] \in {"tool", "format"} /\ device[c] = d)
    /\ parts' = parts \ Children(d) /\ osdParts' = osdParts \ Children(d)
    /\ UNCHANGED <<plugged, poll, request, overlap>>
    /\ Watch

\* vitastor-disk prepare fails, perhaps halfway.
ToolFails(c) ==
    /\ Disturb("toolfail")
    /\ pc[c] \in {"tool", "format"}
    /\ Close(c)

\* vitastor-disk read-sb fails on a partition that has a superblock.
ReadFails(p) ==
    /\ Disturb("readsb")
    /\ asked = "osd" /\ p \in unread
    /\ unread' = RestAfter(p)
    /\ stayed' = stayed \ {p}
    /\ UNCHANGED <<host, asked, systemDisks, emptyDisks, osdInfo, status, request, seen, overlap>>

\* The agent's container dies, with its tools; the controller's call fails and is
\* repeated from the first question on.
Crash ==
    /\ Disturb("crash")
    /\ pc' = [c \in Clients |-> "idle"] /\ device' = [c \in Clients |-> None]
    /\ osdNum' = [c \in Clients |-> 0] /\ empty' = [c \in Clients |-> FALSE]
    /\ made' = [c \in Clients |-> {}] /\ overlap' = [c \in Clients |-> FALSE]
    /\ asked' = "none"
    /\ systemDisks' = {} /\ emptyDisks' = {} /\ unread' = {} /\ osdInfo' = {}
    /\ stayed' = {} /\ seen' = {}
    /\ UNCHANGED <<host, status>>

Environment ==
    \/ \E d \in Disks :
         \/ Plug(d) \/ Unplug(d) \/ Wipe(d)
         \/ \E c \in Clients : \E n \in 1..Cardinality(Parts) : Post(c, d, n)
    \/ \E c \in Clients : ToolFails(c)
    \/ \E p \in Parts : ReadFails(p)
    \/ Crash

-----------------------------------------------------------------------------
(* The agent has just started on a host with any disks, none of them
   partitioned. *)

Init ==
    /\ plugged \in SUBSET Disks /\ parts = {} /\ osdParts = {}
    /\ asked = "none"
    /\ systemDisks = {} /\ emptyDisks = {} /\ unread = {} /\ osdInfo = {}
    /\ status = [disks |-> {}, emptyDisks |-> {}, vitastorDisks |-> {}]
    /\ pc = [c \in Clients |-> "idle"]
    /\ device = [c \in Clients |-> None]
    /\ osdNum = [c \in Clients |-> 0]
    /\ empty = [c \in Clients |-> FALSE]
    /\ made = [c \in Clients |-> {}]
    /\ stayed = {} /\ seen = {} /\ overlap = [c \in Clients |-> FALSE]
    /\ budget = MaxDisturb

Next == Poll \/ (\E c \in Clients : Prepare(c)) \/ Environment

Spec == Init /\ [][Next]_vars

\* The loop runs, the tools end and the controller asks again and again.
Fairness == WF_vars(Poll) /\ \A c \in Clients : WF_vars(Prepare(c))

FairSpec == Spec /\ Fairness

-----------------------------------------------------------------------------
(* Properties *)

\* The answer to the third question is no snapshot: partitions come and go while
\* the loop awaits one read-sb after the other.  But an OSD partition that could be
\* read all the time is in it, and nothing is in it that could not be read at some
\* time: what the controller deletes for want of an answer did go.
AnswerBounded == asked = "status" => stayed \subseteq osdInfo /\ osdInfo \subseteq seen

\* vitastor-disk prepare is started on a disk that has partitions only if another
\* request for that disk was open meanwhile.  Requests one after the other, a
\* repeated one, one after a failed or killed tool: "That disk already partitioned
\* and can't be prepared automatically" (vitastor-agent.py:122).
ClashNeedsOverlap ==
    [][\A c \in Clients :
         pc[c] = "decide" /\ pc'[c] = "tool" /\ Children(device[c]) # {} => overlap[c]]_vars

\* Once the disturbances end, the status has the disks, the empty disks and the
\* OSDs of the host, though the three lists are asked for one by one.
EventuallyReported ==
    <>[](/\ status.disks = plugged
         /\ status.emptyDisks = {d \in plugged \ Nbd : Children(d) = {}}
         /\ status.vitastorDisks = Readable)
=============================================================================
