------------------------ MODULE NodeControllerProofs ------------------------
(***************************************************************************)
(* Theorems about NodeController, for every set of hosts, disks, OSD       *)
(* numbers, labels and images, and any number of disturbances.             *)
(***************************************************************************)
EXTENDS NodeController, TLAPS

USE NodeAssumption

-----------------------------------------------------------------------------
(* Type correctness *)

LEMMA InitTyped == Init => TypeOK
<1> SUFFICES ASSUME Init PROVE TypeOK
  OBVIOUS
<1>1. PICK i \in Images : vnode = [n \in Nodes |-> [uid |-> 0, image |-> i, disks |-> None]]
  BY DEF Init
<1>2. vnode \in [Nodes -> VNode \cup {None}] /\ vnodeCache \in [Nodes -> VNode \cup {None}]
  BY <1>1 DEF Init, VNode
<1>3. osd \in [Nums -> OSD \cup {None}] /\ osdCache \in [Nums -> OSD \cup {None}]
      /\ osdList \in [Nums -> OSD \cup {None}]
  BY DEF Init, NoList
<1>4. placement \in [Keys -> Entry \cup {None}] /\ placementLevel \in [Keys -> Entry \cup {None}]
  BY DEF Init, NoTree
<1> QED
  BY <1>2, <1>3, <1>4 DEF Init, TypeOK, PCs

\* The entries a reconcile adds to the tree are entries.
LEMMA LinkHostTyped ==
  ASSUME NEW m \in [Keys -> Entry \cup {None}], NEW n \in Nodes,
         NEW l \in SUBSET Dcs, NEW p \in Dcs \cup {None}
  PROVE  LinkHost(m, n, l, p) \in [Keys -> Entry \cup {None}]
BY DEF LinkHost, Keys, Entry

LEMMA LinkOsdTyped ==
  ASSUME NEW m \in [Keys -> Entry \cup {None}], NEW k \in Nums, NEW n \in Nodes
  PROVE  LinkOsd(m, k, n) \in [Keys -> Entry \cup {None}]
BY DEF LinkOsd, Keys, Entry

LEMMA ReturnTyped ==
  ASSUME Return
  PROVE  /\ pc' = "idle" /\ cur' \in Nodes \cup {None} /\ vitastorNode' \in VNode \cup {None}
         /\ placementLevel' \in [Keys -> Entry \cup {None}]
         /\ osds' \in SUBSET Paths /\ todo' \in SUBSET Paths
         /\ osdList' \in [Nums -> OSD \cup {None}]
BY DEF Return, NoTree, NoList

LEMMA ReturnErrTyped ==
  ASSUME TypeOK, ReturnErr, pc # "idle"
  PROVE  queue' \in SUBSET Nodes /\ delayed' \in [Nodes -> {"no", "interval", "rollout"}]
BY DEF TypeOK, ReturnErr

LEMMA ReturnAfterTyped ==
  ASSUME TypeOK, pc # "idle", NEW w \in {"interval", "rollout"}, ReturnAfter(w)
  PROVE  queue' \in SUBSET Nodes /\ delayed' \in [Nodes -> {"no", "interval", "rollout"}]
BY DEF TypeOK, ReturnAfter

LEMMA ReconcileTyped ==
  ASSUME TypeOK, Reconcile
  PROVE  TypeOK'
<1>1. CASE PutHost
  BY <1>1 DEF PutHost, TypeOK, NoTree, PCs, world, caches, work
<1>2. CASE AskAgent
  BY <1>2 DEF AskAgent, Answer, At, TypeOK, PCs, world, caches, work
<1>3. CASE NoAgent
  BY <1>3, ReturnTyped, ReturnAfterTyped DEF NoAgent, ReturnAfter, TypeOK, PCs, world, caches
<1>4. CASE Report
  <2>1. CASE ReturnErr /\ UNCHANGED vnode
    BY <1>4, <2>1, ReturnTyped, ReturnErrTyped DEF Report, ReturnErr, TypeOK, PCs, world, caches
  <2>2. CASE ~(osds # vitastorNode.disks /\ vnode[cur] # vitastorNode)
    <3>1. vitastorNode \in VNode /\ cur \in Nodes
      BY <1>4 DEF Report, TypeOK
    <3>2. vitastorNode' \in VNode
      BY <1>4, <2>2, <3>1 DEF Report, TypeOK, VNode
    <3>3. vnode' \in [Nodes -> VNode \cup {None}]
      BY <1>4, <2>2, <3>1 DEF Report, TypeOK, VNode
    <3>4. osdList' \in [Nums -> OSD \cup {None}]
      BY <1>4, <2>2 DEF Report, TypeOK, ListOsds
    <3> QED
      BY <1>4, <2>2, <3>1, <3>2, <3>3, <3>4 DEF Report, TypeOK, PCs, world, caches, work
  <2> QED
    BY <1>4, <2>1, <2>2 DEF Report
<1>5. CASE PutOsd
  BY <1>5 DEF PutOsd, TypeOK, NoTree, PCs, world, caches, work
<1>6. CASE Finish
  BY <1>6, ReturnTyped, ReturnAfterTyped DEF Finish, ReturnAfter, TypeOK, PCs, world, caches
<1>7. ASSUME NEW p \in Paths, Visit(p) PROVE TypeOK'
  <2>1. CASE ReturnErr /\ UNCHANGED <<osd, serving>>
    BY <1>7, <2>1, ReturnTyped, ReturnErrTyped DEF Visit, ReturnErr, TypeOK, PCs, world, caches
  <2>2. CASE Contains(p) \/ osd[SbNum[p]] = None
    <3>1. vitastorNode \in VNode /\ cur \in Nodes /\ SbNum[p] \in Nums
      BY <1>7 DEF Visit, TypeOK
    <3>2. Configuration(p) \in OSD
      BY <3>1 DEF Configuration, OSD, VNode
    <3>3. osd' \in [Nums -> OSD \cup {None}] /\ serving' \in SUBSET Nums
      BY <1>7, <2>2, <3>1, <3>2 DEF Visit, TypeOK
    <3>4. placementLevel' \in [Keys -> Entry \cup {None}]
      <4>1. placementLevel' = LinkOsd(placement, SbNum[p], cur)
        BY <1>7, <2>2 DEF Visit, Place
      <4>2. placement \in [Keys -> Entry \cup {None}]
        BY DEF TypeOK
      <4> QED
        BY <3>1, <4>1, <4>2, LinkOsdTyped
    <3> QED
      BY <1>7, <2>2, <3>1, <3>3, <3>4 DEF Visit, TypeOK, PCs, world, caches, work
  <2> QED
    BY <1>7, <2>1, <2>2 DEF Visit
<1>8. ASSUME NEW k \in Nums, DeleteOsd(k) PROVE TypeOK'
  <2>1. CASE osd[k] = None
    BY <1>8, <2>1, ReturnTyped, ReturnErrTyped DEF DeleteOsd, ReturnErr, TypeOK, PCs, world, caches
  <2>2. CASE osd[k] # None
    BY <1>8, <2>2 DEF DeleteOsd, TypeOK, PCs, world, caches, work
  <2> QED
    BY <2>1, <2>2
<1>9. ASSUME NEW k \in Nums, UpdateImage(k) PROVE TypeOK'
  <2>1. CASE osd[k] # osdList[k]
    BY <1>9, <2>1, ReturnTyped, ReturnErrTyped DEF UpdateImage, ReturnErr, TypeOK, PCs, world, caches
  <2>2. CASE osd[k] = osdList[k]
    <3>1. osd[k] \in OSD /\ vitastorNode \in VNode
      BY <1>9, <2>2 DEF UpdateImage, Outdated, TypeOK
    <3>2. osd' \in [Nums -> OSD \cup {None}]
      BY <1>9, <2>2, <3>1 DEF UpdateImage, TypeOK, OSD, VNode
    <3>3. ReturnAfter("rollout")
      BY <1>9, <2>2 DEF UpdateImage
    <3> QED
      BY <1>9, <3>2, <3>3, ReturnTyped, ReturnAfterTyped
         DEF UpdateImage, ReturnAfter, TypeOK, PCs, world, caches
  <2> QED
    BY <2>1, <2>2
<1> QED
  BY <1>1, <1>2, <1>3, <1>4, <1>5, <1>6, <1>7, <1>8, <1>9 DEF Reconcile

LEMMA BeginTyped ==
  ASSUME TypeOK, NEW n \in Nodes, Begin(n)
  PROVE  TypeOK'
<1>1. CASE ~Found(n)
  BY <1>1 DEF Begin, locals, TypeOK, PCs, world, caches
<1>2. CASE Found(n)
  <2>1. PICK p \in IF label[n] = {} THEN {None} ELSE label[n] :
          placementLevel' = LinkHost(placement, n, label[n], p)
    BY <1>2 DEF Begin
  <2>2. label[n] \in SUBSET Dcs /\ p \in Dcs \cup {None}
        /\ placement \in [Keys -> Entry \cup {None}]
    BY <2>1 DEF TypeOK
  <2>3. placementLevel' \in [Keys -> Entry \cup {None}]
    BY <2>1, <2>2, LinkHostTyped
  <2>4. vitastorNode' \in VNode
    BY <1>2 DEF Begin, Found, TypeOK
  <2> QED
    BY <1>2, <2>3, <2>4 DEF Begin, TypeOK, PCs, world, caches
<1> QED
  BY <1>1, <1>2

LEMMA RuntimeTyped ==
  ASSUME TypeOK, Runtime
  PROVE  TypeOK'
<1>1. CASE Resync
  BY <1>1 DEF Resync, TypeOK, world, caches, locals
<1>2. ASSUME NEW n \in Nodes, SyncNode(n) PROVE TypeOK'
  BY <1>2 DEF SyncNode, TypeOK, world, locals
<1>3. ASSUME NEW n \in Nodes, Wake(n) PROVE TypeOK'
  BY <1>3 DEF Wake, TypeOK, world, caches, locals
<1>4. ASSUME NEW k \in Nums, SyncOsd(k) PROVE TypeOK'
  <2>1. \A o \in {osdCache[k], osd[k]} \ {None} : o.node \in Nodes
    BY DEF TypeOK, OSD
  <2>2. queue' \in SUBSET Nodes
    BY <1>4, <2>1 DEF SyncOsd, Owners, TypeOK
  <2>3. osdCache' \in [Nums -> OSD \cup {None}]
    BY <1>4 DEF SyncOsd, TypeOK
  <2> QED
    BY <1>4, <2>2, <2>3 DEF SyncOsd, TypeOK, world, locals
<1>5. ASSUME NEW k \in Nums, CollectOsd(k) PROVE TypeOK'
  BY <1>5 DEF CollectOsd, TypeOK, world, caches, work, locals
<1> QED
  BY <1>1, <1>2, <1>3, <1>4, <1>5 DEF Runtime

LEMMA AnswerTyped ==
  ASSUME TypeOK, NEW s \in SUBSET Paths, Answer(s), budget' \in Nat
  PROVE  TypeOK'
BY DEF Answer, TypeOK, PCs, world, caches, work

LEMMA EnvironmentTyped ==
  ASSUME TypeOK, Environment
  PROVE  TypeOK'
<1> USE DEF Disturb
<1>1. ASSUME NEW p \in Paths, Detach(p) PROVE TypeOK'
  BY <1>1 DEF Detach, TypeOK, caches, work, locals
<1>2. ASSUME NEW p \in Paths, NEW n \in Nodes, Attach(p, n) PROVE TypeOK'
  BY <1>2 DEF Attach, TypeOK, caches, work, locals
<1>3. ASSUME NEW p \in Paths, SuperblockUnread(p) PROVE TypeOK'
  <2>1. budget' \in Nat /\ Answer(At(cur) \ {p}) /\ At(cur) \ {p} \in SUBSET Paths
    BY <1>3 DEF SuperblockUnread, At, TypeOK
  <2> QED
    BY <2>1, AnswerTyped
<1>4. CASE AgentError
  <2>1. budget' \in Nat /\ Answer({}) /\ {} \in SUBSET Paths
    BY <1>4 DEF AgentError, TypeOK
  <2> QED
    BY <2>1, AnswerTyped
<1>5. ASSUME NEW n \in Nodes, NEW l \in SUBSET Dcs, Relabel(n, l) PROVE TypeOK'
  BY <1>5 DEF Relabel, TypeOK, caches, work, locals
<1>6. ASSUME NEW n \in Nodes, ToggleAgent(n) PROVE TypeOK'
  BY <1>6 DEF ToggleAgent, TypeOK, caches, work, locals
<1>7. ASSUME NEW n \in Nodes, ToggleKube(n) PROVE TypeOK'
  BY <1>7 DEF ToggleKube, TypeOK, caches, work, locals
<1>8. ASSUME NEW n \in Nodes, NEW i \in Images, SetImage(n, i) PROVE TypeOK'
  <2>1. vnode[n] \in VNode
    BY <1>8 DEF SetImage, TypeOK
  <2>2. vnode' \in [Nodes -> VNode \cup {None}]
    BY <1>8, <2>1 DEF SetImage, TypeOK, VNode
  <2> QED
    BY <1>8, <2>2 DEF SetImage, TypeOK, world, caches, work, locals
<1>9. ASSUME NEW n \in Nodes, DeleteNode(n) PROVE TypeOK'
  BY <1>9 DEF DeleteNode, TypeOK, world, caches, work, locals
<1>10. ASSUME NEW n \in Nodes, NEW i \in Images, CreateNode(n, i) PROVE TypeOK'
  <2>1. [uid |-> nextUid, image |-> i, disks |-> None] \in VNode
    BY DEF TypeOK, VNode
  <2> QED
    BY <1>10, <2>1 DEF CreateNode, TypeOK, world, caches, work, locals
<1>11. ASSUME NEW k \in Nums, UserDeletesOsd(k) PROVE TypeOK'
  BY <1>11 DEF UserDeletesOsd, TypeOK, world, caches, work, locals
<1>12. CASE Fail
  BY <1>12, ReturnTyped, ReturnErrTyped DEF Fail, ReturnErr, TypeOK, PCs, world, caches
<1>13. CASE Restart
  BY <1>13, ReturnTyped DEF Restart, TypeOK, PCs, world
<1> QED
  BY <1>1, <1>2, <1>3, <1>4, <1>5, <1>6, <1>7, <1>8, <1>9, <1>10, <1>11, <1>12, <1>13
     DEF Environment

LEMMA NextTyped == TypeOK /\ [Next]_vars => TypeOK'
<1> SUFFICES ASSUME TypeOK, [Next]_vars PROVE TypeOK'
  OBVIOUS
<1>1. CASE UNCHANGED vars
  BY <1>1 DEF vars, world, caches, work, locals, TypeOK
<1> QED
  BY <1>1, BeginTyped, ReconcileTyped, RuntimeTyped, EnvironmentTyped DEF Next

\* Every variable keeps its type; in particular the worker never goes on with a
\* host, or a VitastorNode, it has not found.
THEOREM TypeCorrect == Spec => []TypeOK
BY InitTyped, NextTyped, PTL DEF Spec

-----------------------------------------------------------------------------
(* The placement tree only grows.  A write puts back a copy that was read one
   step before by the only worker, so nobody has added to the tree since: the
   copy of a worker about to write holds every entry there is. *)

Kept(m, l) == \A k \in Keys : m[k] # None => l[k] # None

CopyKeeps == pc \in {"putHost", "putOsd"} => Kept(placement, placementLevel)

LEMMA LinkHostKeeps ==
  ASSUME NEW m \in [Keys -> Entry \cup {None}], NEW n \in Nodes,
         NEW l \in SUBSET Dcs, NEW p \in Dcs \cup {None}
  PROVE  Kept(m, LinkHost(m, n, l, p)) /\ LinkHost(m, n, l, p)[n] # None
<1>1. [level |-> "host", parent |-> p] \in Entry /\ [level |-> "dc", parent |-> None] \in Entry
  BY DEF Entry, Keys
<1> QED
  BY <1>1 DEF Kept, LinkHost, Keys

LEMMA LinkOsdKeeps ==
  ASSUME NEW m \in [Keys -> Entry \cup {None}], NEW k \in Nums, NEW n \in Nodes
  PROVE  Kept(m, LinkOsd(m, k, n))
<1>1. [level |-> "osd", parent |-> n] \in Entry
  BY DEF Entry, Keys
<1> QED
  BY <1>1 DEF Kept, LinkOsd, Keys

\* Steps that are not the worker's leave the tree and its copy alone, unless the
\* worker is cut short.
LEMMA OthersKeepTree ==
  ASSUME Runtime \/ Environment
  PROVE  /\ UNCHANGED placement
         /\ \/ pc' = "idle"
            \/ UNCHANGED <<pc, cur, placementLevel>>
            \/ pc = "agent" /\ pc' = "report" /\ UNCHANGED <<cur, placementLevel>>
<1>1. CASE Runtime
  BY <1>1 DEF Runtime, Resync, SyncNode, SyncOsd, Wake, CollectOsd, locals
<1>2. CASE Environment
  <2>1. ASSUME NEW p \in Paths, Detach(p) \/ \E n \in Nodes : Attach(p, n)
        PROVE  UNCHANGED <<placement, pc, cur, placementLevel>>
    BY <2>1 DEF Detach, Attach, locals
  <2>2. ASSUME NEW p \in Paths, SuperblockUnread(p)
        PROVE  UNCHANGED <<placement, cur, placementLevel>> /\ pc = "agent" /\ pc' = "report"
    BY <2>2 DEF SuperblockUnread, Answer
  <2>3. ASSUME NEW n \in Nodes,
               \/ ToggleAgent(n) \/ ToggleKube(n) \/ DeleteNode(n)
               \/ \E l \in SUBSET Dcs : Relabel(n, l)
               \/ \E i \in Images : SetImage(n, i) \/ CreateNode(n, i)
        PROVE  UNCHANGED <<placement, pc, cur, placementLevel>>
    BY <2>3 DEF ToggleAgent, ToggleKube, DeleteNode, Relabel, SetImage, CreateNode, locals
  <2>4. ASSUME NEW k \in Nums, UserDeletesOsd(k)
        PROVE  UNCHANGED <<placement, pc, cur, placementLevel>>
    BY <2>4 DEF UserDeletesOsd, locals
  <2>5. CASE Fail \/ Restart
    BY <2>5 DEF Fail, Restart, ReturnErr, Return
  <2>6. CASE AgentError
    BY <2>6 DEF AgentError, Answer
  <2> QED
    BY <1>2, <2>1, <2>2, <2>3, <2>4, <2>5, <2>6 DEF Environment
<1> QED
  BY <1>1, <1>2

\* What a step of the worker does to the tree and to its copy.
LEMMA BeginReads ==
  ASSUME TypeOK, NEW n \in Nodes, Begin(n)
  PROVE  /\ UNCHANGED placement
         /\ \/ UNCHANGED <<pc, cur, placementLevel>>
            \/ /\ pc' = "putHost" /\ cur' = n
               /\ \E l \in SUBSET Dcs, p \in Dcs \cup {None} :
                    /\ placementLevel' = LinkHost(placement, n, l, p)
                    /\ IF l = {} THEN p = None ELSE p \in l
<1>1. CASE ~Found(n)
  BY <1>1 DEF Begin, locals
<1>2. CASE Found(n)
  <2>1. PICK p \in IF label[n] = {} THEN {None} ELSE label[n] :
          placementLevel' = LinkHost(placement, n, label[n], p)
    BY <1>2 DEF Begin
  <2>2. label[n] \in SUBSET Dcs /\ p \in Dcs \cup {None}
    BY <2>1 DEF TypeOK
  <2> QED
    BY <1>2, <2>1, <2>2 DEF Begin
<1> QED
  BY <1>1, <1>2

LEMMA ReconcileTree ==
  ASSUME TypeOK, Reconcile
  PROVE  \/ /\ pc = "putHost" /\ pc' = "agent" /\ UNCHANGED cur /\ placement' = placementLevel
         \/ /\ pc = "putOsd" /\ pc' \in {"visit", "sweep"} /\ UNCHANGED cur
            /\ placement' = placementLevel
         \/ /\ pc = "visit" /\ pc' = "putOsd" /\ UNCHANGED <<cur, placement>>
            /\ \E p \in Paths : placementLevel' = LinkOsd(placement, SbNum[p], cur)
         \/ /\ pc \notin {"idle", "putHost", "putOsd"} /\ UNCHANGED <<cur, placement>>
            /\ pc' \in {"report", "visit", "sweep"}
         \/ pc' = "idle" /\ UNCHANGED placement
<1> USE DEF ReturnErr, ReturnAfter, Return
<1>1. CASE PutHost
  BY <1>1 DEF PutHost
<1>2. CASE AskAgent \/ NoAgent
  BY <1>2 DEF AskAgent, Answer, NoAgent
<1>3. CASE Report
  BY <1>3 DEF Report
<1>4. CASE PutOsd
  BY <1>4 DEF PutOsd
<1>5. CASE Finish
  BY <1>5 DEF Finish
<1>6. ASSUME NEW p \in Paths, Visit(p)
      PROVE  \/ /\ pc = "visit" /\ pc' = "putOsd" /\ UNCHANGED <<cur, placement>>
                /\ placementLevel' = LinkOsd(placement, SbNum[p], cur)
             \/ pc' = "idle" /\ UNCHANGED placement
  BY <1>6 DEF Visit, Place
<1>7. ASSUME NEW k \in Nums, DeleteOsd(k) \/ UpdateImage(k)
      PROVE  \/ pc = "sweep" /\ pc' = "sweep" /\ UNCHANGED <<cur, placement>>
             \/ pc' = "idle" /\ UNCHANGED placement
  BY <1>7 DEF DeleteOsd, UpdateImage
<1> QED
  BY <1>1, <1>2, <1>3, <1>4, <1>5, <1>6, <1>7 DEF Reconcile

LEMMA StepKeeps ==
  ASSUME TypeOK, CopyKeeps, [Next]_vars
  PROVE  CopyKeeps' /\ Kept(placement, placement')
<1> USE DEF Kept, CopyKeeps
<1>1. CASE UNCHANGED vars
  BY <1>1 DEF vars, locals
<1>2. ASSUME NEW n \in Nodes, Begin(n) PROVE CopyKeeps' /\ Kept(placement, placement')
  <2>1. CASE UNCHANGED <<pc, cur, placementLevel>>
    BY <1>2, <2>1, BeginReads
  <2>2. CASE ~UNCHANGED <<pc, cur, placementLevel>>
    <3>1. PICK l \in SUBSET Dcs, p \in Dcs \cup {None} :
            placementLevel' = LinkHost(placement, n, l, p)
      BY <1>2, <2>2, BeginReads
    <3>2. Kept(placement, placementLevel')
      BY <3>1, LinkHostKeeps DEF TypeOK
    <3> QED
      BY <1>2, <3>2, BeginReads
  <2> QED
    BY <2>1, <2>2
<1>3. CASE Reconcile
  <2>1. CASE pc = "visit" /\ pc' = "putOsd" /\ UNCHANGED <<cur, placement>>
             /\ \E p \in Paths : placementLevel' = LinkOsd(placement, SbNum[p], cur)
    <3>1. PICK p \in Paths : placementLevel' = LinkOsd(placement, SbNum[p], cur)
      BY <2>1
    <3>2. SbNum[p] \in Nums /\ cur \in Nodes
      BY <2>1 DEF TypeOK
    <3>3. Kept(placement, placementLevel')
      BY <3>1, <3>2, LinkOsdKeeps DEF TypeOK
    <3> QED
      BY <2>1, <3>3
  <2> QED
    BY <1>3, <2>1, ReconcileTree
<1>4. CASE Runtime \/ Environment
  BY <1>4, OthersKeepTree
<1> QED
  BY <1>1, <1>2, <1>3, <1>4 DEF Next

\* No write to etcd drops an entry of the placement tree, whatever the labels,
\* the disks and the failures, and even if the names of the levels collide.
THEOREM PlacementKept == Spec => KeepsPlacement
<1>1. Init => CopyKeeps
  BY DEF Init, CopyKeeps
<1>2. TypeOK /\ CopyKeeps /\ [Next]_vars => CopyKeeps'
  BY StepKeeps
<1>3. TypeOK /\ CopyKeeps /\ [Next]_vars
        => [\A k \in Keys : placement[k] # None => placement'[k] # None]_vars
  BY StepKeeps DEF Kept
<1> QED
  BY <1>1, <1>2, <1>3, TypeCorrect, PTL DEF Spec, KeepsPlacement

-----------------------------------------------------------------------------
(* The placement tree is layered and closed, if a key tells its level: a host
   is not called like a dc, nor like a number.  The copy is closed like the
   tree; the host of the reconcile is in its first copy, and from then on in
   the tree, so the OSDs placed under it have their parent. *)

Disjoint == Nodes \cap Dcs = {} /\ Nodes \cap Nums = {} /\ Dcs \cap Nums = {}

CopyClosed ==
    /\ pc \in {"putHost", "putOsd"} => Closed(placementLevel)
    /\ pc = "putHost" => placementLevel[cur] # None
    /\ pc \notin {"idle", "putHost"} => placement[cur] # None

TreeInv == CopyKeeps /\ TreeClosed /\ CopyClosed

LEMMA LinkHostClosed ==
  ASSUME Disjoint, NEW m \in [Keys -> Entry \cup {None}], Closed(m), NEW n \in Nodes,
         NEW l \in SUBSET Dcs, NEW p \in Dcs \cup {None}, IF l = {} THEN p = None ELSE p \in l
  PROVE  Closed(LinkHost(m, n, l, p))
<1> DEFINE t == LinkHost(m, n, l, p)
<1>1. /\ \A k \in Keys : m[k] # None => t[k] # None
      /\ t[n] = [level |-> "host", parent |-> p]
  BY LinkHostKeeps DEF Kept, LinkHost, Keys
<1>2. \A d \in l : t[d] # None
  <2>1. [level |-> "dc", parent |-> None] \in Entry
    BY DEF Entry
  <2> QED
    BY <2>1 DEF LinkHost, Keys, Disjoint
<1>3. ASSUME NEW h \in Nodes, t[h] # None
      PROVE  t[h].level = "host" /\ (t[h].parent # None => t[h].parent \in Dcs /\ t[t[h].parent] # None)
  <2>1. CASE h = n
    <3>1. p # None => p \in l
      OBVIOUS
    <3> QED
      BY <2>1, <3>1, <1>1, <1>2
  <2>2. CASE h # n
    <3>1. t[h] = m[h]
      BY <2>2 DEF LinkHost, Keys, Disjoint
    <3> QED
      BY <3>1, <1>3, <1>1 DEF Closed, Keys
  <2> QED
    BY <2>1, <2>2
<1>4. ASSUME NEW d \in Dcs, t[d] # None PROVE t[d] = [level |-> "dc", parent |-> None]
  BY <1>4 DEF LinkHost, Keys, Closed, Disjoint
<1>5. ASSUME NEW k \in Nums, t[k] # None
      PROVE  t[k].level = "osd" /\ t[k].parent \in Nodes /\ t[t[k].parent] # None
  <2>1. t[k] = m[k]
    BY DEF LinkHost, Keys, Disjoint
  <2> QED
    BY <2>1, <1>5, <1>1 DEF Closed, Keys
<1> QED
  BY <1>3, <1>4, <1>5 DEF Closed

LEMMA LinkOsdClosed ==
  ASSUME Disjoint, NEW m \in [Keys -> Entry \cup {None}], Closed(m), NEW k \in Nums,
         NEW n \in Nodes, m[n] # None
  PROVE  Closed(LinkOsd(m, k, n))
<1> DEFINE t == LinkOsd(m, k, n)
<1>1. \A j \in Keys : m[j] # None => t[j] # None
  BY LinkOsdKeeps DEF Kept
<1>2. t[k] = [level |-> "osd", parent |-> n] /\ \A j \in Keys \ {k} : t[j] = m[j]
  BY DEF LinkOsd, Keys
<1>3. ASSUME NEW h \in Nodes, t[h] # None
      PROVE  t[h].level = "host" /\ (t[h].parent # None => t[h].parent \in Dcs /\ t[t[h].parent] # None)
  <2>1. t[h] = m[h]
    BY <1>2 DEF Keys, Disjoint
  <2> QED
    BY <2>1, <1>1, <1>3 DEF Closed, Keys
<1>4. ASSUME NEW d \in Dcs, t[d] # None PROVE t[d] = [level |-> "dc", parent |-> None]
  BY <1>2, <1>4 DEF Keys, Closed, Disjoint
<1>5. ASSUME NEW j \in Nums, t[j] # None
      PROVE  t[j].level = "osd" /\ t[j].parent \in Nodes /\ t[t[j].parent] # None
  <2>1. CASE j = k
    BY <2>1, <1>1, <1>2 DEF Keys
  <2>2. CASE j # k
    <3>1. t[j] = m[j]
      BY <2>2, <1>2 DEF Keys
    <3> QED
      BY <3>1, <1>5, <1>1 DEF Closed, Keys
  <2> QED
    BY <2>1, <2>2
<1> QED
  BY <1>3, <1>4, <1>5 DEF Closed

LEMMA StepClosed ==
  ASSUME Disjoint, TypeOK, TreeInv, [Next]_vars
  PROVE  TreeInv'
<1>1. CopyKeeps' /\ Kept(placement, placement')
  BY StepKeeps DEF TreeInv
<1>2. CASE UNCHANGED vars
  BY <1>1, <1>2 DEF vars, locals, TreeInv, TreeClosed, CopyClosed, Closed
<1>3. ASSUME NEW n \in Nodes, Begin(n) PROVE TreeInv'
  <2>1. CASE UNCHANGED <<pc, cur, placementLevel>>
    BY <1>1, <1>3, <2>1, BeginReads DEF TreeInv, TreeClosed, CopyClosed, Closed
  <2>2. CASE ~UNCHANGED <<pc, cur, placementLevel>>
    <3>1. PICK l \in SUBSET Dcs, p \in Dcs \cup {None} :
            /\ placementLevel' = LinkHost(placement, n, l, p)
            /\ IF l = {} THEN p = None ELSE p \in l
      BY <1>3, <2>2, BeginReads
    <3>2. Closed(placementLevel')
      BY <3>1, LinkHostClosed DEF TypeOK, TreeInv, TreeClosed
    <3>3. placementLevel'[n] # None
      BY <3>1, LinkHostKeeps DEF TypeOK
    <3>4. pc' = "putHost" /\ cur' = n /\ placement' = placement
      BY <1>3, <2>2, BeginReads
    <3> QED
      BY <1>1, <3>2, <3>3, <3>4 DEF TreeInv, TreeClosed, CopyClosed, Closed
  <2> QED
    BY <2>1, <2>2
<1>4. CASE Reconcile
  <2>1. CASE pc = "putHost" /\ pc' = "agent" /\ UNCHANGED cur /\ placement' = placementLevel
    BY <1>1, <2>1 DEF TreeInv, TreeClosed, CopyClosed, Closed
  <2>2. CASE /\ pc = "putOsd" /\ pc' \in {"visit", "sweep"} /\ UNCHANGED cur
             /\ placement' = placementLevel
    <3>1. placement'[cur] # None
      BY <1>1, <2>2 DEF TreeInv, CopyClosed, Kept, TypeOK, Keys
    <3> QED
      BY <1>1, <2>2, <3>1 DEF TreeInv, TreeClosed, CopyClosed, Closed
  <2>3. CASE /\ pc = "visit" /\ pc' = "putOsd" /\ UNCHANGED <<cur, placement>>
             /\ \E p \in Paths : placementLevel' = LinkOsd(placement, SbNum[p], cur)
    <3>1. PICK p \in Paths : placementLevel' = LinkOsd(placement, SbNum[p], cur)
      BY <2>3
    <3>2. SbNum[p] \in Nums /\ cur \in Nodes /\ placement[cur] # None
      BY <2>3 DEF TypeOK, TreeInv, CopyClosed
    <3>3. Closed(placementLevel')
      BY <3>1, <3>2, LinkOsdClosed DEF TypeOK, TreeInv, TreeClosed
    <3> QED
      BY <1>1, <2>3, <3>2, <3>3 DEF TreeInv, TreeClosed, CopyClosed, Closed
  <2>4. CASE /\ pc \notin {"idle", "putHost", "putOsd"} /\ UNCHANGED <<cur, placement>>
             /\ pc' \in {"report", "visit", "sweep"}
    BY <1>1, <2>4 DEF TreeInv, TreeClosed, CopyClosed, Closed
  <2>5. CASE pc' = "idle" /\ UNCHANGED placement
    BY <1>1, <2>5 DEF TreeInv, TreeClosed, CopyClosed, Closed
  <2> QED
    BY <1>4, <2>1, <2>2, <2>3, <2>4, <2>5, ReconcileTree
<1>5. CASE Runtime \/ Environment
  <2>1. UNCHANGED placement
    BY <1>5, OthersKeepTree
  <2> QED
    BY <1>1, <1>5, <2>1, OthersKeepTree DEF TreeInv, TreeClosed, CopyClosed, Closed
<1> QED
  BY <1>2, <1>3, <1>4, <1>5 DEF Next

\* However labels, disks and failures fall, an OSD in the tree hangs under a host
\* that is in it, and a host under nothing or a dc that is in it.
THEOREM TreeStaysClosed ==
  ASSUME Disjoint
  PROVE  Spec => []TreeClosed
<1>1. Init => TreeInv
  <2> SUFFICES ASSUME Init PROVE TreeInv
    OBVIOUS
  <2>1. \A k \in Keys : placement[k] = None
    BY DEF Init, NoTree
  <2> QED
    BY <2>1 DEF Init, TreeInv, CopyKeeps, CopyClosed, TreeClosed, Closed, Keys
<1>2. TypeOK /\ TreeInv /\ [Next]_vars => TreeInv'
  BY StepClosed
<1>3. TreeInv => TreeClosed
  BY DEF TreeInv
<1> QED
  BY <1>1, <1>2, <1>3, TypeCorrect, PTL DEF Spec

-----------------------------------------------------------------------------
(* HostsAttended.  Every way out of Reconcile leaves a request or a timer.  *)

\* The worker goes on, or returns through ReturnErr or ReturnAfter.
LEMMA ReconcileReturns ==
  ASSUME TypeOK, Reconcile
  PROVE  /\ UNCHANGED caches /\ pc # "idle" /\ cur \in Nodes
         /\ \/ pc' # "idle" /\ UNCHANGED <<work, cur>>
            \/ ReturnErr \/ \E w \in {"interval", "rollout"} : ReturnAfter(w)
<1>1. CASE PutHost \/ PutOsd \/ AskAgent
  BY <1>1 DEF PutHost, PutOsd, AskAgent, Answer, TypeOK
<1>2. CASE NoAgent \/ Finish
  BY <1>2 DEF NoAgent, Finish, TypeOK
<1>3. CASE Report
  BY <1>3 DEF Report, TypeOK
<1>4. ASSUME NEW p \in Paths, Visit(p)
      PROVE  /\ UNCHANGED caches /\ pc # "idle" /\ cur \in Nodes
             /\ (pc' # "idle" /\ UNCHANGED <<work, cur>>) \/ ReturnErr
  BY <1>4 DEF Visit, TypeOK
<1>5. ASSUME NEW k \in Nums, DeleteOsd(k) \/ UpdateImage(k)
      PROVE  /\ UNCHANGED caches /\ pc # "idle" /\ cur \in Nodes
             /\ (pc' # "idle" /\ UNCHANGED <<work, cur>>) \/ ReturnErr \/ ReturnAfter("rollout")
  BY <1>5 DEF DeleteOsd, UpdateImage, TypeOK
<1> QED
  BY <1>1, <1>2, <1>3, <1>4, <1>5 DEF Reconcile

\* A return leaves its host a request or a timer, and other hosts what they had.
LEMMA ReturnAttends ==
  ASSUME TypeOK, pc # "idle", cur \in Nodes,
         ReturnErr \/ \E w \in {"interval", "rollout"} : ReturnAfter(w)
  PROVE  /\ pc' = "idle" /\ (cur \in queue' \/ delayed'[cur] # "no")
         /\ queue \subseteq queue' /\ \A n \in Nodes \ {cur} : delayed'[n] = delayed[n]
BY DEF ReturnErr, ReturnAfter, Return, TypeOK

NodesStay == kube = Nodes /\ HostsAttended

LEMMA StepStays ==
  ASSUME "kube" \notin Disturbances, TypeOK, NodesStay, [Next]_vars
  PROVE  NodesStay'
<1> USE DEF NodesStay, HostsAttended
<1>1. kube' = Nodes
  BY DEF Next, Begin, Reconcile, PutHost, AskAgent, Answer, NoAgent, Report, Visit, PutOsd, DeleteOsd, UpdateImage,
     Finish, Runtime, Resync, SyncNode, SyncOsd, Wake, CollectOsd, Environment, Attach, Detach, Relabel,
     ToggleAgent, ToggleKube, SetImage, DeleteNode, CreateNode, UserDeletesOsd, Fail, Restart, AgentError,
     SuperblockUnread, Disturb, vars, world
<1>2. ASSUME NEW n \in Nodes, Begin(n) PROVE HostsAttended'
  <2>1. UNCHANGED <<vnodeCache, delayed>> /\ pc = "idle" /\ queue' = queue \ {n}
    BY <1>2 DEF Begin, caches
  <2>2. vnodeCache[n] # None => pc' # "idle" /\ cur' = n
    BY <1>2 DEF Begin, Found
  <2> QED
    BY <2>1, <2>2
<1>3. CASE Reconcile
  <2>1. CASE pc' # "idle" /\ UNCHANGED <<work, cur>>
    BY <1>1, <1>3, <2>1, ReconcileReturns DEF caches, work
  <2>2. CASE ReturnErr \/ \E w \in {"interval", "rollout"} : ReturnAfter(w)
    <3>1. UNCHANGED caches /\ pc # "idle" /\ cur \in Nodes
      BY <1>3, ReconcileReturns
    <3> QED
      BY <1>1, <2>2, <3>1, ReturnAttends DEF caches
  <2> QED
    BY <1>3, <2>1, <2>2, ReconcileReturns
<1>4. CASE Runtime
  <2>1. ASSUME NEW n \in Nodes, SyncNode(n)
        PROVE  /\ UNCHANGED <<delayed, pc, locals>> /\ queue' = queue \cup {n}
               /\ \A m \in Nodes \ {n} : vnodeCache'[m] = vnodeCache[m]
    BY <2>1 DEF SyncNode, TypeOK
  <2>2. ASSUME NEW n \in Nodes, Wake(n)
        PROVE  /\ UNCHANGED <<caches, pc, locals>> /\ queue' = queue \cup {n}
               /\ \A m \in Nodes \ {n} : delayed'[m] = delayed[m]
    BY <2>2 DEF Wake, TypeOK
  <2>3. ASSUME Resync \/ \E k \in Nums : SyncOsd(k) \/ CollectOsd(k)
        PROVE  UNCHANGED <<vnodeCache, delayed, pc, locals>> /\ queue \subseteq queue'
    BY <2>3 DEF Resync, SyncOsd, CollectOsd, caches, work
  <2> QED
    BY <1>1, <1>4, <2>1, <2>2, <2>3 DEF Runtime, caches, locals
<1>5. CASE Environment
  <2>1. CASE Restart
    BY <1>1, <2>1 DEF Restart, TypeOK
  <2>2. CASE Fail
    <3>1. cur \in Nodes /\ pc # "idle" /\ ReturnErr /\ UNCHANGED caches
      BY <2>2 DEF Fail, TypeOK
    <3> QED
      BY <1>1, <3>1, ReturnAttends DEF caches
  <2>3. CASE ~Restart /\ ~Fail
    <3>1. UNCHANGED <<caches, work, cur>> /\ (pc' = pc \/ pc' = "report")
      BY <1>5, <2>3 DEF Environment, Attach, Detach, Relabel, ToggleAgent, ToggleKube, SetImage, DeleteNode,
         CreateNode, UserDeletesOsd, AgentError, SuperblockUnread, Answer, locals
    <3> QED
      BY <1>1, <3>1 DEF caches, work
  <2> QED
    BY <2>1, <2>2, <2>3
<1>6. CASE UNCHANGED vars
  BY <1>1, <1>6 DEF vars, caches, work, locals
<1> QED
  BY <1>1, <1>2, <1>3, <1>4, <1>5, <1>6 DEF Next

\* Where Node objects stay, no host is let go of by any path through Reconcile,
\* its retries and restarts: a known VitastorNode always has a request or a timer.
THEOREM HostsStayAttended ==
  ASSUME "kube" \notin Disturbances
  PROVE  Spec => []HostsAttended
<1>1. Init => NodesStay
  BY DEF Init, NodesStay, HostsAttended
<1>2. TypeOK /\ NodesStay /\ [Next]_vars => NodesStay'
  BY StepStays
<1>3. NodesStay => HostsAttended
  BY DEF NodesStay
<1> QED
  BY <1>1, <1>2, <1>3, TypeCorrect, PTL DEF Spec
=============================================================================
