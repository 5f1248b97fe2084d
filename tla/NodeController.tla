--------------------------- MODULE NodeController ---------------------------
(***************************************************************************)
(* The VitastorNode controller (controllers/vitastornode_controller.go):   *)
(* one worker reconciles VitastorNode objects by comparing the OSD disks   *)
(* that the agent on the host reports with the VitastorOSD objects it      *)
(* reads from a lagging cache, and keeps the placement tree in etcd.       *)
(*                                                                         *)
(* One action is one call that leaves the operator's process (API server,  *)
(* etcd, agent) with the local work around it.  The variables below the    *)
(* line "worker" are the local variables of Reconcile, under their names   *)
(* in the source.  The name of a VitastorOSD is "vitastor-osd-<number>",   *)
(* so the objects are indexed by OSD number.                               *)
(***************************************************************************)
EXTENDS Naturals

CONSTANTS
    Nodes,          \* hosts; a VitastorNode has the name of its host
    Paths,          \* OSD partitions, by partuuid
    Nums,           \* OSD numbers
    Dcs,            \* values of the label fd.vitastor.io/dc
    Images,         \* OSD container images
    None,           \* an absent object, entry or parent
    SbNum,          \* SbNum[p]: the OSD number in the superblock of p
    Slots,          \* Slots[p]: the hosts the disk of p can be plugged into
    Disturbances,   \* the kinds of disturbance a run allows ...
    MaxDisturb      \* ... and how many of them happen in one behaviour

Kinds == {"attach", "detach", "relabel", "agent", "kube", "image", "create",
          "delete", "osddelete", "fail", "restart", "http500", "readsb"}

Keys == Nodes \cup Dcs \cup Nums    \* keys of /config/node_placement

Entry == [level: {"host", "dc", "osd"}, parent: Keys \cup {None}]
VNode == [uid: Nat, image: Images, disks: (SUBSET Paths) \cup {None}]  \* None: no status yet
OSD   == [path: Paths, node: Nodes, image: Images, owner: Nat]

ASSUME NodeAssumption ==
    /\ SbNum \in [Paths -> Nums]
    /\ Slots \in [Paths -> SUBSET Nodes]
    /\ Disturbances \subseteq Kinds
    /\ MaxDisturb \in Nat
    /\ None \notin Keys /\ None \notin Entry /\ None \notin VNode /\ None \notin OSD
    /\ \A s \in SUBSET Paths : None # s

VARIABLES
    where,          \* the host a disk is plugged into, or None
    label,          \* the dc label values of a host (its cached Node object)
    agent,          \* hosts with an agent pod in the pod cache
    kube,           \* hosts with a Node object in the cache
    vnode,          \* API server: the VitastorNode of a host
    osd,            \* API server: the VitastorOSD of a number
    placement,      \* etcd: the JSON map /config/node_placement
    vnodeCache,     \* the operator's cache of vnode ...
    osdCache,       \* ... and of osd
    queue,          \* work queue: the keys that are due
    delayed,        \* the keys waiting for a RequeueAfter, and which one
    \* worker
    pc,
    cur,            \* req.Name
    vitastorNode,   \* the copy of the VitastorNode read at the start
    placementLevel, \* the tree read from etcd, modified, not yet written
    osds,           \* the OSDs in the agent's answer
    osdList,        \* the VitastorOSDs of this node, as cached
    todo,           \* the OSDs the create loop has not visited yet
    \* bookkeeping of the model
    nextUid,        \* uid of the next VitastorNode
    budget,         \* disturbances left
    serving         \* history: OSDs whose disk has not left its host, and
                    \* that nobody asked to delete, since they were created

world  == <<where, label, agent, kube>>
caches == <<vnodeCache, osdCache>>
work   == <<queue, delayed>>
locals == <<cur, vitastorNode, placementLevel, osds, osdList, todo>>
vars   == <<world, vnode, osd, placement, caches, work, pc, locals, nextUid, budget, serving>>

PCs == {"idle", "putHost", "agent", "report", "visit", "putOsd", "sweep"}

TypeOK ==
    /\ where \in [Paths -> Nodes \cup {None}]
    /\ label \in [Nodes -> SUBSET Dcs]
    /\ agent \in SUBSET Nodes /\ kube \in SUBSET Nodes
    /\ vnode \in [Nodes -> VNode \cup {None}] /\ vnodeCache \in [Nodes -> VNode \cup {None}]
    /\ osd \in [Nums -> OSD \cup {None}] /\ osdCache \in [Nums -> OSD \cup {None}]
    /\ placement \in [Keys -> Entry \cup {None}]
    /\ queue \in SUBSET Nodes
    /\ delayed \in [Nodes -> {"no", "interval", "rollout"}]
    /\ pc \in PCs
    /\ cur \in Nodes \cup {None} /\ (pc # "idle" => cur \in Nodes)
    /\ vitastorNode \in VNode \cup {None} /\ (pc # "idle" => vitastorNode \in VNode)
    /\ placementLevel \in [Keys -> Entry \cup {None}]
    /\ osds \in SUBSET Paths /\ todo \in SUBSET Paths
    /\ osdList \in [Nums -> OSD \cup {None}]
    /\ nextUid \in Nat /\ budget \in Nat
    /\ serving \in SUBSET Nums

-----------------------------------------------------------------------------
(* The placement tree *)

NoTree == [k \in Keys |-> None]

\* Mutant: the dc is taken to be in the tree already.
LinkHostOnly(m, n, l, p) == [m EXCEPT ![n] = [level |-> "host", parent |-> p]]

\* m with host n linked to dc p, and a dc entry for every label value l that
\* has no entry yet.  The loop over the labels is a loop over a Go map, so p
\* is any of the values: the last one visited wins.
LinkHost(m, n, l, p) ==
    [k \in Keys |-> IF k = n THEN [level |-> "host", parent |-> p]
                    ELSE IF k \in l /\ m[k] = None THEN [level |-> "dc", parent |-> None]
                    ELSE m[k]]

\* m with OSD number k placed under host n.
LinkOsd(m, k, n) == [m EXCEPT ![k] = [level |-> "osd", parent |-> n]]

-----------------------------------------------------------------------------
(* How Reconcile returns *)

NoList == [k \in Nums |-> None]

Return ==
    /\ pc' = "idle"
    /\ cur' = None /\ vitastorNode' = None /\ placementLevel' = NoTree
    /\ osds' = {} /\ osdList' = NoList /\ todo' = {}

\* Result{}, err: the key is queued again after a back-off.
ReturnErr ==
    /\ Return
    /\ queue' = queue \cup {cur}
    /\ UNCHANGED delayed

\* Mutant: nothing comes back after an interval.
ReturnForGood(w) == Return /\ UNCHANGED work

\* Result{RequeueAfter: w}, nil: the queue keeps the earlier of two timers,
\* and 3 minutes ("rollout") is earlier than UPDATE_INTERVAL ("interval").
ReturnAfter(w) ==
    /\ Return
    /\ delayed' = [delayed EXCEPT ![cur] = IF @ = "rollout" THEN @ ELSE w]
    /\ UNCHANGED queue

-----------------------------------------------------------------------------
(* Reconcile *)

\* Mutant: the VitastorNode of a request is taken to exist.
FoundHost(n) == n \in kube

\* The VitastorNode and the Node of a request are cached.
Found(n) == vnodeCache[n] # None /\ n \in kube

\* Take a key, read the VitastorNode and the Node from the cache and the tree
\* from etcd.  Without either object the request is dropped, not requeued.
Begin(n) ==
    /\ pc = "idle" /\ n \in queue
    /\ queue' = queue \ {n}
    /\ IF ~Found(n)
       THEN UNCHANGED <<pc, locals>>
       ELSE /\ pc' = "putHost"
            /\ cur' = n
            /\ vitastorNode' = vnodeCache[n]
            /\ \E p \in IF label[n] = {} THEN {None} ELSE label[n] :
                 placementLevel' = LinkHost(placement, n, label[n], p)
            /\ UNCHANGED <<osds, osdList, todo>>
    /\ UNCHANGED <<world, vnode, osd, placement, caches, delayed, nextUid, budget, serving>>

PutHost ==
    /\ pc = "putHost"
    /\ placement' = placementLevel
    /\ placementLevel' = NoTree
    /\ pc' = "agent"
    /\ UNCHANGED <<world, vnode, osd, caches, work, cur, vitastorNode, osds, osdList, todo,
                   nextUid, budget, serving>>

\* The OSD partitions plugged into host n.
At(n) == {p \in Paths : where[p] = n}

Answer(s) ==
    /\ pc = "agent" /\ cur \in agent
    /\ osds' = s
    /\ pc' = "report"
    /\ UNCHANGED <<world, vnode, osd, placement, caches, work, cur, vitastorNode, placementLevel,
                   osdList, todo, nextUid, serving>>

AskAgent == Answer(At(cur)) /\ UNCHANGED budget

NoAgent ==
    /\ pc = "agent" /\ cur \notin agent
    /\ ReturnAfter("interval")
    /\ UNCHANGED <<world, vnode, osd, placement, caches, nextUid, budget, serving>>

\* Mutant: the list has no field selector.
ListAllOsds(n) == osdCache

\* The cached VitastorOSDs with spec.nodeName = n (the field index).
ListOsds(n) ==
    [k \in Nums |-> IF osdCache[k] # None /\ osdCache[k].node = n THEN osdCache[k] ELSE None]

\* Update the status if it differs from the answer (compareArrays ignores the
\* order, and tells an empty list from none), then list the VitastorOSDs of the
\* node.  The update fails if the object has changed since the copy was read.
Report ==
    /\ pc = "report"
    /\ IF osds # vitastorNode.disks /\ vnode[cur] # vitastorNode
       THEN ReturnErr /\ UNCHANGED vnode
       ELSE /\ vnode' = IF osds = vitastorNode.disks THEN vnode
                        ELSE [vnode EXCEPT ![cur] = [@ EXCEPT !.disks = osds]]
            /\ vitastorNode' = [vitastorNode EXCEPT !.disks = osds]
            /\ osdList' = ListOsds(cur)
            /\ todo' = osds
            /\ pc' = IF osds = {} THEN "sweep" ELSE "visit"
            /\ UNCHANGED <<work, cur, placementLevel, osds>>
    /\ UNCHANGED <<world, osd, placement, caches, nextUid, budget, serving>>

\* contains: some listed VitastorOSD has path p.
Contains(p) == \E k \in Nums : osdList[k] # None /\ osdList[k].path = p

\* getConfiguration and SetControllerReference.
Configuration(p) ==
    [path |-> p, node |-> cur, image |-> vitastorNode.image, owner |-> vitastorNode.uid]

\* Mutants: the tree is not read again; an OSD that has its object is skipped; an
\* OSD is put beside its host.
PlaceAlone(p) == placementLevel' = LinkOsd(NoTree, SbNum[p], cur)
PlaceNew(p) ==
    placementLevel' = IF Contains(p) THEN placement ELSE LinkOsd(placement, SbNum[p], cur)
PlaceBeside(p) ==
    placementLevel' = LinkOsd(placement, SbNum[p], placement[cur].parent)

\* Read the tree and put the OSD of p in it: both branches of the loop do.
Place(p) == placementLevel' = LinkOsd(placement, SbNum[p], cur)

\* One iteration of the create loop up to the read of the tree: create the
\* VitastorOSD unless it is listed (AlreadyExists ends the reconcile), then
\* read the tree and place the OSD in it.
Visit(p) ==
    /\ pc = "visit" /\ p \in todo
    /\ IF Contains(p) \/ osd[SbNum[p]] = None
       THEN /\ IF Contains(p) THEN UNCHANGED <<osd, serving>>
               ELSE /\ osd' = [osd EXCEPT ![SbNum[p]] = Configuration(p)]
                    /\ serving' = IF where[p] = cur THEN serving \cup {SbNum[p]} ELSE serving
            /\ todo' = todo \ {p}
            /\ Place(p)
            /\ pc' = "putOsd"
            /\ UNCHANGED <<work, cur, vitastorNode, osds, osdList>>
       ELSE ReturnErr /\ UNCHANGED <<osd, serving>>
    /\ UNCHANGED <<world, vnode, placement, caches, nextUid, budget>>

PutOsd ==
    /\ pc = "putOsd"
    /\ placement' = placementLevel
    /\ placementLevel' = NoTree
    /\ pc' = IF todo = {} THEN "sweep" ELSE "visit"
    /\ UNCHANGED <<world, vnode, osd, caches, work, cur, vitastorNode, osds, osdList, todo,
                   nextUid, budget, serving>>

\* Mutants: an empty answer deletes nothing; the OSDs left to visit are taken for
\* the answer; the image is never compared.
VanishedFromSome(k) == osds # {} /\ osdList[k] # None /\ osdList[k].path \notin osds
VanishedFromTodo(k) == osdList[k] # None /\ osdList[k].path \notin todo
OutdatedNever(k) == FALSE

\* The two cases in which the last loop does something with a listed OSD.
Vanished(k) == osdList[k] # None /\ osdList[k].path \notin osds
Outdated(k) == osdList[k] # None /\ osdList[k].path \in osds /\ osdList[k].image # vitastorNode.image

\* Delete the VitastorOSD of a disk that is not in the answer.  The request
\* names the object and carries no uid or version; NotFound is an error.
DeleteOsd(k) ==
    /\ pc = "sweep" /\ Vanished(k)
    /\ IF osd[k] = None
       THEN ReturnErr /\ UNCHANGED osd
       ELSE /\ osd' = [osd EXCEPT ![k] = None]
            /\ osdList' = [osdList EXCEPT ![k] = None]
            /\ UNCHANGED <<work, pc, cur, vitastorNode, placementLevel, osds, todo>>
    /\ UNCHANGED <<world, vnode, placement, caches, nextUid, budget, serving>>

\* Update the image of one OSD and come back in 3 minutes; a conflict with a
\* newer object is an error.
UpdateImage(k) ==
    /\ pc = "sweep" /\ Outdated(k)
    /\ IF osd[k] # osdList[k]
       THEN ReturnErr /\ UNCHANGED osd
       ELSE osd' = [osd EXCEPT ![k].image = vitastorNode.image] /\ ReturnAfter("rollout")
    /\ UNCHANGED <<world, vnode, placement, caches, nextUid, budget, serving>>

Finish ==
    /\ pc = "sweep" /\ \A k \in Nums : ~Vanished(k) /\ ~Outdated(k)
    /\ ReturnAfter("interval")
    /\ UNCHANGED <<world, vnode, osd, placement, caches, nextUid, budget, serving>>

Reconcile ==
    \/ PutHost \/ AskAgent \/ NoAgent \/ Report \/ PutOsd \/ Finish
    \/ \E p \in Paths : Visit(p)
    \/ \E k \in Nums : DeleteOsd(k) \/ UpdateImage(k)

-----------------------------------------------------------------------------
(* controller-runtime: caches, event handlers, timers *)

\* A watch event reaches the cache: For(VitastorNode) queues the object.
SyncNode(n) ==
    /\ vnodeCache[n] # vnode[n]
    /\ vnodeCache' = [vnodeCache EXCEPT ![n] = vnode[n]]
    /\ queue' = queue \cup {n}
    /\ UNCHANGED <<world, vnode, osd, placement, osdCache, delayed, pc, locals, nextUid, budget, serving>>

\* Mutant: no Owns(VitastorOSD).
NoOwners(k) == {}

\* Owns(VitastorOSD): the owners of the old and of the new object.
Owners(k) == {o.node : o \in {osdCache[k], osd[k]} \ {None}}

SyncOsd(k) ==
    /\ osdCache[k] # osd[k]
    /\ osdCache' = [osdCache EXCEPT ![k] = osd[k]]
    /\ queue' = queue \cup Owners(k)
    /\ UNCHANGED <<world, vnode, osd, placement, vnodeCache, delayed, pc, locals, nextUid, budget, serving>>

\* The timer of a RequeueAfter expires.
Wake(n) ==
    /\ delayed[n] # "no"
    /\ delayed' = [delayed EXCEPT ![n] = "no"]
    /\ queue' = queue \cup {n}
    /\ UNCHANGED <<world, vnode, osd, placement, caches, pc, locals, nextUid, budget, serving>>

\* The informer's periodic resync queues every cached object.
Resync ==
    /\ queue' = queue \cup {n \in Nodes : vnodeCache[n] # None}
    /\ UNCHANGED <<world, vnode, osd, placement, caches, delayed, pc, locals, nextUid, budget, serving>>

\* Kubernetes deletes an OSD whose owner (by uid) is gone.
Owned(o) == vnode[o.node] # None /\ vnode[o.node].uid = o.owner

CollectOsd(k) ==
    /\ osd[k] # None /\ ~Owned(osd[k])
    /\ osd' = [osd EXCEPT ![k] = None]
    /\ serving' = serving \ {k}
    /\ UNCHANGED <<world, vnode, placement, caches, work, pc, locals, nextUid, budget>>

Runtime ==
    \/ Resync
    \/ \E n \in Nodes : SyncNode(n) \/ Wake(n)
    \/ \E k \in Nums : SyncOsd(k) \/ CollectOsd(k)

-----------------------------------------------------------------------------
(* Disturbances: what users, hardware and failures do, MaxDisturb times *)

Disturb(kind) == kind \in Disturbances /\ budget > 0 /\ budget' = budget - 1

\* A disk is plugged in.  Numbers are allocated by Vitastor, so two disks
\* present at the same time have different ones.
Attach(p, n) ==
    /\ Disturb("attach")
    /\ where[p] = None /\ n \in Slots[p]
    /\ \A q \in Paths : where[q] # None => SbNum[q] # SbNum[p]
    /\ where' = [where EXCEPT ![p] = n]
    /\ UNCHANGED <<label, agent, kube, vnode, osd, placement, caches, work, pc, locals, nextUid, serving>>

Detach(p) ==
    /\ Disturb("detach")
    /\ where[p] # None
    /\ where' = [where EXCEPT ![p] = None]
    /\ serving' = serving \ {SbNum[p]}
    /\ UNCHANGED <<label, agent, kube, vnode, osd, placement, caches, work, pc, locals, nextUid>>

Relabel(n, l) ==
    /\ Disturb("relabel")
    /\ l # label[n]
    /\ label' = [label EXCEPT ![n] = l]
    /\ UNCHANGED <<where, agent, kube, vnode, osd, placement, caches, work, pc, locals, nextUid, serving>>

\* An agent pod, or the Node object of a host, goes away or comes back.
ToggleAgent(n) ==
    /\ Disturb("agent")
    /\ agent' = IF n \in agent THEN agent \ {n} ELSE agent \cup {n}
    /\ UNCHANGED <<where, label, kube, vnode, osd, placement, caches, work, pc, locals, nextUid, serving>>

ToggleKube(n) ==
    /\ Disturb("kube")
    /\ kube' = IF n \in kube THEN kube \ {n} ELSE kube \cup {n}
    /\ UNCHANGED <<where, label, agent, vnode, osd, placement, caches, work, pc, locals, nextUid, serving>>

\* A user changes the image, deletes a VitastorNode or a VitastorOSD; the
\* VitastorCluster controller (or a user) creates a VitastorNode.
SetImage(n, i) ==
    /\ Disturb("image")
    /\ vnode[n] # None /\ vnode[n].image # i
    /\ vnode' = [vnode EXCEPT ![n] = [@ EXCEPT !.image = i]]
    /\ UNCHANGED <<world, osd, placement, caches, work, pc, locals, nextUid, serving>>

DeleteNode(n) ==
    /\ Disturb("delete")
    /\ vnode[n] # None
    /\ vnode' = [vnode EXCEPT ![n] = None]
    /\ UNCHANGED <<world, osd, placement, caches, work, pc, locals, nextUid, serving>>

CreateNode(n, i) ==
    /\ Disturb("create")
    /\ vnode[n] = None
    /\ vnode' = [vnode EXCEPT ![n] = [uid |-> nextUid, image |-> i, disks |-> None]]
    /\ nextUid' = nextUid + 1
    /\ UNCHANGED <<world, osd, placement, caches, work, pc, locals, serving>>

UserDeletesOsd(k) ==
    /\ Disturb("osddelete")
    /\ osd[k] # None
    /\ osd' = [osd EXCEPT ![k] = None]
    /\ serving' = serving \ {k}
    /\ UNCHANGED <<world, vnode, placement, caches, work, pc, locals, nextUid>>

\* A call returns an error, and Reconcile returns it from wherever it is: the call
\* failed, or it took effect and the answer was lost.  The second is not there for
\* UpdateImage, which ends the reconcile: a lost answer of it would only queue the host
\* at once, and the event of the VitastorOSD does that too.
Fail ==
    /\ Disturb("fail")
    /\ pc # "idle"
    /\ ReturnErr
    /\ UNCHANGED <<world, vnode, osd, placement, caches, nextUid, serving>>

\* The operator's process dies and starts again: the queue and the timers are
\* lost, the caches are listed anew and every VitastorNode is queued.
Restart ==
    /\ Disturb("restart")
    /\ Return
    /\ vnodeCache' = vnode /\ osdCache' = osd
    /\ queue' = {n \in Nodes : vnode[n] # None}
    /\ delayed' = [n \in Nodes |-> "no"]
    /\ UNCHANGED <<world, vnode, osd, placement, nextUid, serving>>

\* The agent answers GET /disk/osd with an HTTP error: the status code is not
\* looked at and the error of json.Unmarshal is dropped, so the list is empty.
AgentError == Disturb("http500") /\ Answer({})

\* vitastor-disk read-sb fails on one partition, and the agent leaves it out.
SuperblockUnread(p) == Disturb("readsb") /\ where[p] = cur /\ Answer(At(cur) \ {p})

Environment ==
    \/ \E p \in Paths : Detach(p) \/ SuperblockUnread(p) \/ \E n \in Nodes : Attach(p, n)
    \/ \E n \in Nodes :
         \/ ToggleAgent(n) \/ ToggleKube(n) \/ DeleteNode(n)
         \/ \E l \in SUBSET Dcs : Relabel(n, l)
         \/ \E i \in Images : SetImage(n, i) \/ CreateNode(n, i)
    \/ \E k \in Nums : UserDeletesOsd(k)
    \/ Fail \/ Restart \/ AgentError

-----------------------------------------------------------------------------
(* The operator has just started in a cluster with a VitastorNode per host,
   no VitastorOSD yet, and any disks prepared. *)

Init ==
    /\ where \in [Paths -> Nodes \cup {None}]
    /\ \A p \in Paths : where[p] \in Slots[p] \cup {None}
    /\ \A p, q \in Paths : p # q /\ where[p] # None /\ where[q] # None => SbNum[p] # SbNum[q]
    /\ label = [n \in Nodes |-> {}]
    /\ agent = Nodes /\ kube = Nodes
    /\ \E i \in Images : vnode = [n \in Nodes |-> [uid |-> 0, image |-> i, disks |-> None]]
    /\ osd = NoList
    /\ placement = NoTree
    /\ vnodeCache = vnode /\ osdCache = osd
    /\ queue = Nodes
    /\ delayed = [n \in Nodes |-> "no"]
    /\ pc = "idle"
    /\ cur = None /\ vitastorNode = None /\ placementLevel = NoTree
    /\ osds = {} /\ osdList = NoList /\ todo = {}
    /\ nextUid = 1
    /\ budget = MaxDisturb
    /\ serving = {}

Next == (\E n \in Nodes : Begin(n)) \/ Reconcile \/ Runtime \/ Environment

Spec == Init /\ [][Next]_vars

\* The worker runs, watches deliver, timers fire and the garbage collector
\* works.  A queued key is taken in the end because the queue is first in,
\* first out; Begin(n) is enabled only between reconciles, hence SF.
Fairness ==
    /\ WF_vars(Reconcile)
    /\ \A n \in Nodes : SF_vars(Begin(n)) /\ WF_vars(SyncNode(n)) /\ WF_vars(Wake(n))
    /\ \A k \in Nums : WF_vars(SyncOsd(k)) /\ WF_vars(CollectOsd(k))

FairSpec == Spec /\ Fairness

\* The resync comes every 10 hours, so only a run that needs it assumes it.
ResyncSpec == FairSpec /\ WF_vars(Resync)

-----------------------------------------------------------------------------
(* Properties *)

\* The tree is layered and closed: an OSD hangs under a host, a host under a dc
\* or nothing, a dc under nothing, and the parent is in the tree.  The writes of
\* one reconcile (its host, then each OSD) put back copies read at other times,
\* and must never leave an OSD under a host, or a host under a dc, that is gone.
Closed(m) ==
    /\ \A n \in Nodes : m[n] # None =>
         /\ m[n].level = "host"
         /\ m[n].parent # None => m[n].parent \in Dcs /\ m[m[n].parent] # None
    /\ \A d \in Dcs : m[d] # None => m[d] = [level |-> "dc", parent |-> None]
    /\ \A k \in Nums : m[k] # None =>
         m[k].level = "osd" /\ m[k].parent \in Nodes /\ m[m[k].parent] # None

TreeClosed == Closed(placement)

\* An OSD object whose disk has stayed in its host since the object was made,
\* and that nobody asked to delete, is there: "OSD for that disk disappeared,
\* deleting OSD" (vitastornode_controller.go:386) is the only reason to delete.
KeepsServing == \A k \in serving : osd[k] # None

\* The object of the disk p as OsdLifecycle sees it.
Stage(p) ==
    IF osd[SbNum[p]] = None THEN "none"
    ELSE IF SbNum[p] \in serving THEN "serving" ELSE "retired"

L == INSTANCE OsdLifecycle
     WITH Disks <- Paths, Hosts <- Nodes, place <- where, object <- [p \in Paths |-> Stage(p)]

\* Where disks have numbers of their own and nobody else deletes objects, the
\* create and delete loops (lines 325-396), through their caches, retries and
\* restarts, implement the life cycle: one object per disk, provided once, and
\* withdrawn only after its disk has left.
Lifecycle == L!Spec

\* No write to etcd drops an entry of the placement tree: each of them puts back
\* a whole tree read before, and etcd checks no version.
KeepsPlacement ==
    [][\A k \in Keys : placement[k] # None => placement'[k] # None]_vars

\* A host that the operator knows is never let go of: whatever call fails and
\* wherever Reconcile returns, it is due, in the worker's hands or has a timer,
\* for nothing else tells the operator of a disk.  Where Node objects stay: a
\* request is dropped if there is none (vitastornode_controller.go:131).
HostsAttended ==
    \A n \in Nodes : vnodeCache[n] # None =>
        n \in queue \/ (pc # "idle" /\ cur = n) \/ delayed[n] # "no"

\* Nothing is left to happen to n but the next interval: it is not due and not in
\* the worker's hands, no update of an image is waited for, no watch event is
\* under way and nothing to be collected.
Quiet(n) ==
    /\ n \notin queue /\ ~(pc # "idle" /\ cur = n) /\ delayed[n] # "rollout"
    /\ vnode[n] # None /\ vnodeCache[n] = vnode[n] /\ osdCache = osd
    /\ \A k \in Nums : osd[k] # None => Owned(osd[k])

\* The VitastorOSDs of n are the ones of the disks in its status.
AsReported(n) ==
    /\ vnode[n].disks # None
    /\ \A p \in vnode[n].disks :
         osd[SbNum[p]] = [path |-> p, node |-> n, image |-> vnode[n].image, owner |-> vnode[n].uid]
    /\ \A k \in Nums : osd[k] # None /\ osd[k].node = n => osd[k].path \in vnode[n].disks

\* A host at rest has the VitastorOSDs of the disks in its status, however stale
\* the lists were that its reconciles created and deleted by.  Where disks keep
\* to one host, nobody else deletes a VitastorOSD and every host has its agent:
\* else the host may have to wait for the next interval.
NothingForgotten == \A n \in Nodes : Quiet(n) => AsReported(n)

\* Hosts whose state the operator can see and act on.
Managed(n) == vnode[n] # None /\ n \in agent /\ n \in kube

\* Every OSD disk of a managed host has its object, as the host's VitastorNode
\* asks for it, and every object of a managed host has its disk there.
Converged ==
    /\ \A p \in Paths :
         where[p] # None /\ Managed(where[p]) =>
           osd[SbNum[p]] = [path |-> p, node |-> where[p],
                            image |-> vnode[where[p]].image, owner |-> vnode[where[p]].uid]
    /\ \A k \in Nums :
         osd[k] # None /\ Managed(osd[k].node) => where[osd[k].path] = osd[k].node

\* "move the current state of the cluster closer to the desired state" (line
\* 84): once the disturbances end, the objects match the disks for good.
EventuallyConverged == <>[]Converged

\* Once the disturbances end, every OSD object of a managed host is placed
\* under that host, and the host under its label's dc, for good.
EventuallyPlaced ==
    <>[](/\ \A k \in Nums : osd[k] # None /\ Managed(osd[k].node) =>
              placement[k] = [level |-> "osd", parent |-> osd[k].node]
         /\ \A n \in Nodes : Managed(n) =>
              /\ placement[n] # None
              /\ placement[n].parent \in IF label[n] = {} THEN {None} ELSE label[n])

\* A host with labels of two dcs: the loop over them (line 154) is a loop over a Go
\* map, so its parent is whichever comes last this time.
TwoDcs(n) == \E d, e \in label[n] : d # e

\* Once the disturbances end, the values stop changing: every reconcile of the
\* timers writes the tree all the same, but puts back what it read, and no object
\* is touched.  Only the parent of a host with labels of two dcs may go on changing.
EventuallySettled ==
    <>[][/\ UNCHANGED <<vnode, osd>>
         /\ \A k \in Keys : placement'[k] = placement[k] \/ (k \in Nodes /\ TwoDcs(k))]_vars
=============================================================================
