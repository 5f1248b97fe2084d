------------------------------ MODULE Operator ------------------------------
(***************************************************************************)
(* The operator's process (main.go) with the two controllers that put an   *)
(* OSD daemon on a disk: the VitastorNode controller makes and deletes the *)
(* VitastorOSDs that the VitastorOSD controller makes StatefulSets for.    *)
(* They share the API server, the manager's cache of VitastorOSDs and the  *)
(* process; each has a queue and a worker of its own.                      *)
(*                                                                         *)
(* NodeController is extended with the uid of every VitastorOSD, which     *)
(* that controller does not look at; OsdController is instantiated, its    *)
(* VitastorOSDs being those of NodeController.  An object that comes, goes *)
(* or changes under its hands, a disturbance of OsdController alone, is    *)
(* here the work of the other controller.                                  *)
(***************************************************************************)
EXTENDS NodeController

CONSTANT
    OsdDisturbances \* the kinds of disturbance of OsdController a run allows

VARIABLES
    uid,            \* API server: the uid of the VitastorOSD of a number, or 0, ...
    uidCache,       \* ... and of the one in the cache
    sts,            \* API server: the StatefulSet of a number ...
    stsCache,       \* ... and the operator's cache of it
    osdQueue,       \* the VitastorOSD controller's work queue ...
    osdPc, osdCur, vitastorOSD, foundSts    \* ... and worker

osdWorker == <<osdPc, osdCur, vitastorOSD, foundSts>>
osdOnly   == <<sts, stsCache, osdQueue, osdWorker>>
allVars   == <<vars, uid, uidCache, osdOnly>>

\* A VitastorOSD with its uid, as the VitastorOSD controller reads it.
Object(o, u) == IF o = None THEN None ELSE [uid |-> u, node |-> o.node, image |-> o.image]

O == INSTANCE OsdController WITH
       osd      <- [k \in Nums |-> Object(osd[k], uid[k])],
       osdCache <- [k \in Nums |-> Object(osdCache[k], uidCache[k])],
       queue    <- osdQueue, pc <- osdPc, cur <- osdCur,
       Disturbances <- OsdDisturbances, nextUid <- 0, edited <- {}

ASSUME OperatorAssumption ==
    /\ OsdDisturbances \subseteq O!Kinds
    /\ None \notin O!OSD /\ None \notin O!STS

-----------------------------------------------------------------------------
(* Steps *)

\* The uids of VitastorOSDs called k that anything still refers to.  They are only
\* compared with each other, so a new one is the least that is not among them.
Referred(k) ==
    {uid[k], uidCache[k]} \cup {s.owner : s \in {sts[k], stsCache[k]} \ {None}}
    \cup IF osdCur = k THEN {vitastorOSD.uid} \cup {s.owner : s \in {foundSts} \ {None}} ELSE {}

NewUid(k) == CHOOSE u \in 1..7 : u \notin Referred(k) /\ \A v \in 1..(u - 1) : v \in Referred(k)

\* A step of NodeController: whoever makes a VitastorOSD gives it a new uid.
Node(A) ==
    /\ A
    /\ uid' = [k \in Nums |-> IF osd'[k] = None THEN 0 ELSE IF osd[k] = None THEN NewUid(k) ELSE uid[k]]
    /\ UNCHANGED <<uidCache, osdOnly>>

\* A step of OsdController, and one that is a disturbance.
Osd(A) == UNCHANGED <<vars, uid, uidCache>> /\ A

Disturbed(A) ==
    /\ UNCHANGED <<world, vnode, osd, placement, caches, work, pc, locals, nextUid, serving>>
    /\ UNCHANGED <<uid, uidCache>>
    /\ A

\* One cache serves both controllers: the event of a VitastorOSD queues its host
\* in one and its name in the other.
SyncObject(k) ==
    /\ osdCache' = [osdCache EXCEPT ![k] = osd[k]]
    /\ uidCache' = [uidCache EXCEPT ![k] = uid[k]]
    /\ queue' = queue \cup Owners(k)
    /\ UNCHANGED <<world, vnode, osd, uid, placement, vnodeCache, delayed, pc, locals, nextUid, budget, serving>>
    /\ O!SyncOsd(k)

\* Both controllers go down and come up together.
RestartBoth ==
    /\ Restart
    /\ uidCache' = uid /\ UNCHANGED uid
    /\ O!Restart

Synced == \E k \in Nums : SyncObject(k) \/ Osd(O!SyncSts(k))

Work ==
    \/ Node(Reconcile) \/ Osd(O!Reconcile)
    \/ \E n \in Nodes : Node(Begin(n))
    \/ \E k \in Nums : Osd(O!Begin(k))

Surroundings ==
    \/ \E n \in Nodes : Node(SyncNode(n)) \/ Node(Wake(n))
    \/ \E k \in Nums : Osd(O!CollectSts(k))

Disturbance ==
    \/ \E p \in Paths : Node(Detach(p)) \/ \E n \in Nodes : Node(Attach(p, n))
    \/ Node(Fail) \/ Disturbed(O!Fail) \/ RestartBoth

OperatorInit ==
    /\ Init
    /\ uid = [k \in Nums |-> 0] /\ uidCache = uid
    /\ sts = NoList /\ stsCache = sts
    /\ osdQueue = {} /\ osdPc = "idle" /\ osdCur = None /\ vitastorOSD = None /\ foundSts = None

OperatorNext == Work \/ Synced \/ Surroundings \/ Disturbance

OperatorSpec == OperatorInit /\ [][OperatorNext]_allVars

\* What NodeController and OsdController assume, of their steps in the whole.
OperatorFairness ==
    /\ WF_allVars(Node(Reconcile)) /\ WF_allVars(Osd(O!Reconcile))
    /\ \A n \in Nodes :
         /\ SF_allVars(Node(Begin(n)))
         /\ WF_allVars(Node(SyncNode(n))) /\ WF_allVars(Node(Wake(n)))
    /\ \A k \in Nums :
         /\ SF_allVars(Osd(O!Begin(k)))
         /\ WF_allVars(SyncObject(k)) /\ WF_allVars(Osd(O!SyncSts(k))) /\ WF_allVars(Osd(O!CollectSts(k)))

FairOperator == OperatorSpec /\ OperatorFairness

-----------------------------------------------------------------------------
(* Properties *)

\* The StatefulSet of a number belongs to the VitastorOSD of that number.
Runs(k) == osd[k] # None /\ sts[k] # None /\ sts[k].owner = uid[k]

\* A daemon that belongs to the VitastorOSD of a disk that has stayed where it was
\* seen runs on that host: what the agent of one host said, through two
\* controllers, their caches and a StatefulSet that was made for an older
\* VitastorOSD of the same name, never puts it on another host.
DaemonWithItsDisk ==
    \A k \in serving : Runs(k) => sts[k].node = where[osd[k].path]

\* No VitastorOSD is forgotten while the VitastorNode controller makes, updates and
\* deletes them under the VitastorOSD controller's hands: if none of its work, watch
\* events and collections is outstanding for one, it has its StatefulSet, on its host.
NoDaemonForgotten == O!NothingForgotten

\* "move the current state of the cluster closer to the desired state" from one
\* end to the other: once the disturbances end, every OSD disk of a managed host
\* has a daemon on that host, with the image its VitastorNode asks for, and no
\* daemon is left on a managed host for a disk that is not there.
Served ==
    /\ \A p \in Paths :
         where[p] # None /\ Managed(where[p]) =>
           LET k == SbNum[p] IN
             Runs(k) /\ sts[k].node = where[p] /\ sts[k].image = vnode[where[p]].image
    /\ \A k \in Nums :
         sts[k] # None /\ Managed(sts[k].node) =>
           \E p \in Paths : SbNum[p] = k /\ where[p] = sts[k].node

EventuallyServed == <>[]Served
=============================================================================
