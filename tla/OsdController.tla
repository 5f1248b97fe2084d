---------------------------- MODULE OsdController ----------------------------
(***************************************************************************)
(* The VitastorOSD controller (controllers/vitastorosd_controller.go): it  *)
(* keeps one StatefulSet per VitastorOSD, under the name of the object,    *)
(* and updates nothing in it but the image.  Its objects come and go under *)
(* its hands: the VitastorNode controller deletes a VitastorOSD and makes  *)
(* another with the same name and a new uid when a disk moves, and the     *)
(* StatefulSet of the old one is collected some time later.                *)
(*                                                                         *)
(* The worker reads caches that lag and writes to the API server, so       *)
(* Begin and the write that follows it are two actions.                    *)
(***************************************************************************)
EXTENDS Naturals

CONSTANTS
    Nums,           \* names of VitastorOSDs (by OSD number)
    Nodes,          \* hosts
    Images,         \* container images
    None,           \* an absent object
    Disturbances,   \* the kinds of disturbance a run allows ...
    MaxDisturb      \* ... and how many of them happen in one behaviour

Kinds == {"create", "delete", "image", "respec", "stsdelete", "fail", "restart"}

\* The path of the disk changes with its host, so node stands for both.
OSD == [uid: Nat, node: Nodes, image: Images]
STS == [owner: Nat, node: Nodes, image: Images]

ASSUME OsdAssumption ==
    /\ Disturbances \subseteq Kinds
    /\ MaxDisturb \in Nat
    /\ None \notin Nums /\ None \notin OSD /\ None \notin STS

VARIABLES
    osd,            \* API server: the VitastorOSD of a name
    sts,            \* API server: the StatefulSet of a name
    osdCache,       \* the operator's cache of osd ...
    stsCache,       \* ... and of sts
    queue,          \* work queue: the names that are due
    pc,
    cur,            \* req.Name
    vitastorOSD,    \* the VitastorOSD and ...
    foundSts,       \* ... the StatefulSet read from the caches
    \* bookkeeping of the model
    nextUid,        \* uid of the next VitastorOSD
    budget,         \* disturbances left
    edited          \* history: VitastorOSDs whose host a user has edited

objects == <<osd, sts>>
caches  == <<osdCache, stsCache>>
locals  == <<pc, cur, vitastorOSD, foundSts>>
vars    == <<objects, caches, queue, locals, nextUid, budget, edited>>

TypeOK ==
    /\ osd \in [Nums -> OSD \cup {None}] /\ osdCache \in [Nums -> OSD \cup {None}]
    /\ sts \in [Nums -> STS \cup {None}] /\ stsCache \in [Nums -> STS \cup {None}]
    /\ queue \in SUBSET Nums
    /\ pc \in {"idle", "create", "image"}
    /\ cur \in Nums \cup {None} /\ (pc # "idle" => cur \in Nums)
    /\ vitastorOSD \in OSD \cup {None} /\ (pc # "idle" => vitastorOSD \in OSD)
    /\ foundSts \in STS \cup {None} /\ (pc = "image" => foundSts \in STS)
    /\ nextUid \in Nat /\ budget \in Nat /\ edited \in SUBSET Nums

-----------------------------------------------------------------------------
(* Reconcile *)

Return == pc' = "idle" /\ cur' = None /\ vitastorOSD' = None /\ foundSts' = None

\* Result{}, nil.
Done == Return /\ UNCHANGED queue

\* Result{Requeue: true}, nil and Result{}, err: the name is queued again.
Requeue == Return /\ queue' = queue \cup {cur}

\* Mutant: a VitastorOSD that is not found is not the end of the reconcile.
SettledByName(k) ==
    stsCache[k] # None /\ (osdCache[k] # None => stsCache[k].image = osdCache[k].image)

\* There is nothing to do: the VitastorOSD is not found, or its StatefulSet is
\* found with the image it asks for.  Nothing but the image is compared.
Settled(k) ==
    osdCache[k] # None => stsCache[k] # None /\ stsCache[k].image = osdCache[k].image

\* Take a name and read both objects from the caches.
Begin(k) ==
    /\ pc = "idle" /\ k \in queue
    /\ queue' = queue \ {k}
    /\ IF Settled(k)
       THEN UNCHANGED locals
       ELSE /\ pc' = IF stsCache[k] = None THEN "create" ELSE "image"
            /\ cur' = k
            /\ vitastorOSD' = osdCache[k]
            /\ foundSts' = stsCache[k]
    /\ UNCHANGED <<objects, caches, nextUid, budget, edited>>

\* Mutant: the owner is looked up by name when the StatefulSet is made.
ConfigurationByName(o) ==
    [owner |-> IF osd[cur] = None THEN o.uid ELSE osd[cur].uid, node |-> o.node, image |-> o.image]

\* getConfiguration and SetControllerReference.
Configuration(o) == [owner |-> o.uid, node |-> o.node, image |-> o.image]

\* Create the StatefulSet; AlreadyExists is an error.
CreateSts ==
    /\ pc = "create"
    /\ sts' = IF sts[cur] = None THEN [sts EXCEPT ![cur] = Configuration(vitastorOSD)] ELSE sts
    /\ Requeue
    /\ UNCHANGED <<osd, caches, nextUid, budget, edited>>

\* Update the image in the copy and write it back; a StatefulSet that has
\* changed since the copy was cached is a conflict, an error.
UpdateSts ==
    /\ pc = "image"
    /\ IF sts[cur] = foundSts
       THEN sts' = [sts EXCEPT ![cur].image = vitastorOSD.image] /\ Done
       ELSE Requeue /\ UNCHANGED sts
    /\ UNCHANGED <<osd, caches, nextUid, budget, edited>>

Reconcile == CreateSts \/ UpdateSts

-----------------------------------------------------------------------------
(* controller-runtime and Kubernetes *)

SyncOsd(k) ==
    /\ osdCache[k] # osd[k]
    /\ osdCache' = [osdCache EXCEPT ![k] = osd[k]]
    /\ queue' = queue \cup {k}
    /\ UNCHANGED <<objects, stsCache, locals, nextUid, budget, edited>>

\* Mutant: no Owns(StatefulSet).
NoOwner(k) == {}

\* Owns(StatefulSet): the name of the controller in an object's ownerReferences.
\* Its uid is not looked at, and the StatefulSet has the name of its VitastorOSD.
Owner(k) == {k}

SyncSts(k) ==
    /\ stsCache[k] # sts[k]
    /\ stsCache' = [stsCache EXCEPT ![k] = sts[k]]
    /\ queue' = queue \cup Owner(k)
    /\ UNCHANGED <<objects, osdCache, locals, nextUid, budget, edited>>

\* Kubernetes deletes a StatefulSet whose owner (by uid) is gone.
Owned(k) == osd[k] # None /\ osd[k].uid = sts[k].owner

CollectSts(k) ==
    /\ sts[k] # None /\ ~Owned(k)
    /\ sts' = [sts EXCEPT ![k] = None]
    /\ UNCHANGED <<osd, caches, queue, locals, nextUid, budget, edited>>

\* The informers' periodic resync queues every object and every owner.
Resync ==
    /\ queue' = queue \cup {k \in Nums : osdCache[k] # None \/ stsCache[k] # None}
    /\ UNCHANGED <<objects, caches, locals, nextUid, budget, edited>>

Runtime == Resync \/ \E k \in Nums : SyncOsd(k) \/ SyncSts(k) \/ CollectSts(k)

-----------------------------------------------------------------------------
(* Disturbances, MaxDisturb times.  The first three are what the VitastorNode
   controller does, on behalf of disks and users. *)

Disturb(kind) == kind \in Disturbances /\ budget > 0 /\ budget' = budget - 1

CreateOsd(k, n, i) ==
    /\ Disturb("create")
    /\ osd[k] = None
    /\ osd' = [osd EXCEPT ![k] = [uid |-> nextUid, node |-> n, image |-> i]]
    /\ nextUid' = nextUid + 1
    /\ UNCHANGED <<sts, caches, queue, locals, edited>>

DeleteOsd(k) ==
    /\ Disturb("delete")
    /\ osd[k] # None
    /\ osd' = [osd EXCEPT ![k] = None]
    /\ edited' = edited \ {k}
    /\ UNCHANGED <<sts, caches, queue, locals, nextUid>>

SetImage(k, i) ==
    /\ Disturb("image")
    /\ osd[k] # None /\ osd[k].image # i
    /\ osd' = [osd EXCEPT ![k].image = i]
    /\ UNCHANGED <<sts, caches, queue, locals, nextUid, edited>>

\* A user edits spec.nodeName and spec.osdPath of a VitastorOSD.
Respec(k, n) ==
    /\ Disturb("respec")
    /\ osd[k] # None /\ osd[k].node # n
    /\ osd' = [osd EXCEPT ![k].node = n]
    /\ edited' = edited \cup {k}
    /\ UNCHANGED <<sts, caches, queue, locals, nextUid>>

\* A user deletes a StatefulSet.
DeleteSts(k) ==
    /\ Disturb("stsdelete")
    /\ sts[k] # None
    /\ sts' = [sts EXCEPT ![k] = None]
    /\ UNCHANGED <<osd, caches, queue, locals, nextUid, edited>>

\* A call returns an error: it failed, or it took effect and the answer was lost.  The
\* second is not there for the update of an image, which ends the reconcile: a lost
\* answer of it would only queue the name, and the event of the StatefulSet does that too.
Fail ==
    /\ Disturb("fail")
    /\ pc # "idle"
    /\ Requeue
    /\ UNCHANGED <<objects, caches, nextUid, edited>>

Restart ==
    /\ Disturb("restart")
    /\ Return
    /\ osdCache' = osd /\ stsCache' = sts
    /\ queue' = {k \in Nums : osd[k] # None \/ sts[k] # None}
    /\ UNCHANGED <<objects, nextUid, edited>>

Environment ==
    \/ \E k \in Nums :
         \/ DeleteOsd(k) \/ DeleteSts(k)
         \/ \E i \in Images : SetImage(k, i)
         \/ \E n \in Nodes : Respec(k, n) \/ \E i \in Images : CreateOsd(k, n, i)
    \/ Fail \/ Restart

-----------------------------------------------------------------------------
(* The operator has just started; no VitastorOSD has a StatefulSet yet. *)

Init ==
    /\ osd \in [Nums -> [uid: {0}, node: Nodes, image: Images] \cup {None}]
    /\ sts = [k \in Nums |-> None]
    /\ osdCache = osd /\ stsCache = sts
    /\ queue = {k \in Nums : osd[k] # None}
    /\ pc = "idle" /\ cur = None /\ vitastorOSD = None /\ foundSts = None
    /\ nextUid = 1
    /\ budget = MaxDisturb
    /\ edited = {}

Next == (\E k \in Nums : Begin(k)) \/ Reconcile \/ Runtime \/ Environment

Spec == Init /\ [][Next]_vars

\* The worker runs, watches deliver and the garbage collector works; the
\* resync is not counted on.  The queue is first in, first out, hence SF.
Fairness ==
    /\ WF_vars(Reconcile)
    /\ \A k \in Nums :
         SF_vars(Begin(k)) /\ WF_vars(SyncOsd(k)) /\ WF_vars(SyncSts(k)) /\ WF_vars(CollectSts(k))

FairSpec == Spec /\ Fairness

-----------------------------------------------------------------------------
(* Properties *)

\* A StatefulSet that the VitastorOSD of its name owns runs on that object's
\* host, unless a user has edited the host: a create computed from an older
\* VitastorOSD of the same name leaves a StatefulSet of the older uid, which the
\* collector takes, and never one that the new object would keep as its own on
\* the old host.
OwnedOnItsHost ==
    \A k \in Nums \ edited : sts[k] # None /\ Owned(k) => sts[k].node = osd[k].node

\* Once the disturbances end, every VitastorOSD has the StatefulSet it asks for,
\* but for an edited host, and no other StatefulSet is left: "move the current
\* state of the cluster closer to the desired state"
\* (vitastorosd_controller.go:168).
Matches(k) ==
    IF osd[k] = None THEN sts[k] = None
    ELSE /\ sts[k] # None
         /\ sts[k].owner = osd[k].uid /\ sts[k].image = osd[k].image
         /\ k \notin edited => sts[k].node = osd[k].node

EventuallyMatches == <>[](\A k \in Nums : Matches(k))

\* Nothing is left to happen to k: its name is not due and not in the worker's
\* hands, no watch event of it is under way and nothing of it to be collected.
Quiet(k) ==
    /\ k \notin queue /\ ~(pc # "idle" /\ cur = k)
    /\ osdCache[k] = osd[k] /\ stsCache[k] = sts[k]
    /\ sts[k] # None => Owned(k)

\* No VitastorOSD is forgotten: one that does not have what it asks for is due,
\* or an event is under way that makes it due.  After the update of an image
\* (vitastorosd_controller.go:211-218) nothing is requeued, and a StatefulSet
\* that is deleted or collected is told only by the watch of what is owned.
NothingForgotten == \A k \in Nums : Quiet(k) => Matches(k)
=============================================================================
