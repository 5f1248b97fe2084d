--------------------------- MODULE PoolController ---------------------------
(***************************************************************************)
(* The VitastorPool controller (controllers/vitastorpool_controller.go):   *)
(* for every VitastorPool it writes an entry into the JSON map             *)
(* /config/pools in etcd, under spec.id, and keeps a StorageClass of the   *)
(* pool's name whose parameter poolId is that id.                          *)
(*                                                                         *)
(* The map is read, changed and written back whole, without a transaction. *)
(* The VitastorPool and the StorageClass are read from caches that lag.    *)
(***************************************************************************)
EXTENDS Naturals

CONSTANTS
    Names,          \* names of VitastorPools, and of their StorageClasses
    Ids,            \* pool ids: the keys of /config/pools
    IdsOf,          \* IdsOf[n]: the ids users give to pool n
    Layouts,        \* scheme, pg_size, pg_minsize, pg_count, failure_domain, ...
    None,           \* an absent object or entry
    Disturbances,   \* the kinds of disturbance a run allows ...
    MaxDisturb      \* ... and how many of them happen in one behaviour

Kinds == {"create", "delete", "relayout", "reid", "scdelete", "fail", "restart"}

Pool  == [uid: Nat, id: Ids, layout: Layouts]
Entry == [name: Names \cup {None}, layout: Layouts]
Class == [owner: Nat, poolId: Ids]

ASSUME PoolAssumption ==
    /\ IdsOf \in [Names -> SUBSET Ids]
    /\ Disturbances \subseteq Kinds
    /\ MaxDisturb \in Nat
    /\ None \notin Names /\ None \notin Pool /\ None \notin Entry /\ None \notin Class

VARIABLES
    pool,           \* API server: the VitastorPool of a name
    class,          \* API server: the StorageClass of a name
    config,         \* etcd: the JSON map /config/pools
    poolCache,      \* the operator's cache of pool ...
    classCache,     \* ... and of class
    queue,          \* work queue: the names that are due
    pc,
    cur,            \* req.Name
    vitastorPool,   \* the VitastorPool read from the cache
    pools,          \* the map read from etcd, with the entry of vitastorPool
    \* bookkeeping of the model
    nextUid,        \* uid of the next VitastorPool
    budget,         \* disturbances left
    edited          \* history: VitastorPools whose id a user has edited

objects == <<pool, class>>
caches  == <<poolCache, classCache>>
locals  == <<pc, cur, vitastorPool, pools>>
vars    == <<objects, config, caches, queue, locals, nextUid, budget, edited>>

TypeOK ==
    /\ pool \in [Names -> Pool \cup {None}] /\ poolCache \in [Names -> Pool \cup {None}]
    /\ class \in [Names -> Class \cup {None}] /\ classCache \in [Names -> Class \cup {None}]
    /\ config \in [Ids -> Entry \cup {None}]
    /\ queue \in SUBSET Names
    /\ pc \in {"idle", "put", "create"}
    /\ cur \in Names \cup {None} /\ (pc # "idle" => cur \in Names)
    /\ vitastorPool \in Pool \cup {None} /\ (pc # "idle" => vitastorPool \in Pool)
    /\ pools \in [Ids -> Entry \cup {None}]
    /\ nextUid \in Nat /\ budget \in Nat /\ edited \in SUBSET Names

-----------------------------------------------------------------------------
(* Reconcile *)

NoPools == [i \in Ids |-> None]

Return == pc' = "idle" /\ cur' = None /\ vitastorPool' = None /\ pools' = NoPools

\* Result{}, nil.
Done == Return /\ UNCHANGED queue

\* Result{Requeue: true}, nil and Result{}, err: the name is queued again.
Requeue == Return /\ queue' = queue \cup {cur}

\* The entry of pool o of name n.  Layout stands for the fields that are copied
\* from the spec; maxOSDCombinations, blockSize, immediateCommit and osdTags are
\* not.
PoolConfig(n, o) == [name |-> n, layout |-> o.layout]

\* Mutants: the map is taken to be empty; an entry is written only once.
WithPoolAlone(m, n, o) == [NoPools EXCEPT ![o.id] = PoolConfig(n, o)]
WithPoolOnce(m, n, o) == IF m[o.id] = None THEN [m EXCEPT ![o.id] = PoolConfig(n, o)] ELSE m

\* The map m with the entry of o.  What VitastorPoolConfig has no field for is
\* lost from every entry when the map is marshalled, and is not modelled.
WithPool(m, n, o) == [m EXCEPT ![o.id] = PoolConfig(n, o)]

\* Take a name, read the VitastorPool from the cache and the map from etcd.
Begin(n) ==
    /\ pc = "idle" /\ n \in queue
    /\ queue' = queue \ {n}
    /\ IF poolCache[n] = None
       THEN UNCHANGED locals
       ELSE /\ pc' = "put"
            /\ cur' = n
            /\ vitastorPool' = poolCache[n]
            /\ pools' = WithPool(config, n, poolCache[n])
    /\ UNCHANGED <<objects, config, caches, nextUid, budget, edited>>

\* Mutant: the StorageClass is made first, and only then the entry written.
PutLater == config' = IF classCache[cur] = None THEN config ELSE pools

\* Write the map back.
Put == config' = pools

\* Write the map back and look for the StorageClass; it is never updated.
PutPools ==
    /\ pc = "put"
    /\ Put
    /\ IF classCache[cur] = None
       THEN /\ pc' = "create"
            /\ UNCHANGED <<queue, cur, vitastorPool, pools>>
       ELSE Done
    /\ UNCHANGED <<objects, caches, nextUid, budget, edited>>

\* Mutants: the parameter is the name of the pool; the owner is looked up by
\* name when the StorageClass is made.
StorageClassNamed(o) == [owner |-> o.uid, poolId |-> cur]
StorageClassByName(o) ==
    [owner |-> IF pool[cur] = None THEN o.uid ELSE pool[cur].uid, poolId |-> o.id]

\* getStorageClassConfig and SetControllerReference.
StorageClass(o) == [owner |-> o.uid, poolId |-> o.id]

\* Create the StorageClass; AlreadyExists is an error.
CreateClass ==
    /\ pc = "create"
    /\ class' = IF class[cur] = None THEN [class EXCEPT ![cur] = StorageClass(vitastorPool)] ELSE class
    /\ Requeue
    /\ UNCHANGED <<pool, config, caches, nextUid, budget, edited>>

Reconcile == PutPools \/ CreateClass

-----------------------------------------------------------------------------
(* controller-runtime and Kubernetes *)

SyncPool(n) ==
    /\ poolCache[n] # pool[n]
    /\ poolCache' = [poolCache EXCEPT ![n] = pool[n]]
    /\ queue' = queue \cup {n}
    /\ UNCHANGED <<objects, config, classCache, locals, nextUid, budget, edited>>

\* Mutant: no Owns(StorageClass).
NoOwner(n) == {}

\* Owns(StorageClass): the owner's name, which is the StorageClass's own.
Owner(n) == {n}

SyncClass(n) ==
    /\ classCache[n] # class[n]
    /\ classCache' = [classCache EXCEPT ![n] = class[n]]
    /\ queue' = queue \cup Owner(n)
    /\ UNCHANGED <<objects, config, poolCache, locals, nextUid, budget, edited>>

\* The informers' periodic resync.
Resync ==
    /\ queue' = queue \cup {n \in Names : poolCache[n] # None \/ classCache[n] # None}
    /\ UNCHANGED <<objects, config, caches, locals, nextUid, budget, edited>>

\* Kubernetes deletes a StorageClass whose owner (by uid) is gone.
Owned(n) == pool[n] # None /\ pool[n].uid = class[n].owner

CollectClass(n) ==
    /\ class[n] # None /\ ~Owned(n)
    /\ class' = [class EXCEPT ![n] = None]
    /\ UNCHANGED <<pool, config, caches, queue, locals, nextUid, budget, edited>>

Runtime == Resync \/ \E n \in Names : SyncPool(n) \/ SyncClass(n) \/ CollectClass(n)

-----------------------------------------------------------------------------
(* Disturbances, MaxDisturb times *)

Disturb(kind) == kind \in Disturbances /\ budget > 0 /\ budget' = budget - 1

CreatePool(n, o) ==
    /\ Disturb("create")
    /\ pool[n] = None
    /\ pool' = [pool EXCEPT ![n] = o]
    /\ nextUid' = nextUid + 1
    /\ UNCHANGED <<class, config, caches, queue, locals, edited>>

DeletePool(n) ==
    /\ Disturb("delete")
    /\ pool[n] # None
    /\ pool' = [pool EXCEPT ![n] = None]
    /\ edited' = edited \ {n}
    /\ UNCHANGED <<class, config, caches, queue, locals, nextUid>>

\* A user edits a VitastorPool: its layout, or its id.
Relayout(n, l) ==
    /\ Disturb("relayout")
    /\ pool[n] # None /\ pool[n].layout # l
    /\ pool' = [pool EXCEPT ![n].layout = l]
    /\ UNCHANGED <<class, config, caches, queue, locals, nextUid, edited>>

Reid(n, i) ==
    /\ Disturb("reid")
    /\ pool[n] # None /\ pool[n].id # i
    /\ pool' = [pool EXCEPT ![n].id = i]
    /\ edited' = edited \cup {n}
    /\ UNCHANGED <<class, config, caches, queue, locals, nextUid>>

DeleteClass(n) ==
    /\ Disturb("scdelete")
    /\ class[n] # None
    /\ class' = [class EXCEPT ![n] = None]
    /\ UNCHANGED <<pool, config, caches, queue, locals, nextUid, edited>>

\* A call returns an error: it failed, or it took effect and the answer was lost.  The
\* second is not there for a write of the map that ends the reconcile, as the
\* StorageClass is there: a lost answer of it would only queue the name, and the same
\* entry would be written again.
Fail ==
    /\ Disturb("fail")
    /\ pc # "idle"
    /\ Requeue
    /\ UNCHANGED <<objects, config, caches, nextUid, edited>>

Restart ==
    /\ Disturb("restart")
    /\ Return
    /\ poolCache' = pool /\ classCache' = class
    /\ queue' = {n \in Names : pool[n] # None \/ class[n] # None}
    /\ UNCHANGED <<objects, config, nextUid, edited>>

\* What a user may write for pool n.
Desired(n, uid) ==
    [uid: {uid}, id: IdsOf[n], layout: Layouts]

Environment ==
    \/ \E n \in Names :
         \/ DeletePool(n) \/ DeleteClass(n)
         \/ \E l \in Layouts : Relayout(n, l)
         \/ \E i \in IdsOf[n] : Reid(n, i)
         \/ \E o \in Desired(n, nextUid) : CreatePool(n, o)
    \/ Fail \/ Restart

-----------------------------------------------------------------------------
(* The operator has just started; /config/pools may hold pools that someone
   else made, at any id. *)

Init ==
    /\ pool \in [Names -> UNION {Desired(n, 0) : n \in Names} \cup {None}]
    /\ \A n \in Names : pool[n] # None => pool[n] \in Desired(n, 0)
    /\ class = [n \in Names |-> None]
    /\ config \in [Ids -> [name: {None}, layout: Layouts] \cup {None}]
    /\ poolCache = pool /\ classCache = class
    /\ queue = {n \in Names : pool[n] # None}
    /\ pc = "idle" /\ cur = None /\ vitastorPool = None /\ pools = NoPools
    /\ nextUid = 1
    /\ budget = MaxDisturb
    /\ edited = {}

Next == (\E n \in Names : Begin(n)) \/ Reconcile \/ Runtime \/ Environment

Spec == Init /\ [][Next]_vars

\* The worker runs, watches deliver and the garbage collector works; the
\* resync is not counted on.  The queue is first in, first out, hence SF.
Fairness ==
    /\ WF_vars(Reconcile)
    /\ \A n \in Names :
         SF_vars(Begin(n)) /\ WF_vars(SyncPool(n)) /\ WF_vars(SyncClass(n)) /\ WF_vars(CollectClass(n))

FairSpec == Spec /\ Fairness

-----------------------------------------------------------------------------
(* Properties *)

\* A StorageClass never offers a pool that is not configured in etcd: the entry
\* is written before the StorageClass is made, through any crash between the
\* two, and no later write of the whole map loses it.
OfferedIsConfigured ==
    \A n \in Names : class[n] # None => config[class[n].poolId] # None

\* No write of the whole map loses the entry of another pool, the ones no
\* VitastorPool describes included.
KeepsPools == [][\A i \in Ids : config[i] # None => config'[i] # None]_vars

\* A StorageClass that the VitastorPool of its name owns offers that pool, unless
\* a user has edited its id: one made from an older VitastorPool of the name has
\* the older uid.
OwnedOffersItsPool ==
    \A n \in Names \ edited : class[n] # None /\ Owned(n) => class[n].poolId = pool[n].id

\* Once the disturbances end, every VitastorPool has its StorageClass, with its
\* id unless that was edited, and no other is left: "perform operations to make
\* the cluster state reflect the state specified by the user"
\* (vitastorpool_controller.go:66).
Offered(n) ==
    IF pool[n] = None THEN class[n] = None
    ELSE /\ class[n] # None /\ class[n].owner = pool[n].uid
         /\ n \notin edited => class[n].poolId = pool[n].id

EventuallyOffered == <>[](\A n \in Names : Offered(n))

\* Once the disturbances end, the entry of every VitastorPool whose id is given
\* to no other has its layout.  Of pools that shared an id the last one written
\* stays, after its VitastorPool is deleted too.
Alone(n) == \A m \in Names \ {n} : pool[n].id \notin IdsOf[m]

LaidOut(n) ==
    pool[n] # None /\ Alone(n) =>
        /\ config[pool[n].id] # None
        /\ config[pool[n].id].layout = pool[n].layout

EventuallyLaidOut == <>[](\A n \in Names : LaidOut(n))

\* Nothing is left to happen to n: its name is not due and not in the worker's
\* hands, no watch event of it is under way and nothing of it to be collected.
Quiet(n) ==
    /\ n \notin queue /\ ~(pc # "idle" /\ cur = n)
    /\ poolCache[n] = pool[n] /\ classCache[n] = class[n]
    /\ class[n] # None => Owned(n)

\* No VitastorPool is forgotten: one without its entry or its StorageClass is
\* due, or an event is under way that makes it due.  The entry is written from a
\* cached VitastorPool and nothing is requeued after it when there is a
\* StorageClass (vitastorpool_controller.go:127-138).
NothingForgotten == \A n \in Names : Quiet(n) => Offered(n) /\ LaidOut(n)
=============================================================================
