------------------------ MODULE PoolControllerProofs ------------------------
(***************************************************************************)
(* Theorems about the VitastorPool controller, for any pools, ids, layouts *)
(* and disturbances: type correctness; no entry of /config/pools is lost   *)
(* and no StorageClass offers a pool without one; a StorageClass its       *)
(* VitastorPool owns has the VitastorPool's id; and no VitastorPool is     *)
(* left without its entry or its StorageClass unless it is due.            *)
(***************************************************************************)
EXTENDS PoolController, TLAPS

-----------------------------------------------------------------------------
(* Type correctness *)

USE PoolAssumption

LEMMA NoPoolsType == NoPools \in [Ids -> Entry \cup {None}]
BY DEF NoPools

LEMMA DesiredType ==
    ASSUME NEW n \in Names, NEW uid \in Nat, NEW o \in Desired(n, uid)
    PROVE  o \in Pool /\ o.uid = uid /\ o # None
<1>1. IdsOf[n] \subseteq Ids
  OBVIOUS
<1> QED
  BY <1>1 DEF Desired, Pool

LEMMA ReturnTypes ==
    ASSUME TypeOK, Return
    PROVE  /\ pc' \in {"idle", "put", "create"}
           /\ cur' \in Names \cup {None} /\ (pc' # "idle" => cur' \in Names)
           /\ vitastorPool' \in Pool \cup {None} /\ (pc' # "idle" => vitastorPool' \in Pool)
           /\ pools' \in [Ids -> Entry \cup {None}]
BY NoPoolsType DEF Return

LEMMA InitTypes == Init => TypeOK
<1> SUFFICES ASSUME Init PROVE TypeOK
  OBVIOUS
<1>1. \A n \in Names : pool[n] # None => pool[n] \in Pool
  BY DesiredType DEF Init
<1>2. pool \in [Names -> Pool \cup {None}]
  BY <1>1 DEF Init
<1>3. [name: {None}, layout: Layouts] \cup {None} \subseteq Entry \cup {None}
  BY DEF Entry
<1>4. config \in [Ids -> Entry \cup {None}]
  BY <1>3 DEF Init
<1> QED
  BY <1>2, <1>4, NoPoolsType DEF Init, TypeOK

LEMMA BeginTypes ==
    ASSUME TypeOK, NEW n \in Names, Begin(n)
    PROVE  TypeOK'
<1>1. CASE poolCache[n] = None
  BY <1>1 DEF Begin, TypeOK, locals, objects, caches
<1>2. CASE poolCache[n] # None
  <2>1. poolCache[n] \in Pool /\ poolCache[n].id \in Ids
    BY <1>2 DEF TypeOK, Pool
  <2>2. PoolConfig(n, poolCache[n]) \in Entry
    BY <2>1 DEF PoolConfig, Pool, Entry
  <2>3. pools' \in [Ids -> Entry \cup {None}]
    BY <1>2, <2>1, <2>2 DEF Begin, WithPool, TypeOK
  <2> QED
    BY <1>2, <2>1, <2>3 DEF Begin, TypeOK, objects, caches
<1> QED
  BY <1>1, <1>2

LEMMA ReconcileTypes ==
    ASSUME TypeOK, Reconcile
    PROVE  TypeOK'
<1>1. CASE PutPools
  <2>1. config' = pools
    BY <1>1 DEF PutPools, Put
  <2>2. CASE classCache[cur] = None
    BY <1>1, <2>1, <2>2 DEF PutPools, TypeOK, objects, caches
  <2>3. CASE classCache[cur] # None
    <3>1. Return /\ UNCHANGED queue
      BY <1>1, <2>3 DEF PutPools, Done
    <3> QED
      BY <1>1, <2>1, <3>1, ReturnTypes DEF PutPools, TypeOK, objects, caches
  <2> QED
    BY <2>2, <2>3
<1>2. CASE CreateClass
  <2>1. StorageClass(vitastorPool) \in Class /\ cur \in Names
    BY <1>2 DEF CreateClass, StorageClass, TypeOK, Pool, Class
  <2>2. class' \in [Names -> Class \cup {None}]
    BY <1>2, <2>1 DEF CreateClass, TypeOK
  <2>3. Return /\ queue' \in SUBSET Names
    BY <1>2, <2>1 DEF CreateClass, Requeue, TypeOK
  <2> QED
    BY <1>2, <2>2, <2>3, ReturnTypes DEF CreateClass, TypeOK, caches
<1> QED
  BY <1>1, <1>2 DEF Reconcile

LEMMA RuntimeTypes ==
    ASSUME TypeOK, Runtime
    PROVE  TypeOK'
<1>1. CASE Resync
  BY <1>1 DEF Resync, TypeOK, objects, caches, locals
<1>2. ASSUME NEW n \in Names, SyncPool(n) PROVE TypeOK'
  BY <1>2 DEF SyncPool, TypeOK, objects, locals
<1>3. ASSUME NEW n \in Names, SyncClass(n) PROVE TypeOK'
  BY <1>3 DEF SyncClass, Owner, TypeOK, objects, locals
<1>4. ASSUME NEW n \in Names, CollectClass(n) PROVE TypeOK'
  BY <1>4 DEF CollectClass, TypeOK, caches, locals
<1> QED
  BY <1>1, <1>2, <1>3, <1>4 DEF Runtime

LEMMA EnvironmentTypes ==
    ASSUME TypeOK, Environment
    PROVE  TypeOK'
<1>1. ASSUME NEW kind, Disturb(kind) PROVE budget' \in Nat
  BY <1>1 DEF Disturb, TypeOK
<1>2. ASSUME NEW n \in Names, NEW o \in Desired(n, nextUid), CreatePool(n, o) PROVE TypeOK'
  <2>1. o \in Pool
    BY DesiredType DEF TypeOK
  <2> QED
    BY <1>1, <1>2, <2>1 DEF CreatePool, TypeOK, caches, locals
<1>3. ASSUME NEW n \in Names, DeletePool(n) PROVE TypeOK'
  BY <1>1, <1>3 DEF DeletePool, TypeOK, caches, locals
<1>4. ASSUME NEW n \in Names, NEW l \in Layouts, Relayout(n, l) PROVE TypeOK'
  <2>1. [pool[n] EXCEPT !.layout = l] \in Pool
    BY <1>4 DEF Relayout, TypeOK, Pool
  <2> QED
    BY <1>1, <1>4, <2>1 DEF Relayout, TypeOK, caches, locals
<1>5. ASSUME NEW n \in Names, NEW i \in IdsOf[n], Reid(n, i) PROVE TypeOK'
  <2>1. [pool[n] EXCEPT !.id = i] \in Pool
    BY <1>5 DEF Reid, TypeOK, Pool
  <2> QED
    BY <1>1, <1>5, <2>1 DEF Reid, TypeOK, caches, locals
<1>6. ASSUME NEW n \in Names, DeleteClass(n) PROVE TypeOK'
  BY <1>1, <1>6 DEF DeleteClass, TypeOK, caches, locals
<1>7. CASE Fail
  <2>1. Return /\ queue' \in SUBSET Names
    BY <1>7 DEF Fail, Requeue, TypeOK
  <2> QED
    BY <1>1, <1>7, <2>1, ReturnTypes DEF Fail, TypeOK, objects, caches
<1>8. CASE Restart
  BY <1>1, <1>8, ReturnTypes DEF Restart, TypeOK, objects
<1> QED
  BY <1>2, <1>3, <1>4, <1>5, <1>6, <1>7, <1>8 DEF Environment

LEMMA StepTypes == TypeOK /\ [Next]_vars => TypeOK'
<1>1. TypeOK /\ UNCHANGED vars => TypeOK'
  BY DEF TypeOK, vars, objects, caches, locals
<1> QED
  BY <1>1, BeginTypes, ReconcileTypes, RuntimeTypes, EnvironmentTypes DEF Next

\* Every variable keeps its type: what is written to etcd is a map of entries
\* (PutPools), and a StorageClass is made only from a VitastorPool that was read.
THEOREM TypeCorrect == Spec => []TypeOK
BY InitTypes, StepTypes, PTL DEF Spec

-----------------------------------------------------------------------------
(* The map in etcd.  Only the worker writes it, and what it writes is what it
   read with an entry more.  *)

\* The map in the worker's hands has its pool and every entry that etcd has.
CopyKeeps ==
    pc = "put" => /\ pools[vitastorPool.id] # None
                  /\ \A i \in Ids : config[i] # None => pools[i] # None

\* The entry is in etcd before the StorageClass is made.
WrittenFirst == pc = "create" => config[vitastorPool.id] # None

MapInv == CopyKeeps /\ WrittenFirst /\ OfferedIsConfigured

EntriesStay == \A i \in Ids : config[i] # None => config'[i] # None

LEMMA OthersKeepMap == (\E n \in Names : Begin(n)) \/ CreateClass \/ Runtime \/ Environment => UNCHANGED config
BY DEF Begin, CreateClass, Runtime, Resync, SyncPool, SyncClass, CollectClass, Environment, CreatePool,
       DeletePool, Relayout, Reid, DeleteClass, Fail, Restart

LEMMA StepKeepsEntries == MapInv /\ [Next]_vars => EntriesStay
<1>1. CASE PutPools
  BY <1>1 DEF PutPools, Put, MapInv, CopyKeeps, EntriesStay
<1> QED
  BY <1>1, OthersKeepMap DEF Next, Reconcile, vars, EntriesStay

LEMMA InitMap == Init => MapInv
<1> SUFFICES ASSUME Init PROVE MapInv
  OBVIOUS
<1>1. \A n \in Names : class[n] = None
  BY DEF Init
<1> QED
  BY <1>1 DEF Init, MapInv, CopyKeeps, WrittenFirst, OfferedIsConfigured

LEMMA StepMap == TypeOK /\ MapInv /\ [Next]_vars => MapInv'
<1> SUFFICES ASSUME TypeOK, MapInv, [Next]_vars PROVE MapInv'
  OBVIOUS
<1>1. EntriesStay
  BY StepKeepsEntries
<1>2. ASSUME \A n \in Names : class'[n] \in {class[n], None}
      PROVE  OfferedIsConfigured'
  <2>1. \A n \in Names : class[n] # None => class[n].poolId \in Ids
    BY DEF TypeOK, Class
  <2> QED
    BY <1>1, <1>2, <2>1 DEF MapInv, OfferedIsConfigured, EntriesStay
<1>3. ASSUME NEW n \in Names, Begin(n) PROVE MapInv'
  <2>1. UNCHANGED <<config, class>>
    BY <1>3 DEF Begin, objects
  <2>2. CASE poolCache[n] = None
    BY <1>2, <1>3, <2>1, <2>2 DEF Begin, locals, MapInv, CopyKeeps, WrittenFirst
  <2>3. CASE poolCache[n] # None
    <3>1. poolCache[n].id \in Ids /\ PoolConfig(n, poolCache[n]) # None
      BY <2>3 DEF TypeOK, Pool, PoolConfig, Entry
    <3>2. pc' = "put" /\ vitastorPool' = poolCache[n]
          /\ pools' = [config EXCEPT ![poolCache[n].id] = PoolConfig(n, poolCache[n])]
      BY <1>3, <2>3 DEF Begin, WithPool
    <3> QED
      BY <1>2, <2>1, <3>1, <3>2 DEF TypeOK, MapInv, CopyKeeps, WrittenFirst
  <2> QED
    BY <2>2, <2>3
<1>4. CASE PutPools
  <2>1. config' = pools /\ UNCHANGED class /\ pools[vitastorPool.id] # None
    BY <1>4 DEF PutPools, Put, objects, MapInv, CopyKeeps
  <2>2. pc' = "idle" \/ (pc' = "create" /\ UNCHANGED vitastorPool)
    BY <1>4 DEF PutPools, Done, Return
  <2> QED
    BY <1>2, <2>1, <2>2 DEF MapInv, CopyKeeps, WrittenFirst
<1>5. CASE CreateClass
  <2>1. UNCHANGED config /\ pc' = "idle" /\ cur \in Names /\ config[vitastorPool.id] # None
    BY <1>5 DEF CreateClass, Requeue, Return, MapInv, WrittenFirst, TypeOK
  <2>2. \A n \in Names : class'[n] = class[n] \/ class'[n].poolId = vitastorPool.id
    BY <1>5, <2>1 DEF CreateClass, StorageClass, TypeOK
  <2> QED
    BY <2>1, <2>2 DEF MapInv, CopyKeeps, WrittenFirst, OfferedIsConfigured
<1>6. CASE Runtime
  <2>1. UNCHANGED <<config, locals>>
    BY <1>6, OthersKeepMap DEF Runtime, Resync, SyncPool, SyncClass, CollectClass
  <2>2. \A n \in Names : class'[n] \in {class[n], None}
    BY <1>6 DEF Runtime, Resync, SyncPool, SyncClass, CollectClass, objects, TypeOK
  <2> QED
    BY <1>2, <2>1, <2>2 DEF locals, MapInv, CopyKeeps, WrittenFirst
<1>7. CASE Environment
  <2>1. UNCHANGED config /\ (pc' = "idle" \/ UNCHANGED locals)
    BY <1>7, OthersKeepMap DEF Environment, CreatePool, DeletePool, Relayout, Reid, DeleteClass, Fail, Restart,
       Requeue, Return
  <2>2. \A n \in Names : class'[n] \in {class[n], None}
    BY <1>7 DEF Environment, CreatePool, DeletePool, Relayout, Reid, DeleteClass, Fail, Restart, objects, TypeOK
  <2> QED
    BY <1>2, <2>1, <2>2 DEF locals, MapInv, CopyKeeps, WrittenFirst
<1>8. CASE UNCHANGED vars
  BY <1>8 DEF vars, objects, locals, MapInv, CopyKeeps, WrittenFirst, OfferedIsConfigured
<1> QED
  BY <1>3, <1>4, <1>5, <1>6, <1>7, <1>8 DEF Next, Reconcile

\* No StorageClass offers a pool that is not configured: through any failure or
\* restart between the write to etcd and the create (PutPools, CreateClass).
THEOREM OfferedStaysConfigured == Spec => []OfferedIsConfigured
<1>1. MapInv => OfferedIsConfigured
  BY DEF MapInv
<1> QED
  BY <1>1, InitMap, StepMap, TypeCorrect, PTL DEF Spec

\* Writing the whole map back loses no entry, whoever made it (PutPools).
THEOREM PoolsKept == Spec => KeepsPools
<1>1. MapInv /\ [Next]_vars => [\A i \in Ids : config[i] # None => config'[i] # None]_vars
  BY StepKeepsEntries DEF EntriesStay
<1> QED
  BY <1>1, InitMap, StepMap, TypeCorrect, PTL DEF Spec, KeepsPools

-----------------------------------------------------------------------------
(* OwnedOffersItsPool.  What is known of a VitastorPool, in the cache, in the
   worker's hands or as the owner of a StorageClass, is known by its uid.  *)

\* The version of n with this uid and id is either of an older VitastorPool of
\* the name or has the id of the present one.
OfPool(n, uid, id) ==
    n \notin edited /\ pool[n] # None /\ pool[n].uid = uid => id = pool[n].id

CacheOfPool == \A n \in Names : poolCache[n] # None => OfPool(n, poolCache[n].uid, poolCache[n].id)
HandsOfPool == pc # "idle" => OfPool(cur, vitastorPool.uid, vitastorPool.id)
ClassOfPool == \A n \in Names : class[n] # None => OfPool(n, class[n].owner, class[n].poolId)

\* No uid has been seen that is still to be given out.
OldUids ==
    /\ \A n \in Names : /\ poolCache[n] # None => poolCache[n].uid < nextUid
                        /\ pool[n] # None => pool[n].uid < nextUid
                        /\ class[n] # None => class[n].owner < nextUid
    /\ pc # "idle" => vitastorPool.uid < nextUid

PoolInv == CacheOfPool /\ HandsOfPool /\ ClassOfPool /\ OldUids

LEMMA InitPool == Init => PoolInv
<1> SUFFICES ASSUME Init PROVE PoolInv
  OBVIOUS
<1>1. \A n \in Names : pool[n] # None => pool[n].uid = 0
  BY DesiredType DEF Init
<1>2. \A n \in Names : class[n] = None /\ poolCache[n] = pool[n]
  BY DEF Init
<1> QED
  BY <1>1, <1>2 DEF Init, PoolInv, CacheOfPool, HandsOfPool, ClassOfPool, OldUids, OfPool

LEMMA BeginPool ==
    ASSUME TypeOK, PoolInv, NEW n \in Names, Begin(n)
    PROVE  PoolInv'
<1>1. UNCHANGED <<pool, class, poolCache, nextUid, edited>>
  BY DEF Begin, objects, caches
<1>2. CASE poolCache[n] = None
  BY <1>1, <1>2 DEF Begin, locals, PoolInv, CacheOfPool, HandsOfPool, ClassOfPool, OldUids, OfPool
<1>3. CASE poolCache[n] # None
  <2>1. cur' = n /\ vitastorPool' = poolCache[n]
    BY <1>3 DEF Begin
  <2> QED
    BY <1>1, <1>3, <2>1 DEF PoolInv, CacheOfPool, HandsOfPool, ClassOfPool, OldUids, OfPool
<1> QED
  BY <1>2, <1>3

LEMMA ReconcilePool ==
    ASSUME TypeOK, PoolInv, Reconcile
    PROVE  PoolInv'
<1> USE DEF PoolInv, CacheOfPool, HandsOfPool, ClassOfPool, OldUids, OfPool
<1>1. CASE PutPools
  <2>1. UNCHANGED <<pool, class, poolCache, nextUid, edited>> /\ pc # "idle"
    BY <1>1 DEF PutPools, objects, caches
  <2>2. pc' = "idle" \/ UNCHANGED <<cur, vitastorPool>>
    BY <1>1 DEF PutPools, Done, Return
  <2> QED
    BY <2>1, <2>2
<1>2. CASE CreateClass
  <2>1. UNCHANGED <<pool, poolCache, nextUid, edited>> /\ pc # "idle" /\ pc' = "idle" /\ cur \in Names
    BY <1>2 DEF CreateClass, Requeue, Return, caches, TypeOK
  <2>2. \A n \in Names : \/ class'[n] = class[n]
                         \/ n = cur /\ class'[n].owner = vitastorPool.uid /\ class'[n].poolId = vitastorPool.id
    BY <1>2, <2>1 DEF CreateClass, StorageClass, TypeOK
  <2> QED
    BY <2>1, <2>2
<1> QED
  BY <1>1, <1>2 DEF Reconcile

LEMMA RuntimePool ==
    ASSUME TypeOK, PoolInv, Runtime
    PROVE  PoolInv'
<1>1. UNCHANGED <<pool, locals, nextUid, edited>>
  BY DEF Runtime, Resync, SyncPool, SyncClass, CollectClass, objects
<1>2. \A n \in Names : poolCache'[n] \in {poolCache[n], pool[n]}
  BY DEF Runtime, Resync, SyncPool, SyncClass, CollectClass, caches, TypeOK
<1>3. \A n \in Names : class'[n] \in {class[n], None}
  BY DEF Runtime, Resync, SyncPool, SyncClass, CollectClass, objects, TypeOK
<1> QED
  BY <1>1, <1>2, <1>3 DEF locals, PoolInv, CacheOfPool, HandsOfPool, ClassOfPool, OldUids, OfPool

\* A VitastorPool that is made gets a uid that nothing refers to; one whose id is
\* changed is in edited.
LEMMA EnvironmentPool ==
    ASSUME TypeOK, PoolInv, Environment
    PROVE  PoolInv'
<1> USE DEF PoolInv, CacheOfPool, HandsOfPool, ClassOfPool, OldUids, OfPool
<1>1. pc # "idle" => cur \in Names /\ vitastorPool.uid \in Nat
  BY DEF TypeOK, Pool
<1>2. ASSUME NEW n \in Names, NEW o \in Desired(n, nextUid), CreatePool(n, o) PROVE PoolInv'
  <2>1. UNCHANGED <<class, poolCache, locals, edited>> /\ nextUid \in Nat /\ nextUid' = nextUid + 1
    BY <1>2 DEF CreatePool, caches, TypeOK
  <2>2. \A m \in Names \ {n} : pool'[m] = pool[m]
    BY <1>2 DEF CreatePool, TypeOK
  <2>3. pool'[n] # None /\ pool'[n].uid = nextUid
    BY <1>2, <2>1, DesiredType DEF CreatePool, TypeOK
  <2>4. \A m \in Names : /\ pool[m] # None => pool[m].uid \in Nat
                         /\ poolCache[m] # None => poolCache[m].uid \in Nat
                         /\ class[m] # None => class[m].owner \in Nat
    BY DEF TypeOK, Pool, Class
  <2> QED
    BY <1>1, <2>1, <2>2, <2>3, <2>4 DEF locals
<1>3. ASSUME NEW n \in Names, DeletePool(n) PROVE PoolInv'
  <2>1. pool'[n] = None /\ \A m \in Names \ {n} : pool'[m] = pool[m]
    BY <1>3 DEF DeletePool, TypeOK
  <2> QED
    BY <1>1, <1>3, <2>1 DEF DeletePool, caches, locals
<1>4. ASSUME NEW n \in Names, NEW l \in Layouts, Relayout(n, l) PROVE PoolInv'
  <2>1. pool[n] # None /\ pool'[n].uid = pool[n].uid /\ pool'[n].id = pool[n].id
    BY <1>4 DEF Relayout, TypeOK, Pool
  <2>2. \A m \in Names \ {n} : pool'[m] = pool[m]
    BY <1>4 DEF Relayout, TypeOK
  <2> QED
    BY <1>1, <1>4, <2>1, <2>2 DEF Relayout, caches, locals
<1>5. ASSUME NEW n \in Names, NEW i \in IdsOf[n], Reid(n, i) PROVE PoolInv'
  <2>1. pool[n] # None /\ pool'[n].uid = pool[n].uid /\ n \in edited'
    BY <1>5 DEF Reid, TypeOK, Pool
  <2>2. \A m \in Names \ {n} : pool'[m] = pool[m]
    BY <1>5 DEF Reid, TypeOK
  <2> QED
    BY <1>1, <1>5, <2>1, <2>2 DEF Reid, caches, locals
<1>6. ASSUME NEW n \in Names, DeleteClass(n) PROVE PoolInv'
  <2>1. \A m \in Names : class'[m] \in {class[m], None}
    BY <1>6 DEF DeleteClass, TypeOK
  <2> QED
    BY <1>6, <2>1 DEF DeleteClass, caches, locals
<1>7. CASE Fail
  BY <1>7 DEF Fail, Requeue, Return, objects, caches
<1>8. CASE Restart
  BY <1>8 DEF Restart, Return, objects
<1> QED
  BY <1>2, <1>3, <1>4, <1>5, <1>6, <1>7, <1>8 DEF Environment

LEMMA StepPool == TypeOK /\ PoolInv /\ [Next]_vars => PoolInv'
<1>1. PoolInv /\ UNCHANGED vars => PoolInv'
  BY DEF vars, objects, caches, locals, PoolInv, CacheOfPool, HandsOfPool, ClassOfPool, OldUids, OfPool
<1> QED
  BY <1>1, BeginPool, ReconcilePool, RuntimePool, EnvironmentPool DEF Next

\* A StorageClass has the id of the VitastorPool that owns it, unless a user has
\* edited the id: one made from a version of a VitastorPool that is deleted and
\* made again meanwhile has the uid of the old one (SetControllerReference).
THEOREM OwnedKeepsItsPool == Spec => []OwnedOffersItsPool
<1>1. PoolInv => OwnedOffersItsPool
  BY DEF PoolInv, ClassOfPool, OfPool, OwnedOffersItsPool, Owned
<1> QED
  BY <1>1, InitPool, StepPool, TypeCorrect, PTL DEF Spec

-----------------------------------------------------------------------------
(* NothingForgotten.  The work queue and the worker between them hold every
   name that is not settled, and the entry of a settled one is overwritten only
   by a name that may share its id. *)

\* Every version of a VitastorPool has an id that users give to its name.
OwnIds ==
    /\ \A n \in Names : /\ pool[n] # None => pool[n].id \in IdsOf[n]
                        /\ poolCache[n] # None => poolCache[n].id \in IdsOf[n]
    /\ pc # "idle" => vitastorPool.id \in IdsOf[cur]

\* The entry of the cached VitastorPool is in etcd, unless others have its id.
EntryWritten(n) ==
    (\A m \in Names \ {n} : poolCache[n].id \notin IdsOf[m]) =>
        config[poolCache[n].id] = PoolConfig(n, poolCache[n])

\* n is due, in the worker's hands, or settled as far as the caches tell.
Attended(n) ==
    \/ n \in queue
    \/ pc # "idle" /\ cur = n
    \/ poolCache[n] = None
    \/ classCache[n] # None /\ EntryWritten(n)

\* The worker's copies are what the cache and etcd have, or its name is due again.
FreshCopies ==
    /\ pc # "idle" => cur \in queue \/ vitastorPool = poolCache[cur]
    /\ pc = "put" => pools = WithPool(config, cur, vitastorPool)

AttendedInv == OwnIds /\ FreshCopies /\ \A n \in Names : Attended(n)

LEMMA InitAttended == Init => AttendedInv
<1> SUFFICES ASSUME Init PROVE AttendedInv
  OBVIOUS
<1>1. \A n \in Names : pool[n] # None => pool[n].id \in IdsOf[n]
  BY DEF Init, Desired
<1> QED
  BY <1>1 DEF Init, AttendedInv, OwnIds, FreshCopies, Attended

\* Steps on the objects alone leave every name attended.
LEMMA ObjectsAttended ==
    ASSUME AttendedInv, UNCHANGED <<config, caches, queue, locals>>,
           \A n \in Names : pool'[n] # None => pool'[n].id \in IdsOf[n]
    PROVE  AttendedInv'
BY DEF caches, locals, AttendedInv, OwnIds, FreshCopies, Attended, EntryWritten

LEMMA BeginAttended ==
    ASSUME TypeOK, AttendedInv, NEW n \in Names, Begin(n)
    PROVE  AttendedInv'
<1>1. UNCHANGED <<pool, config, poolCache, classCache>> /\ pc = "idle" /\ queue' = queue \ {n}
  BY DEF Begin, objects, caches
<1>2. CASE poolCache[n] = None
  BY <1>1, <1>2 DEF Begin, locals, AttendedInv, OwnIds, FreshCopies, Attended, EntryWritten
<1>3. CASE poolCache[n] # None
  <2>1. /\ pc' = "put" /\ cur' = n /\ vitastorPool' = poolCache[n]
        /\ pools' = WithPool(config, n, poolCache[n])
    BY <1>3 DEF Begin
  <2>2. OwnIds' /\ FreshCopies'
    BY <1>1, <1>3, <2>1 DEF AttendedInv, OwnIds, FreshCopies, WithPool, PoolConfig
  <2>3. ASSUME NEW m \in Names PROVE Attended(m)'
    BY <1>1, <2>1 DEF AttendedInv, Attended, EntryWritten, PoolConfig
  <2> QED
    BY <2>2, <2>3 DEF AttendedInv
<1> QED
  BY <1>2, <1>3

\* The write gives the worker's name its entry and touches none whose id that
\* name may not have; without a StorageClass the worker goes on to make one.
LEMMA PutAttended ==
    ASSUME TypeOK, AttendedInv, PutPools
    PROVE  AttendedInv'
<1>1. PICK k \in Names : k = cur
  BY DEF PutPools, TypeOK
<1>2. /\ UNCHANGED <<pool, poolCache, classCache, queue>> /\ vitastorPool \in Pool
      /\ config' = [config EXCEPT ![vitastorPool.id] = PoolConfig(k, vitastorPool)]
      /\ vitastorPool.id \in IdsOf[k] /\ vitastorPool.id \in Ids
      /\ k \in queue \/ vitastorPool = poolCache[k]
  BY <1>1 DEF PutPools, Put, Done, objects, caches, AttendedInv, OwnIds, FreshCopies, WithPool, TypeOK, Pool
<1>3. \/ pc' = "idle" /\ classCache[k] # None
      \/ pc' = "create" /\ UNCHANGED <<cur, vitastorPool>>
  BY <1>1 DEF PutPools, Done, Return
<1>4. OwnIds' /\ FreshCopies'
  BY <1>1, <1>2, <1>3 DEF AttendedInv, OwnIds, FreshCopies
<1>5. ASSUME NEW n \in Names \ {k} PROVE Attended(n)'
  <2>1. ASSUME poolCache[n] # None, EntryWritten(n) PROVE EntryWritten(n)'
    <3>1. poolCache[n].id \in Ids
      BY <2>1 DEF TypeOK, Pool
    <3> QED
      BY <1>2, <2>1, <3>1 DEF EntryWritten, PoolConfig, TypeOK
  <2> QED
    BY <1>1, <1>2, <2>1 DEF PutPools, AttendedInv, Attended
<1>6. Attended(k)'
  <2>1. CASE k \in queue \/ pc' = "create"
    BY <1>1, <1>2, <1>3, <2>1 DEF Attended
  <2>2. CASE k \notin queue /\ pc' = "idle"
    <3>1. vitastorPool = poolCache[k] /\ classCache[k] # None
      BY <1>2, <1>3, <2>2
    <3>2. config'[poolCache[k].id] = PoolConfig(k, poolCache[k])
      BY <1>2, <3>1 DEF TypeOK
    <3> QED
      BY <1>2, <3>1, <3>2 DEF Attended, EntryWritten, PoolConfig
  <2> QED
    BY <1>3, <2>1, <2>2
<1> QED
  BY <1>4, <1>5, <1>6 DEF AttendedInv

LEMMA CreateAttended ==
    ASSUME TypeOK, AttendedInv, CreateClass
    PROVE  AttendedInv'
<1>1. /\ UNCHANGED <<pool, config, poolCache, classCache>>
      /\ pc' = "idle" /\ queue' = queue \cup {cur}
  BY DEF CreateClass, Requeue, Return, caches
<1> QED
  BY <1>1 DEF AttendedInv, OwnIds, FreshCopies, Attended, EntryWritten, PoolConfig

LEMMA RuntimeAttended ==
    ASSUME TypeOK, AttendedInv, Runtime
    PROVE  AttendedInv'
<1> USE DEF AttendedInv, OwnIds, FreshCopies, Attended, EntryWritten, PoolConfig, WithPool
<1>1. CASE Resync
  BY <1>1 DEF Resync, objects, caches, locals
<1>2. pc # "idle" => cur \in Names
  BY DEF TypeOK
<1>3. ASSUME NEW n \in Names, SyncPool(n) PROVE AttendedInv'
  <2>1. /\ UNCHANGED <<pool, config, classCache, locals>> /\ queue' = queue \cup {n}
        /\ poolCache'[n] = pool[n] /\ \A m \in Names \ {n} : poolCache'[m] = poolCache[m]
    BY <1>3 DEF SyncPool, objects, TypeOK
  <2> QED
    BY <1>2, <2>1 DEF locals
<1>4. ASSUME NEW n \in Names, SyncClass(n) PROVE AttendedInv'
  <2>1. /\ UNCHANGED <<pool, config, poolCache, locals>> /\ queue' = queue \cup {n}
        /\ \A m \in Names \ {n} : classCache'[m] = classCache[m]
    BY <1>4 DEF SyncClass, Owner, objects, TypeOK
  <2> QED
    BY <1>2, <2>1 DEF locals
<1>5. ASSUME NEW n \in Names, CollectClass(n) PROVE AttendedInv'
  BY <1>5, ObjectsAttended DEF CollectClass
<1> QED
  BY <1>1, <1>3, <1>4, <1>5 DEF Runtime

LEMMA EnvironmentAttended ==
    ASSUME TypeOK, AttendedInv, Environment
    PROVE  AttendedInv'
<1>1. CASE Fail
  BY <1>1 DEF Fail, Requeue, Return, objects, caches, AttendedInv, OwnIds, FreshCopies, Attended,
     EntryWritten, PoolConfig
<1>2. CASE Restart
  BY <1>2 DEF Restart, Return, objects, AttendedInv, OwnIds, FreshCopies, Attended
<1>3. CASE ~Fail /\ ~Restart
  <2>1. UNCHANGED <<config, caches, queue, locals>>
    BY <1>3 DEF Environment, DeletePool, DeleteClass, Relayout, Reid, CreatePool
  <2>2. \A n \in Names : pool[n] # None => pool[n].id \in IdsOf[n]
    BY DEF AttendedInv, OwnIds
  <2>3. \A n \in Names : pool'[n] # None => pool'[n].id \in IdsOf[n]
    <3>1. ASSUME NEW n \in Names, DeletePool(n) \/ DeleteClass(n)
          PROVE  \A m \in Names : pool'[m] # None => pool'[m].id \in IdsOf[m]
      BY <2>2, <3>1 DEF DeletePool, DeleteClass, TypeOK
    <3>2. ASSUME NEW n \in Names, NEW l \in Layouts, Relayout(n, l)
          PROVE  \A m \in Names : pool'[m] # None => pool'[m].id \in IdsOf[m]
      BY <2>2, <3>2 DEF Relayout, TypeOK, Pool
    <3>3. ASSUME NEW n \in Names, NEW i \in IdsOf[n], Reid(n, i)
          PROVE  \A m \in Names : pool'[m] # None => pool'[m].id \in IdsOf[m]
      BY <2>2, <3>3 DEF Reid, TypeOK, Pool
    <3>4. ASSUME NEW n \in Names, NEW o \in Desired(n, nextUid), CreatePool(n, o)
          PROVE  \A m \in Names : pool'[m] # None => pool'[m].id \in IdsOf[m]
      <4>1. o.id \in IdsOf[n]
        BY DEF Desired
      <4> QED
        BY <2>2, <3>4, <4>1 DEF CreatePool, TypeOK
    <3> QED
      BY <1>3, <3>1, <3>2, <3>3, <3>4 DEF Environment
  <2> QED
    BY <2>1, <2>3, ObjectsAttended
<1> QED
  BY <1>1, <1>2, <1>3

LEMMA StepAttended == TypeOK /\ AttendedInv /\ [Next]_vars => AttendedInv'
<1>1. AttendedInv /\ UNCHANGED vars => AttendedInv'
  BY ObjectsAttended DEF vars, objects, AttendedInv, OwnIds
<1> QED
  BY <1>1, BeginAttended, PutAttended, CreateAttended, RuntimeAttended, EnvironmentAttended DEF Next, Reconcile

LEMMA QuietIsSettled == TypeOK /\ AttendedInv /\ PoolInv => NothingForgotten
<1> SUFFICES ASSUME TypeOK, AttendedInv, PoolInv, NEW n \in Names, Quiet(n)
             PROVE  Offered(n) /\ LaidOut(n)
  BY DEF NothingForgotten
<1>1. CASE pool[n] = None
  BY <1>1 DEF Quiet, Owned, Offered, LaidOut
<1>2. CASE pool[n] # None
  <2>1. class[n] # None /\ class[n].owner = pool[n].uid /\ EntryWritten(n) /\ poolCache[n] = pool[n]
    BY <1>2 DEF AttendedInv, Attended, Quiet, Owned
  <2>2. Offered(n)
    BY <1>2, <2>1 DEF PoolInv, ClassOfPool, OfPool, Offered
  <2>3. pool[n].id \in Ids /\ PoolConfig(n, pool[n]) # None
    BY <1>2 DEF TypeOK, Pool, PoolConfig, Entry
  <2>4. LaidOut(n)
    BY <1>2, <2>1, <2>3 DEF EntryWritten, PoolConfig, Alone, LaidOut
  <2> QED
    BY <2>2, <2>4
<1> QED
  BY <1>1, <1>2

\* No VitastorPool is forgotten, through any edits, failures and restarts: if none
\* of Reconcile's work, watch events and collections is outstanding for it, its
\* StorageClass and, if no other may have its id, its entry in etcd are there.
THEOREM NoneIsForgotten == Spec => []NothingForgotten
BY InitAttended, StepAttended, InitPool, StepPool, TypeCorrect, QuietIsSettled, PTL DEF Spec
=============================================================================
