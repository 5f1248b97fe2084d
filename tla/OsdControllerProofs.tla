------------------------ MODULE OsdControllerProofs ------------------------
(***************************************************************************)
(* Theorems about the VitastorOSD controller, for any names, hosts,        *)
(* images and disturbances: type correctness, that a StatefulSet its       *)
(* VitastorOSD owns is on the VitastorOSD's host, and that no VitastorOSD  *)
(* is left without what it asks for unless it is due.                      *)
(***************************************************************************)
EXTENDS OsdController, TLAPS

-----------------------------------------------------------------------------
(* Type correctness *)

USE OsdAssumption

LEMMA ReturnTypes ==
    ASSUME TypeOK, Return
    PROVE  /\ pc' \in {"idle", "create", "image"}
           /\ cur' \in Nums \cup {None} /\ (pc' # "idle" => cur' \in Nums)
           /\ vitastorOSD' \in OSD \cup {None} /\ (pc' # "idle" => vitastorOSD' \in OSD)
           /\ foundSts' \in STS \cup {None} /\ (pc' = "image" => foundSts' \in STS)
BY DEF Return

LEMMA InitTypes == Init => TypeOK
<1> SUFFICES ASSUME Init PROVE TypeOK
  OBVIOUS
<1>1. [uid: {0}, node: Nodes, image: Images] \cup {None} \subseteq OSD \cup {None}
  BY DEF OSD
<1>2. osd \in [Nums -> OSD \cup {None}]
  BY <1>1 DEF Init
<1> QED
  BY <1>2 DEF Init, TypeOK

LEMMA BeginTypes ==
    ASSUME TypeOK, NEW k \in Nums, Begin(k)
    PROVE  TypeOK'
<1>1. CASE Settled(k)
  BY <1>1 DEF Begin, TypeOK, locals, objects, caches
<1>2. CASE ~Settled(k)
  <2>1. osdCache[k] # None /\ osdCache[k] \in OSD
    BY <1>2 DEF Settled, TypeOK
  <2>2. stsCache[k] \in STS \cup {None}
    BY DEF TypeOK
  <2> QED
    BY <1>2, <2>1, <2>2 DEF Begin, TypeOK, objects, caches
<1> QED
  BY <1>1, <1>2

LEMMA ReconcileTypes ==
    ASSUME TypeOK, Reconcile
    PROVE  TypeOK'
<1>1. CASE CreateSts
  <2>1. Configuration(vitastorOSD) \in STS /\ cur \in Nums
    BY <1>1 DEF CreateSts, Configuration, TypeOK, OSD, STS
  <2>2. sts' \in [Nums -> STS \cup {None}]
    BY <1>1, <2>1 DEF CreateSts, TypeOK
  <2>3. queue' \in SUBSET Nums
    BY <1>1, <2>1 DEF CreateSts, Requeue, TypeOK
  <2>4. Return
    BY <1>1 DEF CreateSts, Requeue
  <2> QED
    BY <1>1, <2>2, <2>3, <2>4, ReturnTypes DEF CreateSts, TypeOK, caches
<1>2. CASE UpdateSts
  <2>1. cur \in Nums /\ vitastorOSD \in OSD /\ foundSts \in STS /\ Return
    BY <1>2 DEF UpdateSts, TypeOK, Done, Requeue
  <2>2. vitastorOSD.image \in Images
    BY <2>1 DEF OSD
  <2>3. sts' \in [Nums -> STS \cup {None}]
    <3>1. CASE sts[cur] = foundSts
      <4>1. [sts[cur] EXCEPT !.image = vitastorOSD.image] \in STS
        BY <2>1, <2>2, <3>1 DEF STS
      <4> QED
        BY <1>2, <2>1, <3>1, <4>1 DEF UpdateSts, TypeOK
    <3>2. CASE sts[cur] # foundSts
      BY <1>2, <3>2 DEF UpdateSts, TypeOK
    <3> QED
      BY <3>1, <3>2
  <2>4. queue' \in SUBSET Nums
    BY <1>2, <2>1 DEF UpdateSts, Done, Requeue, TypeOK
  <2> QED
    BY <1>2, <2>1, <2>3, <2>4, ReturnTypes DEF UpdateSts, TypeOK, caches
<1> QED
  BY <1>1, <1>2 DEF Reconcile

LEMMA RuntimeTypes ==
    ASSUME TypeOK, Runtime
    PROVE  TypeOK'
<1>1. CASE Resync
  BY <1>1 DEF Resync, TypeOK, objects, caches, locals
<1>2. ASSUME NEW k \in Nums, SyncOsd(k) PROVE TypeOK'
  BY <1>2 DEF SyncOsd, TypeOK, objects, locals
<1>3. ASSUME NEW k \in Nums, SyncSts(k) PROVE TypeOK'
  BY <1>3 DEF SyncSts, Owner, TypeOK, objects, locals
<1>4. ASSUME NEW k \in Nums, CollectSts(k) PROVE TypeOK'
  BY <1>4 DEF CollectSts, TypeOK, caches, locals
<1> QED
  BY <1>1, <1>2, <1>3, <1>4 DEF Runtime

LEMMA EnvironmentTypes ==
    ASSUME TypeOK, Environment
    PROVE  TypeOK'
<1>1. ASSUME NEW kind, Disturb(kind) PROVE budget' \in Nat
  BY <1>1 DEF Disturb, TypeOK
<1>2. ASSUME NEW k \in Nums, NEW n \in Nodes, NEW i \in Images, CreateOsd(k, n, i) PROVE TypeOK'
  <2>1. [uid |-> nextUid, node |-> n, image |-> i] \in OSD
    BY DEF TypeOK, OSD
  <2> QED
    BY <1>1, <1>2, <2>1 DEF CreateOsd, TypeOK, caches, locals
<1>3. ASSUME NEW k \in Nums, DeleteOsd(k) PROVE TypeOK'
  BY <1>1, <1>3 DEF DeleteOsd, TypeOK, caches, locals
<1>4. ASSUME NEW k \in Nums, NEW i \in Images, SetImage(k, i) PROVE TypeOK'
  <2>1. [osd[k] EXCEPT !.image = i] \in OSD
    BY <1>4 DEF SetImage, TypeOK, OSD
  <2> QED
    BY <1>1, <1>4, <2>1 DEF SetImage, TypeOK, caches, locals
<1>5. ASSUME NEW k \in Nums, NEW n \in Nodes, Respec(k, n) PROVE TypeOK'
  <2>1. [osd[k] EXCEPT !.node = n] \in OSD
    BY <1>5 DEF Respec, TypeOK, OSD
  <2> QED
    BY <1>1, <1>5, <2>1 DEF Respec, TypeOK, caches, locals
<1>6. ASSUME NEW k \in Nums, DeleteSts(k) PROVE TypeOK'
  BY <1>1, <1>6 DEF DeleteSts, TypeOK, caches, locals
<1>7. CASE Fail
  <2>1. Return /\ queue' \in SUBSET Nums
    BY <1>7 DEF Fail, Requeue, TypeOK
  <2> QED
    BY <1>1, <1>7, <2>1, ReturnTypes DEF Fail, TypeOK, objects, caches
<1>8. CASE Restart
  BY <1>1, <1>8, ReturnTypes DEF Restart, TypeOK, objects
<1> QED
  BY <1>2, <1>3, <1>4, <1>5, <1>6, <1>7, <1>8 DEF Environment

LEMMA StepTypes == TypeOK /\ [Next]_vars => TypeOK'
<1>1. TypeOK /\ UNCHANGED vars => TypeOK'
  BY DEF TypeOK, vars, objects, caches, locals
<1> QED
  BY <1>1, BeginTypes, ReconcileTypes, RuntimeTypes, EnvironmentTypes DEF Next

\* Every variable keeps its type: the worker computes a StatefulSet only from a
\* VitastorOSD it has read, and updates only one it has found (Reconcile).
THEOREM TypeCorrect == Spec => []TypeOK
BY InitTypes, StepTypes, PTL DEF Spec

-----------------------------------------------------------------------------
(* OwnedOnItsHost.  What is known of a VitastorOSD, in the cache, in the
   worker's hands or as the owner of a StatefulSet, is known by its uid.  *)

\* The version of k with this uid and host is either of an older VitastorOSD of
\* the name or on the host of the present one.
OnHost(k, uid, node) ==
    k \notin edited /\ osd[k] # None /\ osd[k].uid = uid => node = osd[k].node

CacheOnHost == \A k \in Nums : osdCache[k] # None => OnHost(k, osdCache[k].uid, osdCache[k].node)
HandsOnHost == pc # "idle" => OnHost(cur, vitastorOSD.uid, vitastorOSD.node)
StsOnHost   == \A k \in Nums : sts[k] # None => OnHost(k, sts[k].owner, sts[k].node)

\* No uid has been seen that is still to be given out.
OldUids ==
    /\ \A k \in Nums : /\ osdCache[k] # None => osdCache[k].uid < nextUid
                       /\ osd[k] # None => osd[k].uid < nextUid
                       /\ sts[k] # None => sts[k].owner < nextUid
    /\ pc # "idle" => vitastorOSD.uid < nextUid

HostInv == CacheOnHost /\ HandsOnHost /\ StsOnHost /\ OldUids

LEMMA InitHost == Init => HostInv
<1> SUFFICES ASSUME Init PROVE HostInv
  OBVIOUS
<1>1. \A k \in Nums : osd[k] # None => osd[k].uid = 0
  BY DEF Init
<1>2. \A k \in Nums : sts[k] = None /\ osdCache[k] = osd[k]
  BY DEF Init
<1> QED
  BY <1>1, <1>2 DEF Init, HostInv, CacheOnHost, HandsOnHost, StsOnHost, OldUids, OnHost

LEMMA BeginHost ==
    ASSUME TypeOK, HostInv, NEW k \in Nums, Begin(k)
    PROVE  HostInv'
<1>1. UNCHANGED <<osd, sts, osdCache, nextUid, edited>>
  BY DEF Begin, objects, caches
<1>2. CASE Settled(k)
  BY <1>1, <1>2 DEF Begin, locals, HostInv, CacheOnHost, HandsOnHost, StsOnHost, OldUids, OnHost
<1>3. CASE ~Settled(k)
  <2>1. osdCache[k] # None /\ cur' = k /\ vitastorOSD' = osdCache[k]
    BY <1>3 DEF Begin, Settled
  <2> QED
    BY <1>1, <2>1 DEF HostInv, CacheOnHost, HandsOnHost, StsOnHost, OldUids, OnHost
<1> QED
  BY <1>2, <1>3

\* The worker is at rest after its write.
LEMMA ReconcileHost ==
    ASSUME TypeOK, HostInv, Reconcile
    PROVE  HostInv'
<1>1. UNCHANGED <<osd, osdCache, nextUid, edited>> /\ pc' = "idle" /\ cur \in Nums
  BY DEF Reconcile, CreateSts, UpdateSts, Requeue, Done, Return, caches, TypeOK
<1>2. ASSUME NEW k \in Nums, sts'[k] # None
      PROVE  \/ sts[k] # None /\ sts'[k].owner = sts[k].owner /\ sts'[k].node = sts[k].node
             \/ /\ k = cur /\ pc # "idle"
                /\ sts'[k].owner = vitastorOSD.uid /\ sts'[k].node = vitastorOSD.node
  <2>1. CASE CreateSts
    BY <1>1, <1>2, <2>1 DEF CreateSts, Configuration, TypeOK
  <2>2. CASE UpdateSts
    <3>1. sts' = sts \/ (foundSts \in STS /\ sts[cur] = foundSts
                         /\ sts' = [sts EXCEPT ![cur].image = vitastorOSD.image])
      BY <2>2 DEF UpdateSts, TypeOK
    <3> QED
      BY <1>1, <1>2, <3>1 DEF TypeOK, STS
  <2> QED
    BY <2>1, <2>2 DEF Reconcile
<1> QED
  BY <1>1, <1>2 DEF HostInv, CacheOnHost, HandsOnHost, StsOnHost, OldUids, OnHost

LEMMA RuntimeHost ==
    ASSUME TypeOK, HostInv, Runtime
    PROVE  HostInv'
<1>1. UNCHANGED <<osd, locals, nextUid, edited>>
  BY DEF Runtime, Resync, SyncOsd, SyncSts, CollectSts, objects
<1>2. \A k \in Nums : osdCache'[k] \in {osdCache[k], osd[k]}
  BY DEF Runtime, Resync, SyncOsd, SyncSts, CollectSts, caches, TypeOK
<1>3. \A k \in Nums : sts'[k] \in {sts[k], None}
  BY DEF Runtime, Resync, SyncOsd, SyncSts, CollectSts, objects, TypeOK
<1> QED
  BY <1>1, <1>2, <1>3 DEF locals, HostInv, CacheOnHost, HandsOnHost, StsOnHost, OldUids, OnHost

\* A VitastorOSD that is made gets a uid that nothing refers to; one that is
\* moved by hand is in edited.
LEMMA EnvironmentHost ==
    ASSUME TypeOK, HostInv, Environment
    PROVE  HostInv'
<1> USE DEF HostInv, CacheOnHost, HandsOnHost, StsOnHost, OldUids, OnHost
<1>1. ASSUME NEW k \in Nums, NEW n \in Nodes, NEW i \in Images, CreateOsd(k, n, i) PROVE HostInv'
  <2>1. UNCHANGED <<sts, osdCache, locals, edited>> /\ nextUid \in Nat /\ nextUid' = nextUid + 1
    BY <1>1 DEF CreateOsd, caches, TypeOK
  <2>2. \A j \in Nums \ {k} : osd'[j] = osd[j]
    BY <1>1 DEF CreateOsd, TypeOK
  <2>3. osd'[k] # None /\ osd'[k].uid = nextUid
    BY <1>1 DEF CreateOsd, TypeOK, OSD
  <2>4. \A j \in Nums : /\ osd[j] # None => osd[j].uid \in Nat
                        /\ osdCache[j] # None => osdCache[j].uid \in Nat
                        /\ sts[j] # None => sts[j].owner \in Nat
    BY DEF TypeOK, OSD, STS
  <2>5. pc # "idle" => cur \in Nums /\ vitastorOSD.uid \in Nat
    BY DEF TypeOK, OSD
  <2> QED
    BY <2>1, <2>2, <2>3, <2>4, <2>5 DEF locals
<1>2. ASSUME NEW k \in Nums, DeleteOsd(k) PROVE HostInv'
  <2>1. osd'[k] = None /\ \A j \in Nums \ {k} : osd'[j] = osd[j]
    BY <1>2 DEF DeleteOsd, TypeOK
  <2>2. pc # "idle" => cur \in Nums
    BY DEF TypeOK
  <2> QED
    BY <1>2, <2>1, <2>2 DEF DeleteOsd, caches, locals
<1>3. ASSUME NEW k \in Nums, NEW i \in Images, SetImage(k, i) PROVE HostInv'
  <2>1. osd[k] # None /\ osd'[k].uid = osd[k].uid /\ osd'[k].node = osd[k].node
    BY <1>3 DEF SetImage, TypeOK, OSD
  <2>2. \A j \in Nums \ {k} : osd'[j] = osd[j]
    BY <1>3 DEF SetImage, TypeOK
  <2>3. pc # "idle" => cur \in Nums
    BY DEF TypeOK
  <2> QED
    BY <1>3, <2>1, <2>2, <2>3 DEF SetImage, caches, locals
<1>4. ASSUME NEW k \in Nums, NEW n \in Nodes, Respec(k, n) PROVE HostInv'
  <2>1. osd[k] # None /\ osd'[k].uid = osd[k].uid /\ k \in edited'
    BY <1>4 DEF Respec, TypeOK, OSD
  <2>2. \A j \in Nums \ {k} : osd'[j] = osd[j]
    BY <1>4 DEF Respec, TypeOK
  <2>3. pc # "idle" => cur \in Nums
    BY DEF TypeOK
  <2> QED
    BY <1>4, <2>1, <2>2, <2>3 DEF Respec, caches, locals
<1>5. ASSUME NEW k \in Nums, DeleteSts(k) PROVE HostInv'
  <2>1. \A j \in Nums : sts'[j] \in {sts[j], None}
    BY <1>5 DEF DeleteSts, TypeOK
  <2> QED
    BY <1>5, <2>1 DEF DeleteSts, caches, locals
<1>6. CASE Fail
  BY <1>6 DEF Fail, Requeue, Return, objects, caches
<1>7. CASE Restart
  BY <1>7 DEF Restart, Return, objects
<1> QED
  BY <1>1, <1>2, <1>3, <1>4, <1>5, <1>6, <1>7 DEF Environment

LEMMA StepHost == TypeOK /\ HostInv /\ [Next]_vars => HostInv'
<1>1. HostInv /\ UNCHANGED vars => HostInv'
  BY DEF vars, objects, caches, locals, HostInv, CacheOnHost, HandsOnHost, StsOnHost, OldUids, OnHost
<1> QED
  BY <1>1, BeginHost, ReconcileHost, RuntimeHost, EnvironmentHost DEF Next

\* A StatefulSet runs on the host of the VitastorOSD that owns it, unless a user
\* has edited the host: Reconcile may create it from a version of the VitastorOSD
\* that is deleted and made again meanwhile, but the owner's uid then is the old
\* one's (SetControllerReference).
THEOREM OwnedStaysOnItsHost == Spec => []OwnedOnItsHost
<1>1. HostInv => OwnedOnItsHost
  BY DEF HostInv, StsOnHost, OnHost, OwnedOnItsHost, Owned
<1> QED
  BY <1>1, InitHost, StepHost, TypeCorrect, PTL DEF Spec

-----------------------------------------------------------------------------
(* NothingForgotten.  The work queue, the worker and the watches between them
   hold every name that is not settled: at any moment one of them still has it. *)

\* k is due, in the worker's hands, or settled as far as the caches tell; or the
\* StatefulSet in the cache is an old one, and the event that replaces it queues k.
Attended(k) ==
    \/ k \in queue
    \/ pc # "idle" /\ cur = k
    \/ Settled(k)
    \/ stsCache[k] # None /\ stsCache[k] # sts[k]

\* The StatefulSet the worker is about to update is the cached one, unless it has
\* been made due since, and the update changes it.
FoundIsCached ==
    pc = "image" => /\ cur \in queue \/ stsCache[cur] = foundSts
                    /\ foundSts.image # vitastorOSD.image

AttendedInv == (\A k \in Nums : Attended(k)) /\ FoundIsCached

LEMMA InitAttended == Init => AttendedInv
BY DEF Init, AttendedInv, Attended, FoundIsCached, Settled

\* What Kubernetes and users do to the objects leaves every name attended: a
\* StatefulSet that goes is not the cached one any more.
LEMMA ObjectsAttended ==
    ASSUME AttendedInv, UNCHANGED <<caches, queue, locals>>,
           \A k \in Nums : sts'[k] \in {sts[k], None}
    PROVE  AttendedInv'
BY DEF caches, locals, AttendedInv, Attended, FoundIsCached, Settled

LEMMA BeginAttended ==
    ASSUME TypeOK, AttendedInv, NEW k \in Nums, Begin(k)
    PROVE  AttendedInv'
<1>1. UNCHANGED <<sts, osdCache, stsCache>> /\ pc = "idle" /\ queue' = queue \ {k}
  BY DEF Begin, objects, caches
<1>2. CASE Settled(k)
  BY <1>1, <1>2 DEF Begin, locals, AttendedInv, Attended, FoundIsCached, Settled
<1>3. CASE ~Settled(k)
  <2>1. /\ pc' = IF stsCache[k] = None THEN "create" ELSE "image"
        /\ cur' = k /\ vitastorOSD' = osdCache[k] /\ foundSts' = stsCache[k]
    BY <1>3 DEF Begin
  <2>2. FoundIsCached'
    BY <1>1, <1>3, <2>1 DEF FoundIsCached, Settled
  <2>3. ASSUME NEW j \in Nums PROVE Attended(j)'
    BY <1>1, <2>1 DEF AttendedInv, Attended, Settled
  <2> QED
    BY <2>2, <2>3 DEF AttendedInv
<1> QED
  BY <1>2, <1>3

\* A create and a failed update queue the name again; an update that succeeds
\* leaves an old StatefulSet in the cache.
LEMMA ReconcileAttended ==
    ASSUME TypeOK, AttendedInv, Reconcile
    PROVE  AttendedInv'
<1>1. /\ UNCHANGED caches /\ pc' = "idle" /\ pc # "idle" /\ cur \in Nums
      /\ queue' \in {queue, queue \cup {cur}}
      /\ \A j \in Nums \ {cur} : sts'[j] = sts[j]
  <2>1. CASE CreateSts
    BY <2>1 DEF CreateSts, Requeue, Return, TypeOK
  <2>2. CASE UpdateSts
    BY <2>2 DEF UpdateSts, Requeue, Done, Return, TypeOK
  <2> QED
    BY <2>1, <2>2 DEF Reconcile
<1>0. PICK k \in Nums : k = cur
  BY <1>1
<1>2. ASSUME NEW j \in Nums \ {k} PROVE Attended(j)'
  BY <1>0, <1>1 DEF caches, AttendedInv, Attended, Settled
<1>3. Attended(k)'
  <2>1. CASE k \in queue'
    BY <2>1 DEF Attended
  <2>2. CASE k \notin queue'
    <3>1. UpdateSts /\ sts[cur] = foundSts /\ foundSts \in STS
      BY <1>0, <2>2 DEF Reconcile, CreateSts, UpdateSts, Requeue, TypeOK
    <3>2. sts'[cur].image = vitastorOSD.image
      BY <1>1, <3>1 DEF UpdateSts, TypeOK, STS
    <3>3. stsCache[cur] = foundSts /\ foundSts.image # vitastorOSD.image
      BY <1>0, <1>1, <2>2, <3>1 DEF AttendedInv, FoundIsCached, UpdateSts
    <3>4. stsCache'[k] # None /\ stsCache'[k] # sts'[k]
      BY <1>0, <1>1, <3>1, <3>2, <3>3 DEF caches
    <3> QED
      BY <1>1, <3>4 DEF Attended
  <2> QED
    BY <2>1, <2>2
<1>4. cur' \notin Nums /\ pc' # "image"
  BY DEF Reconcile, CreateSts, UpdateSts, Requeue, Done, Return
<1> QED
  BY <1>2, <1>3, <1>4 DEF AttendedInv, FoundIsCached

LEMMA RuntimeAttended ==
    ASSUME TypeOK, AttendedInv, Runtime
    PROVE  AttendedInv'
<1>1. CASE Resync
  BY <1>1 DEF Resync, objects, caches, locals, AttendedInv, Attended, FoundIsCached, Settled
<1>2. ASSUME NEW k \in Nums, SyncOsd(k) PROVE AttendedInv'
  <2>1. /\ UNCHANGED <<sts, stsCache, locals>> /\ queue' = queue \cup {k}
        /\ \A j \in Nums \ {k} : osdCache'[j] = osdCache[j]
    BY <1>2 DEF SyncOsd, objects, TypeOK
  <2> QED
    BY <2>1 DEF locals, AttendedInv, Attended, FoundIsCached, Settled
<1>3. ASSUME NEW k \in Nums, SyncSts(k) PROVE AttendedInv'
  <2>1. /\ UNCHANGED <<sts, osdCache, locals>> /\ queue' = queue \cup {k}
        /\ \A j \in Nums \ {k} : stsCache'[j] = stsCache[j]
    BY <1>3 DEF SyncSts, Owner, objects, TypeOK
  <2>2. pc # "idle" => cur \in Nums
    BY DEF TypeOK
  <2> QED
    BY <2>1, <2>2 DEF locals, AttendedInv, Attended, FoundIsCached, Settled
<1>4. ASSUME NEW k \in Nums, CollectSts(k) PROVE AttendedInv'
  <2>1. \A j \in Nums : sts'[j] \in {sts[j], None}
    BY <1>4 DEF CollectSts, TypeOK
  <2> QED
    BY <1>4, <2>1, ObjectsAttended DEF CollectSts
<1> QED
  BY <1>1, <1>2, <1>3, <1>4 DEF Runtime

LEMMA EnvironmentAttended ==
    ASSUME TypeOK, AttendedInv, Environment
    PROVE  AttendedInv'
<1>1. CASE Fail
  BY <1>1 DEF Fail, Requeue, Return, objects, caches, AttendedInv, Attended, FoundIsCached, Settled
<1>2. CASE Restart
  BY <1>2 DEF Restart, Return, objects, AttendedInv, Attended, FoundIsCached, Settled
<1>3. CASE ~Fail /\ ~Restart
  <2>1. UNCHANGED <<caches, queue, locals>> /\ \A k \in Nums : sts'[k] \in {sts[k], None}
    BY <1>3 DEF Environment, DeleteOsd, DeleteSts, SetImage, Respec, CreateOsd, TypeOK
  <2> QED
    BY <2>1, ObjectsAttended
<1> QED
  BY <1>1, <1>2, <1>3

LEMMA StepAttended == TypeOK /\ AttendedInv /\ [Next]_vars => AttendedInv'
<1>1. AttendedInv /\ UNCHANGED vars => AttendedInv'
  BY DEF vars, objects, caches, locals, AttendedInv, Attended, FoundIsCached, Settled
<1> QED
  BY <1>1, BeginAttended, ReconcileAttended, RuntimeAttended, EnvironmentAttended DEF Next

\* A name that nobody attends to is settled in the caches; when these are up to
\* date and nothing is to be collected, it is settled for good, and HostInv adds
\* the host, which the controller never compares.
LEMMA QuietIsSettled == AttendedInv /\ HostInv => NothingForgotten
<1> SUFFICES ASSUME AttendedInv, HostInv, NEW k \in Nums, Quiet(k) PROVE Matches(k)
  BY DEF NothingForgotten
<1>1. Settled(k) /\ osdCache[k] = osd[k] /\ stsCache[k] = sts[k]
  BY DEF AttendedInv, Attended, Quiet
<1>2. CASE osd[k] = None
  BY <1>2 DEF Quiet, Owned, Matches
<1>3. CASE osd[k] # None
  <2>1. sts[k] # None /\ sts[k].image = osd[k].image /\ osd[k].uid = sts[k].owner
    BY <1>1, <1>3 DEF Settled, Quiet, Owned
  <2>2. k \notin edited => sts[k].node = osd[k].node
    BY <1>3, <2>1 DEF HostInv, StsOnHost, OnHost
  <2> QED
    BY <1>3, <2>1, <2>2 DEF Matches
<1> QED
  BY <1>2, <1>3

\* No VitastorOSD is forgotten, whatever is created, deleted, edited or lost to a
\* restart in whatever order: if none of Reconcile's work, watch events and
\* collections is outstanding for it, its StatefulSet is what it asks for.
THEOREM NoneIsForgotten == Spec => []NothingForgotten
BY InitAttended, StepAttended, InitHost, StepHost, TypeCorrect, QuietIsSettled, PTL DEF Spec
=============================================================================
