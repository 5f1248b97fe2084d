--------------------------- MODULE OperatorProofs ---------------------------
(***************************************************************************)
(* The two controllers of Operator together: a daemon whose VitastorOSD is *)
(* that of a disk that stays runs on the disk's host, for every number of  *)
(* hosts and disks, moved or not, of failures and of restarts, if no two   *)
(* disks have one number.                                                  *)
(*                                                                         *)
(* The host travels from the agent's answer into a VitastorOSD, from there *)
(* through a cache into the other worker, and into a StatefulSet.  Seen    *)
(* follows it to the VitastorOSD, Agreed from there on.                    *)
(*                                                                         *)
(* And no VitastorOSD is left without a daemon on its host unless an event *)
(* or a request is under way that brings the second controller to it.      *)
(*                                                                         *)
(* What is proved of NodeController alone holds of the whole, too: its     *)
(* step, or one that leaves it alone but for its queue, is all there is.   *)
(***************************************************************************)
EXTENDS Operator, NodeLifecycleProofs

USE NodeAssumption

DistinctNumbers == \A p, q \in Paths : SbNum[p] = SbNum[q] => p = q

-----------------------------------------------------------------------------
(* A new uid is new: at most six uids of a name are referred to *)

LEMMA SixOfSeven ==
  ASSUME NEW a, NEW b, NEW c, NEW d, NEW e, NEW f
  PROVE  \E u \in 1..7 : u \notin {a, b, c, d, e, f}
OBVIOUS

LEMMA LeastOfSeven ==
  ASSUME NEW S, \E u \in 1..7 : u \notin S
  PROVE  \E u \in 1..7 : u \notin S /\ \A v \in 1..(u - 1) : v \in S
OBVIOUS

LEMMA NewUidIsNew ==
  ASSUME NEW k \in Nums
  PROVE  NewUid(k) \in 1..7 /\ NewUid(k) \notin Referred(k)
<1>1. Referred(k) \subseteq {uid[k], uidCache[k], sts[k].owner, stsCache[k].owner,
                             vitastorOSD.uid, foundSts.owner}
  BY DEF Referred
<1>2. \E u \in 1..7 : u \notin Referred(k)
  BY <1>1, SixOfSeven
<1>3. \E u \in 1..7 : u \notin Referred(k) /\ \A v \in 1..(u - 1) : v \in Referred(k)
  BY <1>2, LeastOfSeven
<1> QED
  BY <1>3 DEF NewUid

-----------------------------------------------------------------------------
(* Types *)

Typed ==
    /\ TypeOK
    /\ uid \in [Nums -> Nat] /\ uidCache \in [Nums -> Nat]
    /\ sts \in [Nums -> O!STS \cup {None}] /\ stsCache \in [Nums -> O!STS \cup {None}]
    /\ osdPc \in {"idle", "create", "image"}
    /\ osdPc # "idle" => osdCur \in Nums /\ vitastorOSD \in O!OSD
    /\ osdPc = "image" => foundSts \in O!STS

\* The steps that belong to NodeController alone.
NodeStep ==
    \/ Reconcile \/ Fail
    \/ \E n \in Nodes : Begin(n) \/ SyncNode(n) \/ Wake(n)
    \/ \E p \in Paths : Detach(p) \/ \E n \in Nodes : Attach(p, n)

\* ... and to OsdController alone.
OsdStep ==
    \/ O!Reconcile
    \/ \E k \in Nums : O!Begin(k) \/ O!SyncSts(k) \/ O!CollectSts(k)

LEMMA Steps ==
  ASSUME OperatorNext
  PROVE  \/ Node(NodeStep) \/ Osd(OsdStep) \/ Disturbed(O!Fail) \/ RestartBoth
         \/ \E k \in Nums : SyncObject(k)
BY DEF OperatorNext, Work, Synced, Surroundings, Disturbance, Node, Osd, NodeStep, OsdStep

LEMMA NodeStepNext ==
  ASSUME NodeStep
  PROVE  Next
BY DEF NodeStep, Next, Runtime, Environment

LEMMA NodeTyped ==
  ASSUME Typed, Node(NodeStep)
  PROVE  Typed'
<1>1. TypeOK'
  BY NodeStepNext, NextTyped DEF Node, Typed
<1>2. uid' \in [Nums -> Nat]
  <2>1. \A k \in Nums : NewUid(k) \in Nat
    BY NewUidIsNew
  <2> QED
    BY <2>1 DEF Node, Typed
<1> QED
  BY <1>1, <1>2 DEF Node, Typed, osdOnly, osdWorker

\* What OsdController reads are objects.
LEMMA ObjectTyped ==
  ASSUME Typed, NEW k \in Nums, osdCache[k] # None
  PROVE  Object(osdCache[k], uidCache[k]) \in O!OSD
<1>1. osdCache[k] \in OSD
  BY DEF Typed, TypeOK
<1> QED
  BY <1>1 DEF Object, OSD, O!OSD, Typed

\* What a step of OsdController does to what the invariants speak of.
LEMMA OsdEffect ==
  ASSUME Typed, Osd(OsdStep)
  PROVE  /\ UNCHANGED <<vars, uid, uidCache>>
         /\ stsCache' \in [Nums -> O!STS \cup {None}]
         /\ osdPc' \in {"idle", "create", "image"}
         /\ \/ osdPc' = "idle"
            \/ UNCHANGED <<osdPc, osdCur, vitastorOSD, foundSts>>
            \/ /\ osdCur' \in Nums /\ osdCache[osdCur'] # None
               /\ vitastorOSD' = Object(osdCache[osdCur'], uidCache[osdCur'])
               /\ osdPc' = "image" => foundSts' \in O!STS
         /\ \/ UNCHANGED sts
            \/ \E k \in Nums : sts' = [sts EXCEPT ![k] = None]
            \/ osdPc = "create" /\ sts' = [sts EXCEPT ![osdCur] = O!Configuration(vitastorOSD)]
            \/ osdPc = "image" /\ sts[osdCur] = foundSts
               /\ sts' = [sts EXCEPT ![osdCur].image = vitastorOSD.image]
<1>0. UNCHANGED <<vars, uid, uidCache>>
  BY DEF Osd
<1>1. CASE O!CreateSts
  BY <1>0, <1>1 DEF O!CreateSts, O!Requeue, O!Return, O!caches, Typed
<1>2. CASE O!UpdateSts
  BY <1>0, <1>2 DEF O!UpdateSts, O!Done, O!Requeue, O!Return, O!caches, Typed
<1>3. ASSUME NEW k \in Nums, O!Begin(k)
      PROVE  /\ UNCHANGED <<sts, stsCache>>
             /\ \/ UNCHANGED <<osdPc, osdCur, vitastorOSD, foundSts>>
                \/ /\ osdPc' \in {"create", "image"}
                   /\ osdCur' = k /\ osdCache[k] # None
                   /\ vitastorOSD' = Object(osdCache[k], uidCache[k])
                   /\ osdPc' = "image" => foundSts' \in O!STS
  <2>1. CASE O!Settled(k)
    BY <1>3, <2>1 DEF O!Begin, O!objects, O!caches, O!locals
  <2>2. CASE ~O!Settled(k)
    BY <1>3, <2>2 DEF O!Begin, O!Settled, O!objects, O!caches, O!locals, Object, Typed
  <2> QED
    BY <2>1, <2>2
<1>4. ASSUME NEW k \in Nums, O!SyncSts(k)
      PROVE  /\ UNCHANGED <<sts, osdPc, osdCur, vitastorOSD, foundSts>>
             /\ stsCache' \in [Nums -> O!STS \cup {None}]
  BY <1>4 DEF O!SyncSts, O!objects, O!locals, Typed
<1>5. ASSUME NEW k \in Nums, O!CollectSts(k)
      PROVE  /\ UNCHANGED <<stsCache, osdPc, osdCur, vitastorOSD, foundSts>>
             /\ sts' = [sts EXCEPT ![k] = None]
  BY <1>5 DEF O!CollectSts, O!caches, O!locals
<1> QED
  BY <1>0, <1>1, <1>2, <1>3, <1>4, <1>5 DEF Osd, OsdStep, O!Reconcile, Typed

LEMMA OsdTyped ==
  ASSUME Typed, Osd(OsdStep)
  PROVE  Typed'
<1>1. TypeOK' /\ uid' \in [Nums -> Nat] /\ uidCache' \in [Nums -> Nat]
  BY OsdEffect, NextTyped DEF Typed
<1>2. osdPc' # "idle" => osdCur' \in Nums /\ vitastorOSD' \in O!OSD
  <2>1. ASSUME NEW k \in Nums, osdCache[k] # None
        PROVE  Object(osdCache[k], uidCache[k]) \in O!OSD
    BY <2>1, ObjectTyped
  <2> QED
    BY <2>1, OsdEffect DEF Typed
<1>3. osdPc' = "image" => foundSts' \in O!STS
  BY OsdEffect DEF Typed
<1>4. sts' \in [Nums -> O!STS \cup {None}]
  <2>1. osdPc = "create" => O!Configuration(vitastorOSD) \in O!STS
    BY DEF Typed, O!Configuration, O!OSD, O!STS
  <2>2. osdPc = "image" => [foundSts EXCEPT !.image = vitastorOSD.image] \in O!STS
    BY DEF Typed, O!OSD, O!STS
  <2>3. osdPc = "image" /\ sts[osdCur] = foundSts =>
          [sts EXCEPT ![osdCur].image = vitastorOSD.image]
            = [sts EXCEPT ![osdCur] = [foundSts EXCEPT !.image = vitastorOSD.image]]
    BY DEF Typed
  <2> QED
    BY <2>1, <2>2, <2>3, OsdEffect DEF Typed
<1> QED
  BY <1>1, <1>2, <1>3, <1>4, OsdEffect DEF Typed

LEMMA DisturbedTyped ==
  ASSUME Typed, Disturbed(O!Fail)
  PROVE  Typed'
<1>1. budget' \in Nat
  BY DEF Disturbed, O!Fail, O!Disturb, Typed, TypeOK
<1>2. TypeOK'
  BY <1>1 DEF Disturbed, Typed, TypeOK, world, caches, work, locals
<1> QED
  BY <1>2 DEF Disturbed, O!Fail, O!Requeue, O!Return, O!objects, O!caches, Typed

LEMMA RestartTyped ==
  ASSUME Typed, RestartBoth
  PROVE  Typed'
<1>1. TypeOK'
  <2>1. Next
    BY DEF RestartBoth, Next, Environment
  <2> QED
    BY <2>1, NextTyped DEF Typed
<1> QED
  BY <1>1 DEF RestartBoth, O!Restart, O!Return, O!objects, Typed

LEMMA SyncTyped ==
  ASSUME Typed, NEW k \in Nums, SyncObject(k)
  PROVE  Typed'
<1>1. queue' \in SUBSET Nodes /\ osdCache' \in [Nums -> OSD \cup {None}]
  <2>1. osd[k] \in OSD \cup {None} /\ osdCache[k] \in OSD \cup {None}
    BY DEF Typed, TypeOK
  <2> QED
    BY <2>1 DEF SyncObject, Owners, Typed, TypeOK, OSD
<1>2. TypeOK'
  BY <1>1 DEF SyncObject, Typed, TypeOK, world, locals
<1> QED
  BY <1>2 DEF SyncObject, O!SyncOsd, O!objects, O!locals, Typed

-----------------------------------------------------------------------------
(* From the VitastorOSD to the StatefulSet: whatever bears the uid of the
   present VitastorOSD has its host. *)

HostAgrees(k, u, n) == osd[k] # None /\ u = uid[k] => n = osd[k].node

Agreed ==
    /\ \A k \in Nums :
         /\ osdCache[k] # None => HostAgrees(k, uidCache[k], osdCache[k].node)
         /\ sts[k] # None => HostAgrees(k, sts[k].owner, sts[k].node)
    /\ osdPc # "idle" => HostAgrees(osdCur, vitastorOSD.uid, vitastorOSD.node)

\* The VitastorNode controller gives no VitastorOSD another host.
LEMMA NodeKeepsHost ==
  ASSUME TypeOK, NodeStep
  PROVE  /\ UNCHANGED osdCache
         /\ \A k \in Nums : osd[k] # None /\ osd'[k] # None => osd'[k].node = osd[k].node
<1> USE DEF caches
<1>1. CASE PutHost \/ AskAgent \/ NoAgent \/ Report \/ PutOsd \/ Finish
  BY <1>1 DEF PutHost, AskAgent, Answer, NoAgent, Report, PutOsd, Finish
<1>2. ASSUME NEW p \in Paths, Visit(p)
      PROVE  /\ UNCHANGED osdCache
             /\ \A k \in Nums : osd[k] # None /\ osd'[k] # None => osd'[k].node = osd[k].node
  BY <1>2 DEF Visit, TypeOK
<1>3. ASSUME NEW j \in Nums, DeleteOsd(j) \/ UpdateImage(j)
      PROVE  /\ UNCHANGED osdCache
             /\ \A k \in Nums : osd[k] # None /\ osd'[k] # None => osd'[k].node = osd[k].node
  BY <1>3 DEF DeleteOsd, UpdateImage, TypeOK, OSD, Outdated
<1>4. CASE Fail \/ \E n \in Nodes : Begin(n) \/ SyncNode(n) \/ Wake(n)
  BY <1>4 DEF Fail, Begin, SyncNode, Wake
<1>5. CASE \E p \in Paths : Detach(p) \/ \E n \in Nodes : Attach(p, n)
  BY <1>5 DEF Detach, Attach
<1> QED
  BY <1>1, <1>2, <1>3, <1>4, <1>5 DEF NodeStep, Reconcile

LEMMA NodeAgreed ==
  ASSUME Typed, Agreed, Node(NodeStep)
  PROVE  Agreed'
<1>1. /\ UNCHANGED <<osdCache, uidCache, osdOnly>>
      /\ \A k \in Nums : osd[k] # None /\ osd'[k] # None => osd'[k].node = osd[k].node
  BY NodeKeepsHost DEF Node, Typed
<1>2. ASSUME NEW k \in Nums, osd'[k] # None, NEW u \in Referred(k), u = uid'[k]
      PROVE  osd[k] # None /\ u = uid[k]
  BY <1>2, NewUidIsNew DEF Node, Typed
<1>3. ASSUME NEW k \in Nums, osd'[k] # None, NEW u \in Referred(k), u = uid'[k]
      PROVE  osd[k] # None /\ u = uid[k] /\ osd'[k].node = osd[k].node
  BY <1>1, <1>2, <1>3
<1>4. \A k \in Nums : /\ uidCache[k] \in Referred(k)
                      /\ sts[k] # None => sts[k].owner \in Referred(k)
  BY DEF Referred
<1>5. osdPc # "idle" => osdCur \in Nums /\ vitastorOSD.uid \in Referred(osdCur)
  BY DEF Referred, Typed
<1>6. ASSUME NEW k \in Nums, osdCache[k] # None
      PROVE  HostAgrees(k, uidCache[k], osdCache[k].node)'
  <2>1. SUFFICES ASSUME osd'[k] # None, uidCache[k] = uid'[k]
                 PROVE  osdCache[k].node = osd'[k].node
    BY <1>1 DEF HostAgrees
  <2>2. osd[k] # None /\ uidCache[k] = uid[k] /\ osd'[k].node = osd[k].node
    BY <1>3, <1>4, <2>1
  <2> QED
    BY <1>6, <2>2 DEF Agreed, HostAgrees
<1>7. ASSUME NEW k \in Nums, sts[k] # None
      PROVE  HostAgrees(k, sts[k].owner, sts[k].node)'
  <2>1. SUFFICES ASSUME osd'[k] # None, sts[k].owner = uid'[k]
                 PROVE  sts[k].node = osd'[k].node
    BY <1>1 DEF HostAgrees, osdOnly
  <2>2. osd[k] # None /\ sts[k].owner = uid[k] /\ osd'[k].node = osd[k].node
    BY <1>3, <1>4, <1>7, <2>1
  <2> QED
    BY <1>7, <2>2 DEF Agreed, HostAgrees
<1>8. osdPc # "idle" => HostAgrees(osdCur, vitastorOSD.uid, vitastorOSD.node)'
  BY <1>1, <1>3, <1>5 DEF Agreed, HostAgrees, osdOnly, osdWorker
<1> QED
  BY <1>1, <1>6, <1>7, <1>8 DEF Agreed, osdOnly, osdWorker

LEMMA OsdAgreed ==
  ASSUME Typed, Agreed, Osd(OsdStep)
  PROVE  Agreed'
<1>1. UNCHANGED <<osd, osdCache, uid, uidCache>>
  BY OsdEffect DEF vars, caches
<1>2. \A k \in Nums : sts'[k] # None => HostAgrees(k, sts'[k].owner, sts'[k].node)
  <2>1. CASE UNCHANGED sts \/ \E k \in Nums : sts' = [sts EXCEPT ![k] = None]
    BY <2>1 DEF Agreed, Typed
  <2>2. CASE osdPc = "create" /\ sts' = [sts EXCEPT ![osdCur] = O!Configuration(vitastorOSD)]
    BY <2>2 DEF Agreed, Typed, O!Configuration
  <2>3. CASE /\ osdPc = "image" /\ sts[osdCur] = foundSts
             /\ sts' = [sts EXCEPT ![osdCur].image = vitastorOSD.image]
    <3>1. \A k \in Nums : sts'[k] # None => sts[k] # None /\ sts'[k].owner = sts[k].owner
                                            /\ sts'[k].node = sts[k].node
      BY <2>3, OperatorAssumption DEF Typed, O!STS
    <3> QED
      BY <3>1 DEF Agreed
  <2> QED
    BY <2>1, <2>2, <2>3, OsdEffect
<1>3. osdPc' # "idle" => HostAgrees(osdCur', vitastorOSD'.uid, vitastorOSD'.node)
  <2>1. CASE UNCHANGED <<osdPc, osdCur, vitastorOSD, foundSts>>
    BY <2>1 DEF Agreed
  <2>2. CASE /\ osdCur' \in Nums /\ osdCache[osdCur'] # None
             /\ vitastorOSD' = Object(osdCache[osdCur'], uidCache[osdCur'])
    BY <2>2 DEF Agreed, Object
  <2> QED
    BY <2>1, <2>2, OsdEffect
<1> QED
  BY <1>1, <1>2, <1>3 DEF Agreed, HostAgrees

LEMMA OtherAgreed ==
  ASSUME Typed, Agreed, Disturbed(O!Fail) \/ RestartBoth \/ \E k \in Nums : SyncObject(k)
  PROVE  Agreed'
<1>1. CASE Disturbed(O!Fail)
  BY <1>1 DEF Disturbed, caches, O!Fail, O!Requeue, O!Return, O!objects, Agreed, HostAgrees
<1>2. CASE RestartBoth
  BY <1>2 DEF RestartBoth, Restart, O!Restart, O!Return, O!objects, Agreed, HostAgrees
<1>3. ASSUME NEW k \in Nums, SyncObject(k) PROVE Agreed'
  BY <1>3 DEF SyncObject, O!SyncOsd, O!objects, O!locals, Agreed, HostAgrees, Typed, TypeOK
<1> QED
  BY <1>1, <1>2, <1>3

-----------------------------------------------------------------------------
(* From the disk to the VitastorOSD: the disk of a serving one has not left the
   host it was seen on. *)

Seen ==
    /\ \A k \in Nums : osd[k] # None => SbNum[osd[k].path] = k
    /\ \A p \in Paths : SbNum[p] \in serving => where[p] # None
    /\ \A k \in serving : osd[k] # None => where[osd[k].path] = osd[k].node
    /\ pc \in {"report", "visit", "putOsd"} =>
         \A p \in osds : SbNum[p] \in serving => where[p] = cur
    /\ pc \in {"visit", "putOsd"} => todo \subseteq osds

\* Nothing of it changes but what the worker holds.
LEMMA QuietSeen ==
  ASSUME Seen, UNCHANGED <<where, osd, serving>>,
         pc' \notin {"report", "visit", "putOsd"} \/ UNCHANGED <<pc, cur, osds, todo>>
  PROVE  Seen'
BY DEF Seen

LEMMA VisitSeen ==
  ASSUME DistinctNumbers, TypeOK, Seen, NEW p \in Paths, Visit(p)
  PROVE  Seen'
<1>1. CASE osd' = osd /\ serving' = serving
  BY <1>1 DEF Visit, ReturnErr, Return, world, Seen
<1>2. CASE /\ osd[SbNum[p]] = None
           /\ osd' = [osd EXCEPT ![SbNum[p]] = Configuration(p)]
           /\ serving' = IF where[p] = cur THEN serving \cup {SbNum[p]} ELSE serving
           /\ todo' = todo \ {p} /\ pc' = "putOsd" /\ UNCHANGED <<cur, osds, where>>
  <2>1. SbNum[p] \in Nums /\ cur # None /\ p \in osds /\ pc = "visit" /\ p \in todo
    BY DEF Visit, TypeOK, Seen, Keys
  <2>2. SbNum[p] \in serving => where[p] = cur
    BY <2>1 DEF Seen
  <2>3. \A k \in Nums : osd'[k] = IF k = SbNum[p] THEN Configuration(p) ELSE osd[k]
    BY <1>2 DEF TypeOK
  <2>4. Configuration(p).path = p /\ Configuration(p).node = cur
    BY DEF Configuration
  <2>5. (\A k \in Nums : osd[k] # None => SbNum[osd[k].path] = k)'
    BY <2>3, <2>4 DEF Seen
  <2>6. (\A q \in Paths : SbNum[q] \in serving => where[q] # None)'
    BY <1>2, <2>1 DEF Seen, DistinctNumbers
  <2>7. (\A k \in serving : osd[k] # None => where[osd[k].path] = osd[k].node)'
    BY <1>2, <2>1, <2>2, <2>3, <2>4 DEF Seen, TypeOK
  <2>8. (\A q \in osds : SbNum[q] \in serving => where[q] = cur)'
    BY <1>2, <2>1 DEF Seen, DistinctNumbers, TypeOK
  <2>9. todo' \subseteq osds'
    BY <1>2, <2>1 DEF Seen
  <2> QED
    BY <1>2, <2>5, <2>6, <2>7, <2>8, <2>9 DEF Seen
<1> QED
  BY <1>1, <1>2 DEF Visit, world

LEMMA ReconcileSeen ==
  ASSUME DistinctNumbers, TypeOK, Seen, Reconcile
  PROVE  Seen'
<1>1. CASE PutHost \/ NoAgent \/ Finish
  BY <1>1, QuietSeen DEF PutHost, NoAgent, Finish, ReturnAfter, Return, world
<1>2. CASE PutOsd
  BY <1>2 DEF PutOsd, Seen, world
<1>3. CASE AskAgent
  BY <1>3 DEF AskAgent, Answer, At, Seen, world
<1>4. CASE Report
  BY <1>4 DEF Report, ReturnErr, Return, Seen, world
<1>5. ASSUME NEW p \in Paths, Visit(p) PROVE Seen'
  BY <1>5, VisitSeen
<1>6. ASSUME NEW k \in Nums, DeleteOsd(k) PROVE Seen'
  BY <1>6 DEF DeleteOsd, ReturnErr, Return, Seen, world, TypeOK
<1>7. ASSUME NEW k \in Nums, UpdateImage(k) PROVE Seen'
  <2>1. \A j \in Nums : osd'[j] # None => osd[j] # None /\ osd'[j].path = osd[j].path
                                           /\ osd'[j].node = osd[j].node
    BY <1>7 DEF UpdateImage, Outdated, TypeOK, OSD
  <2> QED
    BY <1>7, <2>1 DEF UpdateImage, ReturnErr, ReturnAfter, Return, Seen, world, TypeOK
<1> QED
  BY <1>1, <1>2, <1>3, <1>4, <1>5, <1>6, <1>7 DEF Reconcile

LEMMA NodeSeen ==
  ASSUME DistinctNumbers, TypeOK, Seen, NodeStep
  PROVE  Seen'
<1>1. CASE Fail
  BY <1>1, QuietSeen DEF Fail, ReturnErr, Return, world
<1>2. ASSUME NEW n \in Nodes, Begin(n) \/ SyncNode(n) \/ Wake(n) PROVE Seen'
  BY <1>2, QuietSeen DEF Begin, SyncNode, Wake, world, locals
<1>3. ASSUME NEW p \in Paths, Detach(p) PROVE Seen'
  <2>1. /\ serving' = serving \ {SbNum[p]}
        /\ \A q \in Paths : where'[q] = IF q = p THEN None ELSE where[q]
        /\ UNCHANGED <<osd, pc, cur, osds, todo>>
    BY <1>3 DEF Detach, TypeOK, locals
  <2>2. \A k \in serving : k \in Nums /\ (osd[k] # None => osd[k].path \in Paths)
    BY DEF TypeOK, OSD
  <2> QED
    BY <2>1, <2>2 DEF Seen, TypeOK
<1>4. ASSUME NEW p \in Paths, NEW n \in Nodes, Attach(p, n) PROVE Seen'
  <2>1. /\ SbNum[p] \notin serving /\ where[p] = None
        /\ \A q \in Paths : where'[q] = IF q = p THEN n ELSE where[q]
        /\ UNCHANGED <<osd, serving, pc, cur, osds, todo>>
    BY <1>4 DEF Attach, Seen, TypeOK, locals
  <2>2. n # None
    BY DEF TypeOK, Keys
  <2>3. \A k \in serving : k \in Nums /\ (osd[k] # None => osd[k].path \in Paths)
    BY DEF TypeOK, OSD
  <2> QED
    BY <2>1, <2>2, <2>3 DEF Seen, TypeOK
<1> QED
  BY <1>1, ReconcileSeen, <1>2, <1>3, <1>4 DEF NodeStep

-----------------------------------------------------------------------------

OperatorInv == Typed /\ Agreed /\ Seen

LEMMA InitInv == OperatorInit => OperatorInv
<1> SUFFICES ASSUME OperatorInit PROVE OperatorInv
  OBVIOUS
<1>1. TypeOK
  BY InitTyped DEF OperatorInit
<1>2. uid \in [Nums -> Nat] /\ uidCache \in [Nums -> Nat]
  BY DEF OperatorInit
<1>3. \A k \in Nums : osd[k] = None /\ osdCache[k] = None /\ sts[k] = None /\ stsCache[k] = None
  BY DEF OperatorInit, Init, NoList
<1>4. sts \in [Nums -> O!STS \cup {None}] /\ stsCache \in [Nums -> O!STS \cup {None}]
  BY DEF OperatorInit, NoList
<1> QED
  BY <1>1, <1>2, <1>3, <1>4 DEF OperatorInit, Init, OperatorInv, Typed, Agreed, Seen

LEMMA StepInv ==
  ASSUME DistinctNumbers, OperatorInv, [OperatorNext]_allVars
  PROVE  OperatorInv'
<1> USE DEF OperatorInv
<1>1. CASE UNCHANGED allVars
  <2>1. TypeOK'
    BY <1>1, NextTyped DEF Typed, allVars
  <2> QED
    BY <1>1, <2>1 DEF allVars, vars, world, caches, locals, osdOnly, osdWorker, Typed, Agreed, HostAgrees, Seen
<1>2. CASE Node(NodeStep)
  BY <1>2, NodeTyped, NodeAgreed, NodeSeen DEF Typed, Node
<1>3. CASE Osd(OsdStep)
  <2>1. UNCHANGED <<where, osd, serving, pc, cur, osds, todo>>
    BY <1>3 DEF Osd, vars, world, locals
  <2> QED
    BY <1>3, <2>1, OsdTyped, OsdAgreed, QuietSeen
<1>4. CASE Disturbed(O!Fail)
  <2>1. UNCHANGED <<where, osd, serving, pc, cur, osds, todo>>
    BY <1>4 DEF Disturbed, world, locals
  <2> QED
    BY <1>4, <2>1, DisturbedTyped, OtherAgreed, QuietSeen
<1>5. CASE RestartBoth
  <2>1. UNCHANGED <<where, osd, serving>> /\ pc' = "idle"
    BY <1>5 DEF RestartBoth, Restart, Return, world
  <2> QED
    BY <1>5, <2>1, RestartTyped, OtherAgreed, QuietSeen
<1>6. ASSUME NEW k \in Nums, SyncObject(k) PROVE OperatorInv'
  <2>1. UNCHANGED <<where, osd, serving, pc, cur, osds, todo>>
    BY <1>6 DEF SyncObject, world, locals
  <2> QED
    BY <1>6, <2>1, SyncTyped, OtherAgreed, QuietSeen
<1> QED
  BY <1>1, <1>2, <1>3, <1>4, <1>5, <1>6, Steps

\* The daemon of a disk that has stayed where it was seen runs on that host:
\* DaemonWithItsDisk, for every instance with distinct numbers.
THEOREM DaemonStaysWithItsDisk ==
  ASSUME DistinctNumbers
  PROVE  OperatorSpec => []DaemonWithItsDisk
<1>1. OperatorInv /\ [OperatorNext]_allVars => OperatorInv'
  BY StepInv
<1>2. OperatorInv => DaemonWithItsDisk
  BY DEF OperatorInv, Typed, TypeOK, Agreed, HostAgrees, Seen, DaemonWithItsDisk, Runs
<1> QED
  BY InitInv, <1>1, <1>2, PTL DEF OperatorSpec

-----------------------------------------------------------------------------
(* NoDaemonForgotten: queue, worker, watches and collector of the VitastorOSD
   controller hold every name that is not settled, whoever changes the objects. *)

Due(k) ==
    \/ k \in osdQueue
    \/ osdPc # "idle" /\ osdCur = k
    \/ O!Settled(k)
    \/ stsCache[k] # None /\ stsCache[k] # sts[k]

\* The StatefulSet the worker is about to update is the cached one, unless its name
\* is due again, and the update changes it.
FoundIsCached ==
    osdPc = "image" => /\ osdCur \in osdQueue \/ stsCache[osdCur] = foundSts
                       /\ foundSts.image # vitastorOSD.image

DueInv == (\A k \in Nums : Due(k)) /\ FoundIsCached

\* Only StatefulSets are taken away, which are not the cached ones any more.
LEMMA QuietDue ==
  ASSUME DueInv, UNCHANGED <<osdCache, uidCache, stsCache, osdQueue, osdWorker>>,
         \A k \in Nums : sts'[k] \in {sts[k], None}
  PROVE  DueInv'
BY DEF DueInv, Due, FoundIsCached, O!Settled, osdWorker

\* A name that is not settled goes into the worker's hands.
LEMMA BeginDue ==
  ASSUME DueInv, UNCHANGED <<osdCache, uidCache>>, NEW k \in Nums, O!Begin(k)
  PROVE  DueInv'
<1>1. UNCHANGED <<sts, stsCache>> /\ osdPc = "idle" /\ osdQueue' = osdQueue \ {k}
  BY DEF O!Begin, O!objects, O!caches
<1>2. \A j \in Nums : O!Settled(j)' <=> O!Settled(j)
  BY <1>1 DEF O!Settled
<1>3. CASE O!Settled(k)
  BY <1>1, <1>2, <1>3 DEF O!Begin, O!locals, DueInv, Due, FoundIsCached
<1>4. CASE ~O!Settled(k)
  <2>1. /\ osdPc' = IF stsCache[k] = None THEN "create" ELSE "image"
        /\ osdCur' = k /\ vitastorOSD' = Object(osdCache[k], uidCache[k]) /\ foundSts' = stsCache[k]
    BY <1>4 DEF O!Begin
  <2>2. FoundIsCached'
    BY <1>1, <1>4, <2>1 DEF FoundIsCached, O!Settled
  <2>3. \A j \in Nums : Due(j)'
    BY <1>1, <1>2, <2>1 DEF DueInv, Due
  <2> QED
    BY <2>2, <2>3 DEF DueInv
<1> QED
  BY <1>3, <1>4

\* Whatever Reconcile does last queues its name, or leaves an old StatefulSet in the
\* cache, whose event will.
LEMMA ReconcileDue ==
  ASSUME Typed, DueInv, UNCHANGED <<osdCache, uidCache>>, O!Reconcile
  PROVE  DueInv'
<1>1. /\ UNCHANGED stsCache /\ osdPc' = "idle" /\ osdPc # "idle" /\ osdCur \in Nums
      /\ osdQueue' \in {osdQueue, osdQueue \cup {osdCur}}
      /\ \A j \in Nums \ {osdCur} : sts'[j] = sts[j]
  <2>1. CASE O!CreateSts
    BY <2>1 DEF O!CreateSts, O!Requeue, O!Return, O!caches, Typed
  <2>2. CASE O!UpdateSts
    BY <2>2 DEF O!UpdateSts, O!Requeue, O!Done, O!Return, O!caches, Typed
  <2> QED
    BY <2>1, <2>2 DEF O!Reconcile
<1>2. PICK k \in Nums : k = osdCur
  BY <1>1
<1>3. ASSUME NEW j \in Nums \ {k} PROVE Due(j)'
  BY <1>1, <1>2 DEF DueInv, Due, O!Settled
<1>4. Due(k)'
  <2>1. CASE k \in osdQueue'
    BY <2>1 DEF Due
  <2>2. CASE k \notin osdQueue'
    <3>1. O!UpdateSts /\ sts[k] = foundSts /\ foundSts \in O!STS
      BY <1>2, <2>2 DEF O!Reconcile, O!CreateSts, O!UpdateSts, O!Requeue, Typed
    <3>2. sts'[k].image = vitastorOSD.image
      BY <1>2, <3>1 DEF O!UpdateSts, O!STS, Typed
    <3>3. stsCache[k] = foundSts /\ foundSts.image # vitastorOSD.image
      BY <1>1, <1>2, <2>2, <3>1 DEF DueInv, FoundIsCached, O!UpdateSts
    <3>4. foundSts # None
      BY <3>1, OperatorAssumption
    <3> QED
      BY <1>1, <3>2, <3>3, <3>4 DEF Due
  <2> QED
    BY <2>1, <2>2
<1> QED
  BY <1>1, <1>3, <1>4 DEF DueInv, FoundIsCached

LEMMA OsdDue ==
  ASSUME Typed, DueInv, Osd(OsdStep)
  PROVE  DueInv'
<1>1. UNCHANGED <<osdCache, uidCache>>
  BY DEF Osd, vars, caches
<1>2. ASSUME NEW k \in Nums, O!SyncSts(k) PROVE DueInv'
  <2>1. /\ UNCHANGED <<sts, osdPc, osdCur, vitastorOSD, foundSts>> /\ osdQueue' = osdQueue \cup {k}
        /\ \A j \in Nums \ {k} : stsCache'[j] = stsCache[j]
    BY <1>2 DEF O!SyncSts, O!Owner, O!objects, O!locals, Typed
  <2>2. osdPc # "idle" => osdCur \in Nums
    BY DEF Typed
  <2> QED
    BY <1>1, <2>1, <2>2 DEF DueInv, Due, FoundIsCached, O!Settled
<1>3. ASSUME NEW k \in Nums, O!CollectSts(k) PROVE DueInv'
  <2>1. UNCHANGED <<stsCache, osdQueue, osdWorker>> /\ sts' = [sts EXCEPT ![k] = None]
    BY <1>3 DEF O!CollectSts, O!caches, O!locals, osdWorker
  <2>2. \A j \in Nums : sts'[j] \in {sts[j], None}
    BY <2>1 DEF Typed
  <2> QED
    BY <1>1, <2>1, <2>2, QuietDue
<1> QED
  BY <1>1, <1>2, <1>3, BeginDue, ReconcileDue DEF Osd, OsdStep

LEMMA OtherDue ==
  ASSUME Typed, DueInv, Disturbed(O!Fail) \/ RestartBoth \/ \E k \in Nums : SyncObject(k)
  PROVE  DueInv'
<1>1. CASE Disturbed(O!Fail)
  BY <1>1 DEF Disturbed, caches, O!Fail, O!Requeue, O!Return, O!objects, O!caches, DueInv, Due, FoundIsCached, O!Settled
<1>2. CASE RestartBoth
  <2>1. /\ osdPc' = "idle" /\ stsCache' = sts
        /\ osdCache' = osd /\ uidCache' = uid
        /\ osdQueue' = {k \in Nums : Object(osd[k], uid[k]) # None \/ sts[k] # None}
    BY <1>2 DEF RestartBoth, Restart, O!Restart, O!Return
  <2> QED
    BY <2>1 DEF DueInv, Due, FoundIsCached, O!Settled
<1>3. ASSUME NEW k \in Nums, SyncObject(k) PROVE DueInv'
  <2>1. /\ UNCHANGED <<sts, stsCache, osdPc, osdCur, vitastorOSD, foundSts>> /\ osdQueue' = osdQueue \cup {k}
        /\ \A j \in Nums \ {k} : osdCache'[j] = osdCache[j] /\ uidCache'[j] = uidCache[j]
    BY <1>3 DEF SyncObject, O!SyncOsd, O!objects, O!locals, Typed, TypeOK
  <2> QED
    BY <2>1 DEF DueInv, Due, FoundIsCached, O!Settled
<1> QED
  BY <1>1, <1>2, <1>3

LEMMA StepDue ==
  ASSUME Typed, DueInv, [OperatorNext]_allVars
  PROVE  DueInv'
<1>1. CASE Node(NodeStep) \/ UNCHANGED allVars
  <2>1. UNCHANGED <<osdCache, uidCache, sts, stsCache, osdQueue, osdWorker>>
    BY <1>1, NodeKeepsHost DEF Node, Typed, osdOnly, allVars, vars, caches
  <2> QED
    BY <2>1, QuietDue
<1> QED
  BY <1>1, OsdDue, OtherDue, Steps

\* A name that is not due is settled in the caches; if these are up to date and
\* nothing is to be collected, it is settled for good, and Agreed adds the host.
LEMMA DueForgetsNone ==
  ASSUME Typed, Agreed, DueInv
  PROVE  NoDaemonForgotten
<1> SUFFICES ASSUME NEW k \in Nums, O!Quiet(k) PROVE O!Matches(k)
  BY DEF NoDaemonForgotten, O!NothingForgotten
<1>1. O!Settled(k) /\ Object(osdCache[k], uidCache[k]) = Object(osd[k], uid[k]) /\ stsCache[k] = sts[k]
  BY DEF DueInv, Due, O!Quiet
<1>2. CASE osd[k] = None
  BY <1>2 DEF O!Quiet, O!Owned, O!Matches, Object
<1>3. CASE osd[k] # None
  <2>1. Object(osd[k], uid[k]) \in O!OSD
    BY <1>3 DEF Typed, TypeOK, Object, OSD, O!OSD
  <2>2. Object(osd[k], uid[k]) # None
    BY <2>1, OperatorAssumption
  <2>3. /\ sts[k] # None /\ sts[k].image = Object(osd[k], uid[k]).image
        /\ sts[k].owner = Object(osd[k], uid[k]).uid
    BY <1>1, <2>2 DEF O!Settled, O!Quiet, O!Owned
  <2>4. sts[k].owner = uid[k]
    BY <1>3, <2>3 DEF Object
  <2>5. sts[k].node = osd[k].node
    BY <1>3, <2>3, <2>4 DEF Agreed, HostAgrees
  <2>6. Object(osd[k], uid[k]).node = osd[k].node
    BY <1>3 DEF Object
  <2> QED
    BY <2>2, <2>3, <2>5, <2>6 DEF O!Matches
<1> QED
  BY <1>2, <1>3

\* No VitastorOSD is left without its daemon on its host unless it is due, whichever
\* of the two controllers and the collector was last to touch either object.
THEOREM DaemonsAreNotForgotten ==
  ASSUME DistinctNumbers
  PROVE  OperatorSpec => []NoDaemonForgotten
<1>1. OperatorInit => DueInv
  BY DEF OperatorInit, Init, NoList, DueInv, Due, FoundIsCached, O!Settled, Object
<1>2. OperatorInv /\ DueInv /\ [OperatorNext]_allVars => (OperatorInv /\ DueInv)'
  BY StepInv, StepDue DEF OperatorInv
<1>3. OperatorInv /\ DueInv => NoDaemonForgotten
  BY DueForgetsNone DEF OperatorInv
<1> QED
  BY InitInv, <1>1, <1>2, <1>3, PTL DEF OperatorSpec

-----------------------------------------------------------------------------
(* The promises of the VitastorNode controller hold in the whole.  Every step of
   the two is a step of NodeController or leaves all of it alone but its queue,
   which may grow, and the budget: NodeController knows no uids of VitastorOSDs,
   so the event of one that was made again just as it was is not an event there. *)

Aside ==
    /\ UNCHANGED <<world, vnode, osd, placement, caches, delayed, pc, locals, nextUid, serving>>
    /\ queue \subseteq queue'

LEMMA WholeStep ==
  ASSUME Typed, [OperatorNext]_allVars
  PROVE  [Next]_vars \/ Aside
<1>1. CASE Node(NodeStep)
  BY <1>1, NodeStepNext DEF Node
<1>2. CASE Osd(OsdStep) \/ UNCHANGED allVars
  BY <1>2 DEF Osd, allVars
<1>3. CASE Disturbed(O!Fail)
  BY <1>3 DEF Disturbed, Aside, work
<1>4. CASE RestartBoth
  BY <1>4 DEF RestartBoth, Next, Environment
<1>5. ASSUME NEW k \in Nums, SyncObject(k) PROVE [Next]_vars \/ Aside
  <2>1. CASE osdCache[k] # osd[k]
    BY <1>5, <2>1 DEF SyncObject, SyncOsd, Next, Runtime
  <2>2. CASE osdCache[k] = osd[k]
    <3>1. osdCache' = osdCache
      BY <1>5, <2>2 DEF SyncObject, Typed, TypeOK
    <3> QED
      BY <1>5, <3>1 DEF SyncObject, Aside, caches
  <2> QED
    BY <2>1, <2>2
<1> QED
  BY <1>1, <1>2, <1>3, <1>4, <1>5, Steps

LEMMA TypedStep ==
  ASSUME Typed, [OperatorNext]_allVars
  PROVE  Typed'
<1>1. CASE UNCHANGED allVars
  <2>1. TypeOK'
    BY <1>1, NextTyped DEF Typed, allVars
  <2> QED
    BY <1>1, <2>1 DEF allVars, osdOnly, osdWorker, Typed
<1> QED
  BY <1>1, NodeTyped, OsdTyped, DisturbedTyped, RestartTyped, SyncTyped, Steps

LEMMA WholeTyped == OperatorSpec => []Typed
<1>1. OperatorInit => Typed
  BY InitInv DEF OperatorInv
<1>2. Typed /\ [OperatorNext]_allVars => Typed'
  BY TypedStep
<1> QED
  BY <1>1, <1>2, PTL DEF OperatorSpec

LEMMA WholeHomes == OperatorSpec => []HomeInv
<1>1. OperatorInit => HomeInv
  BY DEF OperatorInit, Init, HomeInv, Objects, AllRightful, Plugged, Answered, NoList
<1>2. HomeInv /\ Aside => HomeInv'
  BY DEF Aside, world, caches, locals, HomeInv, Objects, AllRightful, Plugged, Answered
<1>3. Typed /\ HomeInv /\ [OperatorNext]_allVars => HomeInv'
  BY <1>2, WholeStep, StepHomes DEF Typed
<1> QED
  BY <1>1, <1>3, WholeTyped, PTL DEF OperatorSpec

LEMMA WholeServes == ASSUME FixedDisks PROVE OperatorSpec => []ServeInv
<1>1. OperatorInit => ServeInv
  BY DEF OperatorInit, Init, ServeInv, InPlace, Told
<1>2. ServeInv /\ Aside => ServeInv'
  BY DEF Aside, world, locals, ServeInv, InPlace, Told
<1>3. Typed /\ HomeInv /\ ServeInv /\ [OperatorNext]_allVars => ServeInv'
  BY <1>2, WholeStep, StepServes DEF Typed
<1> QED
  BY <1>1, <1>3, WholeTyped, WholeHomes, PTL DEF OperatorSpec

\* The two controllers and the collector together implement the life cycle of a
\* disk's VitastorOSD: what the VitastorOSD controller and its failures add comes
\* to nothing that withdraws an object before its disk has left.
THEOREM WholeImplementsLifecycle ==
  ASSUME FixedDisks, NoDeletes
  PROVE  OperatorSpec => Lifecycle
<1>1. OperatorInit => Adopted /\ L!Init
  BY InitAdopted, InitMaps DEF OperatorInit
<1>2. Adopted /\ Aside => Adopted'
  BY DEF Aside, caches, locals, Adopted, Unowned
<1>3. Typed /\ Adopted /\ [OperatorNext]_allVars => Adopted'
  BY <1>2, WholeStep, StepAdopted DEF Typed
<1>4. Aside => [L!Next]_(L!lifecycle)
  BY QuietStep DEF Aside, world
<1>5. Typed /\ HomeInv /\ ServeInv /\ Adopted /\ [OperatorNext]_allVars => [L!Next]_(L!lifecycle)
  BY <1>4, WholeStep, StepMaps DEF Typed
<1> QED
  BY <1>1, <1>3, <1>5, WholeTyped, WholeHomes, WholeServes, PTL DEF OperatorSpec, Lifecycle, L!Spec

\* With both controllers at work, too, the placement tree loses no entry and stays
\* closed.
THEOREM WholeKeepsTree ==
  ASSUME Disjoint
  PROVE  OperatorSpec => KeepsPlacement /\ []TreeClosed
<1>1. OperatorInit => TreeInv
  <2> SUFFICES ASSUME OperatorInit PROVE TreeInv
    OBVIOUS
  <2>1. \A k \in Keys : placement[k] = None
    BY DEF OperatorInit, Init, NoTree
  <2> QED
    BY <2>1 DEF OperatorInit, Init, TreeInv, CopyKeeps, CopyClosed, TreeClosed, Closed, Keys
<1>2. TreeInv /\ Aside => TreeInv'
  BY DEF Aside, world, locals, TreeInv, CopyKeeps, CopyClosed, TreeClosed, Closed
<1>3. Typed /\ TreeInv /\ [OperatorNext]_allVars => TreeInv'
  BY <1>2, WholeStep, StepClosed DEF Typed
<1>4. Typed /\ TreeInv /\ [OperatorNext]_allVars
        => [\A k \in Keys : placement[k] # None => placement'[k] # None]_vars
  <2> SUFFICES ASSUME Typed, TreeInv, [OperatorNext]_allVars
               PROVE  \A k \in Keys : placement[k] # None => placement'[k] # None
    OBVIOUS
  <2>1. CASE Aside
    BY <2>1 DEF Aside
  <2>2. CASE [Next]_vars
    BY <2>2, StepKeeps DEF Kept, Typed, TreeInv
  <2> QED
    BY <2>1, <2>2, WholeStep
<1>5. TreeInv => TreeClosed
  BY DEF TreeInv
<1> QED
  BY <1>1, <1>3, <1>4, <1>5, WholeTyped, PTL DEF OperatorSpec, KeepsPlacement

LEMMA AsideForgets ==
  ASSUME TypeOK, ForgetInv, Aside
  PROVE  ForgetInv'
<1>1. Present' /\ Fresh'
  BY DEF Aside, world, caches, ForgetInv, Present, Fresh
<1>2. ASSUME NEW n \in Nodes PROVE Attended(n)'
  <2>1. ViewKept(n)
    BY QuietView DEF Aside
  <2> QED
    BY <2>1, OutsideAttended DEF Aside, ForgetInv
<1> QED
  BY <1>1, <1>2 DEF ForgetInv

\* With both at work, a host at rest has the VitastorOSDs of the disks in its status.
THEOREM WholeForgetsNone ==
  ASSUME Steady
  PROVE  OperatorSpec => []NothingForgotten
<1>1. OperatorInit => ForgetInv
  BY InitForgets DEF OperatorInit
<1>2. TypeOK /\ ForgetInv /\ Aside => ForgetInv'
  BY AsideForgets
<1>3. Typed /\ HomeInv /\ ForgetInv /\ [OperatorNext]_allVars => ForgetInv'
  BY <1>2, WholeStep, StepForgets DEF Typed
<1>4. Typed /\ ForgetInv => NothingForgotten
  BY AttendedForgetsNone DEF Typed
<1> QED
  BY <1>1, <1>3, <1>4, WholeTyped, WholeHomes, PTL DEF OperatorSpec
=============================================================================
