-------------------------- MODULE NodeServingProofs --------------------------
(***************************************************************************)
(* Two theorems about what the VitastorNode controller creates and deletes *)
(* by a lagging cache, both where a disk keeps to one host and a number to *)
(* one disk.                                                               *)
(*                                                                         *)
(* ServingIsKept: it deletes no VitastorOSD whose disk stays in its host,  *)
(* if also the agent answers right or not at all.  Without the first       *)
(* condition the run NodeStaleDelete violates it, without the last the run *)
(* NodeHttpError.                                                          *)
(*                                                                         *)
(* NoneIsForgotten: a host at rest has the VitastorOSDs of the disks in    *)
(* its status, whatever the agent said, if also nobody else deletes        *)
(* VitastorOSDs and no agent or Node object goes away.                     *)
(*                                                                         *)
(* The request that deletes names an object of the cache, and what it      *)
(* deletes is what has that name now.  So the proofs first follow the      *)
(* objects from the API server through the cache into osdList (HomeInv),   *)
(* to show that two of one name can only be of one disk on one host.       *)
(***************************************************************************)
EXTENDS NodeControllerProofs

USE NodeAssumption

OneHome ==
    /\ \A p, q \in Paths : SbNum[p] = SbNum[q] => p = q
    /\ \A p \in Paths : \A m, n \in Slots[p] : m = n

-----------------------------------------------------------------------------
(* Where the objects come from *)

\* An object named k is of a disk with that number, on a host it fits into.
Rightful(k, o) == o \in OSD /\ SbNum[o.path] = k /\ o.node \in Slots[o.path]

AllRightful(f) == \A k \in Nums : f[k] # None => Rightful(k, f[k])

Objects == AllRightful(osd) /\ AllRightful(osdCache) /\ AllRightful(osdList)

Plugged == \A p \in Paths : where[p] # None => where[p] \in Slots[p]

\* The worker has an answer; the listed objects are of the host it is about.
Answered ==
    /\ pc \in {"report", "visit", "putOsd", "sweep"} => \A p \in osds : cur \in Slots[p]
    /\ pc \in {"visit", "putOsd"} => todo \subseteq osds
    /\ pc \in {"visit", "putOsd", "sweep"} =>
         \A k \in Nums : osdList[k] # None => osdList[k].node = cur

HomeInv == Objects /\ Plugged /\ Answered

\* Two objects of one name are of one disk and on one host.
LEMMA SameHome ==
  ASSUME OneHome, NEW k \in Nums, NEW o, NEW r, Rightful(k, o), Rightful(k, r)
  PROVE  o.path = r.path /\ o.node = r.node
<1>1. o.path = r.path
  BY DEF Rightful, OneHome, OSD
<1> QED
  BY <1>1 DEF Rightful, OneHome, OSD

LEMMA ReturnHomes ==
  ASSUME HomeInv, Return, UNCHANGED where, AllRightful(osd)', AllRightful(osdCache)'
  PROVE  HomeInv'
BY DEF Return, HomeInv, Objects, Plugged, Answered, NoList, AllRightful

\* A step that leaves the worker alone, and at most takes objects away.
LEMMA RemovalHomes ==
  ASSUME HomeInv, UNCHANGED <<pc, cur, osds, todo, osdList>>, Plugged', AllRightful(osdCache)',
         \A k \in Nums : osd'[k] # osd[k] => osd'[k] = None
  PROVE  HomeInv'
<1>1. Objects'
  BY DEF HomeInv, Objects, AllRightful, Rightful
<1>2. Answered'
  BY DEF HomeInv, Answered
<1> QED
  BY <1>1, <1>2 DEF HomeInv

\* The update of an image changes nothing else of the object.
LEMMA UpdateKeeps ==
  ASSUME TypeOK, NEW k \in Nums, UpdateImage(k)
  PROVE  \A j \in Nums : osd'[j] = osd[j] \/ /\ osd[j] \in OSD /\ osd'[j] \in OSD /\ osd[j] = osdList[j]
                                             /\ osd'[j].path = osd[j].path /\ osd'[j].node = osd[j].node
<1>1. vitastorNode \in VNode
  BY DEF UpdateImage, TypeOK
<1>2. CASE osd[k] # osdList[k]
  BY <1>2 DEF UpdateImage
<1>3. CASE osd[k] = osdList[k]
  <2>1. osd[k] \in OSD
    BY <1>3 DEF UpdateImage, Outdated, TypeOK
  <2>2. osd' = [osd EXCEPT ![k].image = vitastorNode.image]
    BY <1>3 DEF UpdateImage
  <2> QED
    BY <1>1, <1>3, <2>1, <2>2 DEF TypeOK, OSD, VNode
<1> QED
  BY <1>2, <1>3

LEMMA ReconcileHomes ==
  ASSUME TypeOK, HomeInv, Reconcile
  PROVE  HomeInv'
<1> USE DEF ReturnErr, ReturnAfter
<1>1. CASE PutHost \/ PutOsd
  BY <1>1 DEF PutHost, PutOsd, world, caches, HomeInv, Objects, AllRightful, Plugged, Answered
<1>2. CASE AskAgent
  <2>1. UNCHANGED <<where, osd, osdCache, osdList, cur>> /\ pc' = "report" /\ osds' = At(cur) /\ cur \in Nodes
    BY <1>2 DEF AskAgent, Answer, world, caches, TypeOK
  <2>2. cur # None
    BY <2>1 DEF Keys
  <2> QED
    BY <2>1, <2>2 DEF At, HomeInv, Objects, AllRightful, Plugged, Answered
<1>3. CASE NoAgent \/ Finish
  <2>1. Return /\ UNCHANGED <<where, osd, osdCache>>
    BY <1>3 DEF NoAgent, Finish, world, caches
  <2> QED
    BY <2>1, ReturnHomes DEF HomeInv, Objects, AllRightful
<1>4. CASE Report
  <2>1. UNCHANGED <<where, osd, osdCache>>
    BY <1>4 DEF Report, world, caches
  <2>2. CASE Return
    BY <2>1, <2>2, ReturnHomes DEF HomeInv, Objects, AllRightful
  <2>3. CASE ~Return
    <3>1. /\ pc = "report" /\ pc' \in {"visit", "sweep"} /\ UNCHANGED <<cur, osds>>
          /\ osdList' = ListOsds(cur) /\ todo' = osds
      BY <1>4, <2>3 DEF Report
    <3>2. \A k \in Nums : osdList'[k] # None => osdList'[k] = osdCache[k] /\ osdList'[k].node = cur
      BY <3>1 DEF ListOsds
    <3> QED
      BY <2>1, <3>1, <3>2 DEF HomeInv, Objects, AllRightful, Plugged, Answered
  <2> QED
    BY <2>2, <2>3
<1>5. ASSUME NEW p \in Paths, Visit(p) PROVE HomeInv'
  <2>1. UNCHANGED <<where, osdCache>> /\ pc = "visit" /\ p \in todo /\ cur \in Nodes
    BY <1>5 DEF Visit, world, caches, TypeOK
  <2>2. CASE Return /\ UNCHANGED osd
    BY <2>1, <2>2, ReturnHomes DEF HomeInv, Objects, AllRightful
  <2>3. CASE ~(Return /\ UNCHANGED osd)
    <3> DEFINE k == SbNum[p]
    <3>1. /\ UNCHANGED <<cur, osds, osdList>> /\ todo' = todo \ {p} /\ pc' = "putOsd"
          /\ UNCHANGED osd \/ osd' = [osd EXCEPT ![k] = Configuration(p)]
      BY <1>5, <2>3 DEF Visit
    <3>2. p \in osds /\ cur \in Slots[p] /\ k \in Nums
      BY <2>1 DEF HomeInv, Answered
    <3>3. vitastorNode \in VNode
      BY <2>1 DEF TypeOK
    <3>4. Rightful(k, Configuration(p))
      BY <2>1, <3>2, <3>3 DEF Configuration, OSD, VNode, Rightful
    <3>5. \A j \in Nums : osd'[j] = osd[j] \/ (j = k /\ osd'[j] = Configuration(p))
      BY <3>1, <3>2 DEF TypeOK
    <3>6. Objects'
      BY <2>1, <3>1, <3>4, <3>5 DEF HomeInv, Objects, AllRightful
    <3> QED
      BY <2>1, <3>1, <3>6 DEF HomeInv, Plugged, Answered
  <2> QED
    BY <2>2, <2>3
<1>6. ASSUME NEW k \in Nums, DeleteOsd(k) PROVE HomeInv'
  <2>1. UNCHANGED <<where, osdCache>> /\ pc = "sweep"
    BY <1>6 DEF DeleteOsd, world, caches
  <2>2. CASE osd[k] = None
    <3>1. Return /\ UNCHANGED osd
      BY <1>6, <2>2 DEF DeleteOsd
    <3> QED
      BY <2>1, <3>1, ReturnHomes DEF HomeInv, Objects, AllRightful
  <2>3. CASE osd[k] # None
    <3>1. /\ osd' = [osd EXCEPT ![k] = None] /\ osdList' = [osdList EXCEPT ![k] = None]
          /\ UNCHANGED <<pc, cur, osds, todo>>
      BY <1>6, <2>3 DEF DeleteOsd
    <3>2. \A j \in Nums : (osd'[j] = osd[j] \/ osd'[j] = None) /\ (osdList'[j] = osdList[j] \/ osdList'[j] = None)
      BY <3>1 DEF TypeOK
    <3> QED
      BY <2>1, <3>1, <3>2 DEF HomeInv, Objects, AllRightful, Plugged, Answered
  <2> QED
    BY <2>2, <2>3
<1>7. ASSUME NEW k \in Nums, UpdateImage(k) PROVE HomeInv'
  <2>1. UNCHANGED <<where, osdCache>> /\ Return
    BY <1>7 DEF UpdateImage, world, caches
  <2>2. AllRightful(osd)' /\ AllRightful(osdCache)'
    BY <1>7, <2>1, UpdateKeeps DEF HomeInv, Objects, AllRightful, Rightful
  <2> QED
    BY <2>1, <2>2, ReturnHomes
<1> QED
  BY <1>1, <1>2, <1>3, <1>4, <1>5, <1>6, <1>7 DEF Reconcile

LEMMA RuntimeHomes ==
  ASSUME TypeOK, HomeInv, Runtime
  PROVE  HomeInv'
<1>1. UNCHANGED <<where, pc, cur, osds, todo, osdList>>
  BY DEF Runtime, Resync, SyncNode, SyncOsd, Wake, CollectOsd, world, locals
<1>2. \A k \in Nums : osd'[k] # osd[k] => osd'[k] = None
  BY DEF Runtime, Resync, SyncNode, SyncOsd, Wake, CollectOsd, TypeOK
<1>3. AllRightful(osdCache)'
  <2>1. ASSUME NEW k \in Nums, SyncOsd(k) PROVE AllRightful(osdCache)'
    <3>1. osdCache' = [osdCache EXCEPT ![k] = osd[k]]
      BY <2>1 DEF SyncOsd
    <3> QED
      BY <3>1 DEF TypeOK, HomeInv, Objects, AllRightful
  <2>2. CASE UNCHANGED osdCache
    BY <2>2 DEF HomeInv, Objects, AllRightful
  <2>3. UNCHANGED osdCache \/ \E k \in Nums : SyncOsd(k)
    BY DEF Runtime, Resync, SyncNode, Wake, CollectOsd, caches
  <2> QED
    BY <2>1, <2>2, <2>3
<1>4. Plugged'
  BY <1>1 DEF HomeInv, Plugged
<1> QED
  BY <1>1, <1>2, <1>3, <1>4, RemovalHomes

LEMMA EnvironmentHomes ==
  ASSUME TypeOK, HomeInv, Environment
  PROVE  HomeInv'
<1>1. CASE Fail \/ Restart
  <2>1. Return /\ UNCHANGED <<where, osd>> /\ osdCache' \in {osdCache, osd}
    BY <1>1 DEF Fail, Restart, ReturnErr, world, caches
  <2> QED
    BY <2>1, ReturnHomes DEF HomeInv, Objects, AllRightful
<1>2. ASSUME NEW s \in SUBSET At(cur), Answer(s) PROVE HomeInv'
  <2>1. /\ UNCHANGED <<where, osd, osdCache, osdList, cur>> /\ pc' = "report" /\ osds' = s
        /\ cur \in Nodes
    BY <1>2 DEF Answer, world, caches, TypeOK
  <2>2. cur # None
    BY <2>1 DEF Keys
  <2>3. s \subseteq Paths
    BY DEF At
  <2> QED
    BY <2>1, <2>2, <2>3 DEF At, HomeInv, Objects, AllRightful, Plugged, Answered
<1>3. CASE UNCHANGED <<pc, cur, osds, todo, osdList, osdCache>> /\ UNCHANGED osd
           /\ \A p \in Paths : where'[p] # None => where'[p] = where[p] \/ where'[p] \in Slots[p]
  BY <1>3, RemovalHomes DEF HomeInv, Objects, AllRightful, Plugged
<1>4. ASSUME NEW p \in Paths, Detach(p) \/ \E n \in Nodes : Attach(p, n) PROVE HomeInv'
  <2>1. UNCHANGED <<pc, cur, osds, todo, osdList, osdCache, osd>>
    BY <1>4 DEF Detach, Attach, locals, caches
  <2>2. \A q \in Paths : where'[q] # None => where'[q] = where[q] \/ where'[q] \in Slots[q]
    BY <1>4 DEF Detach, Attach, TypeOK
  <2> QED
    BY <1>3, <2>1, <2>2
<1>5. ASSUME NEW n \in Nodes,
             \/ ToggleAgent(n) \/ ToggleKube(n) \/ DeleteNode(n)
             \/ \E l \in SUBSET Dcs : Relabel(n, l)
             \/ \E i \in Images : SetImage(n, i) \/ CreateNode(n, i)
      PROVE  HomeInv'
  <2>1. UNCHANGED <<where, pc, cur, osds, todo, osdList, osdCache, osd>>
    BY <1>5 DEF ToggleAgent, ToggleKube, DeleteNode, Relabel, SetImage, CreateNode, world, locals, caches
  <2> QED
    BY <1>3, <2>1
<1>6. ASSUME NEW k \in Nums, UserDeletesOsd(k) PROVE HomeInv'
  <2>1. osd' = [osd EXCEPT ![k] = None] /\ UNCHANGED <<where, pc, cur, osds, todo, osdList, osdCache>>
    BY <1>6 DEF UserDeletesOsd, world, locals, caches
  <2>2. \A j \in Nums : osd'[j] # osd[j] => osd'[j] = None
    BY <2>1 DEF TypeOK
  <2> QED
    BY <2>1, <2>2, RemovalHomes DEF HomeInv, Objects, AllRightful, Plugged
<1>7. AgentError \/ (\E p \in Paths : SuperblockUnread(p)) => \E s \in SUBSET At(cur) : Answer(s)
  BY DEF AgentError, SuperblockUnread
<1> QED
  BY <1>1, <1>2, <1>4, <1>5, <1>6, <1>7 DEF Environment

LEMMA StepHomes ==
  ASSUME TypeOK, HomeInv, [Next]_vars
  PROVE  HomeInv'
<1>1. CASE UNCHANGED vars
  BY <1>1 DEF vars, world, caches, locals, HomeInv, Objects, AllRightful, Plugged, Answered
<1>2. ASSUME NEW n \in Nodes, Begin(n) PROVE HomeInv'
  <2>1. UNCHANGED <<where, osd, osdCache>>
    BY <1>2 DEF Begin, world, caches
  <2>2. UNCHANGED <<pc, cur, osds, todo, osdList>> \/ (pc' = "putHost" /\ UNCHANGED osdList)
    BY <1>2 DEF Begin, locals
  <2> QED
    BY <2>1, <2>2 DEF HomeInv, Objects, AllRightful, Plugged, Answered
<1> QED
  BY <1>1, <1>2, ReconcileHomes, RuntimeHomes, EnvironmentHomes DEF Next

\* Every VitastorOSD, read late or early, is of a disk that has its number and fits
\* its host: the one Reconcile made it for.
LEMMA HomesKept == Spec => []HomeInv
<1>1. Init => HomeInv
  BY DEF Init, HomeInv, Objects, AllRightful, Plugged, Answered, NoList
<1>2. TypeOK /\ HomeInv /\ [Next]_vars => HomeInv'
  BY StepHomes
<1> QED
  BY <1>1, <1>2, TypeCorrect, PTL DEF Spec

-----------------------------------------------------------------------------
(* ServingIsKept *)

FixedDisks == OneHome /\ "http500" \notin Disturbances /\ "readsb" \notin Disturbances

InPlace == \A k \in serving : osd[k] # None /\ where[osd[k].path] = osd[k].node

\* The answer that the worker has names the disks of the serving OSDs.
Told ==
    pc \in {"report", "visit", "putOsd", "sweep"} =>
      \A k \in serving : osd[k].node = cur => osd[k].path \in osds

ServeInv == InPlace /\ Told

\* A vanished object that is named like a serving one would be the same disk on
\* the same host, and that disk was in the answer.
LEMMA VanishedNotServing ==
  ASSUME FixedDisks, TypeOK, HomeInv, ServeInv, pc = "sweep", NEW k \in Nums, Vanished(k)
  PROVE  k \notin serving
<1> SUFFICES ASSUME k \in serving PROVE FALSE
  OBVIOUS
<1>1. Rightful(k, osdList[k]) /\ Rightful(k, osd[k])
  BY DEF HomeInv, Objects, AllRightful, ServeInv, InPlace, Vanished
<1>2. osdList[k].path = osd[k].path /\ osdList[k].node = osd[k].node
  BY <1>1, SameHome DEF FixedDisks
<1>3. osdList[k].node = cur
  BY DEF HomeInv, Answered, Vanished
<1> QED
  BY <1>2, <1>3 DEF ServeInv, Told, Vanished

\* A step that leaves the worker and its answer alone, and takes away objects and
\* disks of OSDs that do not serve any longer.
LEMMA RemovalServes ==
  ASSUME TypeOK, ServeInv,
         UNCHANGED <<cur, osds>>, UNCHANGED pc \/ (pc = "visit" /\ pc' = "putOsd"),
         serving' \subseteq serving,
         \A k \in serving' : where'[osd[k].path] = where[osd[k].path],
         \A k \in serving' : osd'[k] = osd[k]
  PROVE  ServeInv'
BY DEF ServeInv, InPlace, Told

\* A return, at which no object of a serving OSD changes its disk or host.
LEMMA ReturnServes ==
  ASSUME TypeOK, ServeInv, Return, UNCHANGED <<where, serving>>,
         \A k \in serving : \/ osd'[k] = osd[k]
                            \/ /\ osd'[k] # None
                               /\ osd'[k].path = osd[k].path /\ osd'[k].node = osd[k].node
  PROVE  ServeInv'
BY DEF Return, ServeInv, InPlace, Told

LEMMA ReconcileServes ==
  ASSUME FixedDisks, TypeOK, HomeInv, ServeInv, Reconcile
  PROVE  ServeInv'
<1> USE DEF ReturnErr, ReturnAfter
<1>1. CASE PutHost \/ PutOsd
  BY <1>1 DEF PutHost, PutOsd, world, caches, ServeInv, InPlace, Told
<1>2. CASE AskAgent
  <2>1. UNCHANGED <<where, osd, serving, cur>> /\ pc' = "report" /\ osds' = At(cur)
    BY <1>2 DEF AskAgent, Answer, world, caches
  <2>2. \A k \in serving : osd[k].path \in Paths
    BY DEF TypeOK, ServeInv, InPlace, OSD
  <2> QED
    BY <2>1, <2>2 DEF At, ServeInv, InPlace, Told
<1>3. CASE NoAgent \/ Finish
  <2>1. Return /\ UNCHANGED <<where, osd, serving>>
    BY <1>3 DEF NoAgent, Finish, world
  <2> QED
    BY <2>1, ReturnServes
<1>4. CASE Report
  <2>1. UNCHANGED <<where, osd, serving>>
    BY <1>4 DEF Report, world
  <2>2. Return \/ (pc = "report" /\ UNCHANGED <<cur, osds>>)
    BY <1>4 DEF Report
  <2> QED
    BY <2>1, <2>2, ReturnServes DEF ServeInv, InPlace, Told
<1>5. ASSUME NEW p \in Paths, Visit(p) PROVE ServeInv'
  <2>1. UNCHANGED where /\ pc = "visit" /\ p \in todo /\ cur \in Nodes
    BY <1>5 DEF Visit, world, TypeOK
  <2>2. CASE Return /\ UNCHANGED <<osd, serving>>
    BY <2>1, <2>2, ReturnServes
  <2>3. CASE Contains(p)
    <3>1. UNCHANGED <<osd, serving, cur, osds>> /\ pc' = "putOsd"
      BY <1>5, <2>3 DEF Visit
    <3> QED
      BY <2>1, <3>1, RemovalServes
  <2>4. CASE ~Contains(p) /\ osd[SbNum[p]] = None
    <3> DEFINE k == SbNum[p]
    <3>1. /\ osd' = [osd EXCEPT ![k] = Configuration(p)]
          /\ serving' = IF where[p] = cur THEN serving \cup {k} ELSE serving
          /\ UNCHANGED <<cur, osds>> /\ pc' = "putOsd"
      BY <1>5, <2>4 DEF Visit
    <3>2. p \in osds /\ k \in Nums
      BY <2>1 DEF HomeInv, Answered
    <3>3. vitastorNode \in VNode
      BY <2>1 DEF TypeOK
    <3>4. Configuration(p) \in OSD /\ Configuration(p).path = p /\ Configuration(p).node = cur
      BY <2>1, <3>3 DEF Configuration, OSD, VNode
    <3>5. osd'[k] = Configuration(p) /\ \A j \in Nums \ {k} : osd'[j] = osd[j]
      BY <3>1, <3>2 DEF TypeOK
    <3>6. k \notin serving
      BY <2>4 DEF ServeInv, InPlace
    <3>7. \A j \in serving' : j \in Nums /\ ((j = k /\ where[p] = cur) \/ j \in serving \ {k})
      BY <3>1, <3>2, <3>6 DEF TypeOK
    <3>8. InPlace'
      BY <2>1, <3>4, <3>5, <3>7 DEF ServeInv, InPlace
    <3>9. Told'
      BY <2>1, <3>1, <3>2, <3>4, <3>5, <3>7 DEF ServeInv, Told
    <3> QED
      BY <3>8, <3>9 DEF ServeInv
  <2> QED
    BY <1>5, <2>2, <2>3, <2>4 DEF Visit
<1>6. ASSUME NEW k \in Nums, DeleteOsd(k) PROVE ServeInv'
  <2>1. UNCHANGED <<where, serving>> /\ pc = "sweep" /\ Vanished(k)
    BY <1>6 DEF DeleteOsd, world
  <2>2. CASE osd[k] = None
    <3>1. Return /\ UNCHANGED osd
      BY <1>6, <2>2 DEF DeleteOsd
    <3> QED
      BY <2>1, <3>1, ReturnServes
  <2>3. CASE osd[k] # None
    <3>1. k \notin serving
      BY <2>1, VanishedNotServing
    <3>2. osd' = [osd EXCEPT ![k] = None] /\ UNCHANGED <<pc, cur, osds>>
      BY <1>6, <2>3 DEF DeleteOsd
    <3>3. \A j \in serving : osd'[j] = osd[j]
      BY <3>1, <3>2 DEF TypeOK
    <3> QED
      BY <2>1, <3>2, <3>3, RemovalServes
  <2> QED
    BY <2>2, <2>3
<1>7. ASSUME NEW k \in Nums, UpdateImage(k) PROVE ServeInv'
  <2>1. UNCHANGED <<where, serving>> /\ Return
    BY <1>7 DEF UpdateImage, world
  <2>2. \A j \in serving : \/ osd'[j] = osd[j]
                           \/ osd'[j] # None /\ osd'[j].path = osd[j].path /\ osd'[j].node = osd[j].node
    BY <1>7, UpdateKeeps DEF TypeOK
  <2> QED
    BY <2>1, <2>2, ReturnServes
<1> QED
  BY <1>1, <1>2, <1>3, <1>4, <1>5, <1>6, <1>7 DEF Reconcile

LEMMA BeginServes ==
  ASSUME ServeInv, NEW n \in Nodes, Begin(n)
  PROVE  ServeInv'
<1>1. UNCHANGED <<where, osd, serving>>
  BY DEF Begin, world
<1>2. UNCHANGED <<pc, cur, osds>> \/ pc' = "putHost"
  BY DEF Begin, locals
<1> QED
  BY <1>1, <1>2 DEF ServeInv, InPlace, Told

LEMMA RuntimeServes ==
  ASSUME TypeOK, ServeInv, Runtime
  PROVE  ServeInv'
<1>1. UNCHANGED <<where, pc, cur, osds>>
  BY DEF Runtime, Resync, SyncNode, SyncOsd, Wake, CollectOsd, world, locals
<1>2. serving' \subseteq serving /\ \A k \in serving' : osd'[k] = osd[k]
  <2>1. ASSUME NEW k \in Nums, CollectOsd(k)
        PROVE  osd' = [osd EXCEPT ![k] = None] /\ serving' = serving \ {k}
    BY <2>1 DEF CollectOsd
  <2>2. ASSUME NEW k \in Nums, SyncOsd(k) PROVE UNCHANGED <<osd, serving>>
    BY <2>2 DEF SyncOsd
  <2>3. CASE Resync \/ \E n \in Nodes : SyncNode(n) \/ Wake(n)
    BY <2>3 DEF Resync, SyncNode, Wake
  <2> QED
    BY <2>1, <2>2, <2>3 DEF Runtime, TypeOK
<1> QED
  BY <1>1, <1>2, RemovalServes

LEMMA EnvironmentServes ==
  ASSUME FixedDisks, TypeOK, HomeInv, ServeInv, Environment
  PROVE  ServeInv'
<1>1. CASE Fail \/ Restart
  <2>1. Return /\ UNCHANGED <<where, osd, serving>>
    BY <1>1 DEF Fail, Restart, ReturnErr, world
  <2> QED
    BY <2>1, ReturnServes
<1>2. ASSUME NEW p \in Paths, Detach(p) PROVE ServeInv'
  <2>1. where' = [where EXCEPT ![p] = None] /\ serving' = serving \ {SbNum[p]} /\ UNCHANGED <<pc, cur, osds, osd>>
    BY <1>2 DEF Detach, locals
  <2>2. \A k \in serving' : osd[k].path # p
    BY <2>1 DEF HomeInv, Objects, AllRightful, Rightful, ServeInv, InPlace, TypeOK
  <2>3. \A k \in serving' : where'[osd[k].path] = where[osd[k].path]
    BY <2>1, <2>2 DEF TypeOK
  <2> QED
    BY <2>1, <2>3, RemovalServes
<1>3. ASSUME NEW p \in Paths, NEW n \in Nodes, Attach(p, n) PROVE ServeInv'
  <2>1. where[p] = None /\ where' = [where EXCEPT ![p] = n] /\ UNCHANGED <<pc, cur, osds, osd, serving>>
    BY <1>3 DEF Attach, locals
  <2>2. \A k \in serving : osd[k].path # p
    <3> SUFFICES ASSUME NEW k \in serving, osd[k].path = p PROVE FALSE
      OBVIOUS
    <3>1. osd[k] \in OSD /\ where[p] = osd[k].node
      BY DEF ServeInv, InPlace, TypeOK
    <3> QED
      BY <2>1, <3>1 DEF OSD, Keys
  <2>3. \A k \in serving' : where'[osd[k].path] = where[osd[k].path]
    BY <2>1, <2>2 DEF TypeOK
  <2> QED
    BY <2>1, <2>3, RemovalServes
<1>4. ASSUME NEW k \in Nums, UserDeletesOsd(k) PROVE ServeInv'
  <2>1. /\ osd' = [osd EXCEPT ![k] = None] /\ serving' = serving \ {k}
        /\ UNCHANGED <<where, pc, cur, osds>>
    BY <1>4 DEF UserDeletesOsd, world, locals
  <2>2. \A j \in serving' : osd'[j] = osd[j]
    BY <2>1 DEF TypeOK
  <2> QED
    BY <2>1, <2>2, RemovalServes
<1>5. ASSUME NEW n \in Nodes,
             \/ ToggleAgent(n) \/ ToggleKube(n) \/ DeleteNode(n)
             \/ \E l \in SUBSET Dcs : Relabel(n, l)
             \/ \E i \in Images : SetImage(n, i) \/ CreateNode(n, i)
      PROVE  ServeInv'
  <2>1. UNCHANGED <<where, pc, cur, osds, osd, serving>>
    BY <1>5 DEF ToggleAgent, ToggleKube, DeleteNode, Relabel, SetImage, CreateNode, world, locals
  <2> QED
    BY <2>1, RemovalServes
<1>6. ~AgentError /\ \A p \in Paths : ~SuperblockUnread(p)
  BY DEF FixedDisks, AgentError, SuperblockUnread, Disturb
<1> QED
  BY <1>1, <1>2, <1>3, <1>4, <1>5, <1>6 DEF Environment

LEMMA StepServes ==
  ASSUME FixedDisks, TypeOK, HomeInv, ServeInv, [Next]_vars
  PROVE  ServeInv'
<1>1. CASE UNCHANGED vars
  BY <1>1 DEF vars, world, locals, ServeInv, InPlace, Told
<1>2. CASE Next
  BY <1>2, BeginServes, ReconcileServes, RuntimeServes, EnvironmentServes DEF Next
<1> QED
  BY <1>1, <1>2

LEMMA ServeKept == ASSUME FixedDisks PROVE Spec => []ServeInv
<1>1. Init => ServeInv
  BY DEF Init, ServeInv, InPlace, Told
<1>2. TypeOK /\ HomeInv /\ ServeInv /\ [Next]_vars => ServeInv'
  BY StepServes
<1> QED
  BY <1>1, <1>2, HomesKept, TypeCorrect, PTL DEF Spec

\* A VitastorOSD whose disk has stayed in its host is never deleted by the
\* operator, whatever its caches lag and whatever calls fail, as long as disks
\* keep to one host, numbers to one disk, and the agent to the truth.
THEOREM ServingIsKept ==
  ASSUME FixedDisks
  PROVE  Spec => []KeepsServing
<1>1. ServeInv => KeepsServing
  BY DEF ServeInv, InPlace, KeepsServing
<1> QED
  BY <1>1, ServeKept, PTL

-----------------------------------------------------------------------------
(* NoneIsForgotten *)

Steady ==
    /\ OneHome
    /\ "osddelete" \notin Disturbances /\ "agent" \notin Disturbances /\ "kube" \notin Disturbances

Present == agent = Nodes /\ kube = Nodes

\* No VitastorNode to come has the uid of one that is there or cached.
Fresh == \A n \in Nodes :
    /\ vnode[n] # None => vnode[n].uid < nextUid
    /\ vnodeCache[n] # None => vnodeCache[n].uid < nextUid

Busy(n) == pc # "idle" /\ cur = n

\* Watch events that are bound to bring n back: its VitastorNode was replaced or
\* has a new status; the VitastorOSD of p was made for n and is not cached.
StatusNew(n) ==
    vnode[n] = None \/ vnode[n].uid # vnodeCache[n].uid \/ vnode[n].disks # vnodeCache[n].disks

Unseen(n, p) ==
    LET k == SbNum[p]
    IN  osd[k] # None /\ osd[k] # osdCache[k] /\ osd[k].node = n /\ osd[k].owner = vnodeCache[n].uid

\* The VitastorOSDs that a reconcile of n would list.
Known(n, k) == osdCache[k] # None /\ osdCache[k].node = n

Provided(n, p) == Unseen(n, p) \/ (Known(n, SbNum[p]) /\ osdCache[SbNum[p]].path = p)

\* By the caches, a reconcile of n would find nothing to do, but for what events
\* under way are about to show.
AllDone(n) ==
    /\ vnodeCache[n].disks # None
    /\ \A p \in vnodeCache[n].disks :
         /\ Provided(n, p)
         /\ Unseen(n, p) \/ osdCache[SbNum[p]].image = vnodeCache[n].image
    /\ \A k \in Nums : Known(n, k) => osdCache[k].path \in vnodeCache[n].disks \/ osd[k] = None

\* The copies that the worker has of n are what the caches still hold.
Copied(n) ==
    /\ vnodeCache[n] # None
    /\ vitastorNode.uid = vnodeCache[n].uid /\ vitastorNode.image = vnodeCache[n].image
    /\ pc \in {"putHost", "agent", "report"} => vitastorNode = vnodeCache[n]

Current(n, k) ==
    \/ osdList[k] = IF Known(n, k) THEN osdCache[k] ELSE None
    \/ Known(n, k) /\ osdList[k] = None /\ osdCache[k].path \notin osds /\ osd[k] = None

Worked(n) ==
    pc \in {"visit", "putOsd", "sweep"} =>
      /\ osds = vnodeCache[n].disks \/ StatusNew(n)
      /\ \A k \in Nums : Current(n, k)
      /\ \A p \in osds \ todo : Provided(n, p) \/ StatusNew(n)
      /\ pc = "sweep" => todo = {}

InHand(n) == Copied(n) /\ Worked(n)

\* n is due, or in the worker's hands with copies that are not stale, or left with
\* nothing to do or an event or a timer to come.
Attended(n) ==
    \/ n \in queue
    \/ Busy(n) /\ InHand(n)
    \/ ~Busy(n) /\ (delayed[n] = "rollout" \/ vnodeCache[n] = None \/ StatusNew(n) \/ AllDone(n))

ForgetInv == Present /\ Fresh /\ \A n \in Nodes : Attended(n)

\* A step that leaves n's side of the caches, and takes no event away from n.
ViewKept(n) ==
    /\ vnodeCache'[n] = vnodeCache[n]
    /\ vnodeCache[n] # None =>
         /\ StatusNew(n) => StatusNew(n)'
         /\ \A p \in Paths : Unseen(n, p) => Unseen(n, p)' \/ StatusNew(n)'
         /\ \A k \in Nums :
              /\ Known(n, k)' <=> Known(n, k)
              /\ Known(n, k) => osdCache'[k] = osdCache[k]
              /\ Known(n, k) /\ osd[k] = None => osd'[k] = None

LEMMA DoneStays ==
  ASSUME TypeOK, NEW n \in Nodes, ViewKept(n), vnodeCache[n] # None, AllDone(n)
  PROVE  AllDone(n)' \/ StatusNew(n)'
<1> SUFFICES ASSUME ~StatusNew(n)' PROVE AllDone(n)'
  OBVIOUS
<1>1. \A p \in vnodeCache[n].disks : p \in Paths /\ SbNum[p] \in Nums
  BY DEF TypeOK, VNode, AllDone
<1>2. \A p \in vnodeCache[n].disks : Provided(n, p)' /\ (Unseen(n, p)' \/ osdCache'[SbNum[p]].image = vnodeCache[n].image)
  BY <1>1 DEF ViewKept, AllDone, Provided
<1>3. \A k \in Nums : Known(n, k)' => osdCache'[k].path \in vnodeCache[n].disks \/ osd'[k] = None
  BY DEF ViewKept, AllDone
<1> QED
  BY <1>2, <1>3 DEF ViewKept, AllDone

\* A step of n's reconcile from its list on that leaves the list alone.
LEMMA WorkStays ==
  ASSUME TypeOK, NEW n \in Nodes, ViewKept(n), InHand(n), UNCHANGED <<vitastorNode, osds, osdList>>,
         UNCHANGED pc \/ {pc, pc'} \subseteq {"putHost", "agent", "report"}
                      \/ {pc, pc'} \subseteq {"visit", "putOsd", "sweep"},
         \A p \in osds \ todo' : p \in osds \ todo \/ Provided(n, p)',
         pc' = "sweep" => todo' = {}
  PROVE  InHand(n)'
<1>1. Copied(n)'
  BY DEF InHand, Copied, ViewKept
<1>2. Worked(n)'
  <2> SUFFICES ASSUME pc' \in {"visit", "putOsd", "sweep"}
               PROVE  /\ osds = vnodeCache[n].disks \/ StatusNew(n)'
                      /\ \A k \in Nums : Current(n, k)'
                      /\ \A p \in osds \ todo' : Provided(n, p)' \/ StatusNew(n)'
    BY DEF Worked, ViewKept
  <2>1. pc \in {"visit", "putOsd", "sweep"} /\ vnodeCache[n] # None
    BY DEF InHand, Copied
  <2>2. osds \subseteq Paths /\ \A p \in Paths : SbNum[p] \in Nums
    BY DEF TypeOK
  <2>3. \A k \in Nums : Current(n, k)'
    BY <2>1 DEF InHand, Worked, Current, ViewKept
  <2>4. \A p \in osds : Provided(n, p) => Provided(n, p)' \/ StatusNew(n)'
    BY <2>1, <2>2 DEF Provided, ViewKept
  <2> QED
    BY <2>1, <2>3, <2>4 DEF InHand, Worked, ViewKept
<1> QED
  BY <1>1, <1>2 DEF InHand

\* n is not in the worker's hands, before or after the step.
LEMMA AsideAttended ==
  ASSUME TypeOK, NEW n \in Nodes, Attended(n), ViewKept(n), ~Busy(n), ~Busy(n)',
         n \in queue => n \in queue', delayed[n] = "rollout" => delayed'[n] = "rollout" \/ n \in queue'
  PROVE  Attended(n)'
<1>1. CASE vnodeCache[n] = None
  BY <1>1 DEF Attended, ViewKept
<1>2. CASE vnodeCache[n] # None /\ AllDone(n)
  BY <1>2, DoneStays DEF Attended
<1>3. CASE vnodeCache[n] # None /\ ~AllDone(n)
  BY <1>3 DEF Attended, ViewKept
<1> QED
  BY <1>1, <1>2, <1>3

\* A step that the worker has no part in.
LEMMA OutsideAttended ==
  ASSUME TypeOK, NEW n \in Nodes, Attended(n), ViewKept(n), UNCHANGED <<pc, locals>>,
         n \in queue => n \in queue', delayed[n] = "rollout" => delayed'[n] = "rollout" \/ n \in queue'
  PROVE  Attended(n)'
<1>1. Busy(n)' <=> Busy(n)
  BY DEF Busy, locals
<1>2. CASE ~Busy(n)
  BY <1>1, <1>2, AsideAttended
<1>3. CASE n \in queue
  BY <1>3 DEF Attended
<1>4. CASE Busy(n) /\ InHand(n)
  <2>1. UNCHANGED <<vitastorNode, osds, osdList, todo>>
    BY DEF locals
  <2>2. pc = "sweep" => todo = {}
    BY <1>4 DEF InHand, Worked
  <2>3. InHand(n)'
    BY <1>4, <2>1, <2>2, WorkStays
  <2> QED
    BY <1>1, <1>4, <2>3 DEF Attended
<1> QED
  BY <1>2, <1>3, <1>4 DEF Attended

LEMMA QuietView ==
  ASSUME NEW n \in Nodes, UNCHANGED <<osd, caches>>, UNCHANGED vnode \/ vnode'[n] = vnode[n]
  PROVE  ViewKept(n)
BY DEF ViewKept, caches, StatusNew, Unseen, Known

-----------------------------------------------------------------------------
(* The worker's steps leave the cur host attended, and the others too *)

LEMMA OthersAttended ==
  ASSUME TypeOK, NEW n \in Nodes, n # cur, Attended(n), ViewKept(n), Reconcile
  PROVE  Attended(n)'
<1>1. ~Busy(n)
  BY DEF Busy
<1>2. UNCHANGED cur \/ pc' = "idle"
  BY ReconcileReturns DEF ReturnErr, ReturnAfter, Return
<1>3. ~Busy(n)'
  BY <1>2 DEF Busy
<1>4. queue \subseteq queue' /\ delayed'[n] = delayed[n]
  BY ReconcileReturns, ReturnAttends DEF work
<1> QED
  BY <1>1, <1>3, <1>4, AsideAttended

\* The host is due again, or asked for in 3 minutes.
LEMMA ReturnedAttended ==
  ASSUME TypeOK, NEW n \in Nodes, n = cur, pc # "idle", ReturnErr \/ ReturnAfter("rollout")
  PROVE  Attended(n)'
BY DEF ReturnErr, ReturnAfter, Return, Attended, Busy, TypeOK

LEMMA AnswerAttends ==
  ASSUME TypeOK, NEW n \in Nodes, n = cur, Attended(n), PutHost \/ \E s \in SUBSET Paths : Answer(s)
  PROVE  Attended(n)'
<1>1. /\ UNCHANGED <<vnode, osd, caches, work, cur, vitastorNode, osdList>>
      /\ pc \in {"putHost", "agent"} /\ pc' \in {"agent", "report"}
  BY DEF PutHost, Answer
<1>2. CASE n \in queue
  BY <1>1, <1>2 DEF Attended, work
<1>3. CASE n \notin queue
  <2>1. InHand(n)
    BY <1>1, <1>3 DEF Attended, Busy
  <2>2. Copied(n)'
    BY <1>1, <2>1 DEF InHand, Copied, caches
  <2>3. Worked(n)'
    BY <1>1 DEF Worked
  <2> QED
    BY <1>1, <2>2, <2>3 DEF Attended, Busy, InHand
<1> QED
  BY <1>2, <1>3

LEMMA ReportAttends ==
  ASSUME TypeOK, NEW n \in Nodes, n = cur, Attended(n), Report
  PROVE  Attended(n)'
<1>1. pc = "report" /\ UNCHANGED <<osd, caches>>
  BY DEF Report
<1>2. CASE ReturnErr
  BY <1>1, <1>2, ReturnedAttended
<1>3. CASE ~ReturnErr
  <2>1. /\ osds = vitastorNode.disks \/ vnode[n] = vitastorNode
        /\ vnode' = IF osds = vitastorNode.disks THEN vnode ELSE [vnode EXCEPT ![n] = [@ EXCEPT !.disks = osds]]
        /\ vitastorNode' = [vitastorNode EXCEPT !.disks = osds]
        /\ osdList' = ListOsds(n) /\ todo' = osds
        /\ pc' = IF osds = {} THEN "sweep" ELSE "visit"
        /\ UNCHANGED <<work, cur, osds>>
    BY <1>3 DEF Report
  <2>2. CASE n \in queue
    BY <2>1, <2>2 DEF Attended, work
  <2>3. CASE n \notin queue
    <3>1. InHand(n) /\ vitastorNode = vnodeCache[n] /\ vnodeCache[n] \in VNode
      BY <1>1, <2>3 DEF Attended, Busy, InHand, Copied, TypeOK
    <3>2. vitastorNode'.uid = vnodeCache[n].uid /\ vitastorNode'.image = vnodeCache[n].image
      BY <2>1, <3>1 DEF VNode
    <3>3. Copied(n)'
      BY <1>1, <2>1, <3>1, <3>2 DEF InHand, Copied, caches
    <3>4. osds = vnodeCache[n].disks \/ StatusNew(n)'
      <4>1. CASE osds = vitastorNode.disks
        BY <3>1, <4>1
      <4>2. CASE osds # vitastorNode.disks
        <5>1. vnode'[n] = [vitastorNode EXCEPT !.disks = osds]
          BY <2>1, <4>2 DEF TypeOK
        <5>2. vnode'[n].disks = osds
          BY <3>1, <5>1 DEF VNode
        <5> QED
          BY <1>1, <3>1, <4>2, <5>2 DEF StatusNew, caches
      <4> QED
        BY <4>1, <4>2
    <3>5. \A k \in Nums : Current(n, k)'
      BY <1>1, <2>1 DEF Current, ListOsds, Known, caches
    <3>6. Worked(n)'
      BY <1>1, <2>1, <3>4, <3>5 DEF Worked, caches
    <3> QED
      BY <2>1, <3>3, <3>6 DEF Attended, Busy, InHand
  <2> QED
    BY <2>2, <2>3
<1> QED
  BY <1>2, <1>3

\* The object that a listed disk has is the one of its number.
LEMMA ListedByNumber ==
  ASSUME TypeOK, HomeInv, NEW p \in Paths, Contains(p)
  PROVE  osdList[SbNum[p]] # None /\ osdList[SbNum[p]].path = p
<1>1. PICK k \in Nums : osdList[k] # None /\ osdList[k].path = p
  BY DEF Contains
<1>2. SbNum[p] = k
  BY <1>1 DEF HomeInv, Objects, AllRightful, Rightful
<1> QED
  BY <1>1, <1>2

\* A disk that the list has no object of has none in the cache either.
LEMMA NotListedNotKnown ==
  ASSUME OneHome, TypeOK, HomeInv, NEW n \in Nodes, InHand(n), pc = "visit",
         NEW p \in todo, ~Contains(p)
  PROVE  ~Known(n, SbNum[p])
<1> DEFINE k == SbNum[p]
<1>1. p \in Paths /\ p \in osds /\ k \in Nums
  BY DEF TypeOK, HomeInv, Answered
<1> SUFFICES ASSUME Known(n, k) PROVE FALSE
  OBVIOUS
<1>2. Rightful(k, osdCache[k])
  BY <1>1 DEF Known, HomeInv, Objects, AllRightful
<1>3. osdCache[k].path = p
  BY <1>1, <1>2 DEF Rightful, OneHome, OSD
<1>4. osdList[k] = osdCache[k]
  BY <1>1, <1>3 DEF InHand, Worked, Current
<1> QED
  BY <1>1, <1>3, <1>4 DEF Contains, Known

LEMMA VisitAttends ==
  ASSUME OneHome, TypeOK, HomeInv, HomeInv', NEW p \in Paths, Visit(p), NEW n \in Nodes, Attended(n)
  PROVE  Attended(n)'
<1> DEFINE k == SbNum[p]
<1>1. pc = "visit" /\ p \in todo /\ UNCHANGED <<vnode, caches>> /\ k \in Nums
  BY DEF Visit
<1>2. Reconcile
  BY DEF Reconcile
<1>3. CASE UNCHANGED osd
  <2>1. ViewKept(n)
    BY <1>1, <1>3, QuietView
  <2>2. CASE n # cur
    BY <1>2, <2>1, <2>2, OthersAttended
  <2>3. CASE n = cur /\ ReturnErr
    BY <1>1, <2>3, ReturnedAttended
  <2>4. CASE n = cur /\ ~ReturnErr /\ n \in queue
    BY <1>1, <2>4 DEF Attended, Visit, work
  <2>5. CASE n = cur /\ ~ReturnErr /\ n \notin queue
    <3>1. InHand(n)
      BY <1>1, <2>5 DEF Attended, Busy
    <3>2. UNCHANGED <<work, cur, vitastorNode, osds, osdList>> /\ todo' = todo \ {p} /\ pc' = "putOsd"
      BY <2>5 DEF Visit
    <3>3. Contains(p)
      <4> SUFFICES ASSUME ~Contains(p) PROVE FALSE
        OBVIOUS
      <4>1. osd[k] = None /\ osd' = [osd EXCEPT ![k] = Configuration(p)]
        BY <2>5 DEF Visit
      <4>2. osd'[k] = Configuration(p) /\ Configuration(p) \in OSD
        BY <1>1, <4>1 DEF Configuration, TypeOK, OSD, VNode
      <4> QED
        BY <1>3, <4>1, <4>2
    <3>4. osdList[k] # None /\ osdList[k].path = p
      BY <3>3, ListedByNumber
    <3>5. Provided(n, p)'
      BY <1>1, <1>3, <3>1, <3>4 DEF InHand, Worked, Current, Provided, Known, caches
    <3>6. InHand(n)'
      BY <1>1, <2>1, <3>1, <3>2, <3>5, WorkStays
    <3> QED
      BY <2>5, <3>2, <3>6 DEF Attended, Busy
  <2> QED
    BY <2>2, <2>3, <2>4, <2>5
<1>4. CASE ~UNCHANGED osd
  <2>1. /\ ~Contains(p) /\ osd[k] = None /\ osd' = [osd EXCEPT ![k] = Configuration(p)]
        /\ UNCHANGED <<work, cur, vitastorNode, osds, osdList>> /\ todo' = todo \ {p} /\ pc' = "putOsd"
    BY <1>4 DEF Visit
  <2>2. osd'[k] = Configuration(p) /\ \A j \in Nums \ {k} : osd'[j] = osd[j]
    BY <1>1, <2>1 DEF TypeOK
  <2>3. vitastorNode \in VNode /\ cur \in Nodes
    BY <1>1 DEF TypeOK
  <2>4. /\ Configuration(p) \in OSD /\ Configuration(p) # None
        /\ Configuration(p).node = cur /\ Configuration(p).owner = vitastorNode.uid
    BY <2>3 DEF Configuration, OSD, VNode
  <2>5. CASE n \in queue
    BY <2>1, <2>5 DEF Attended, work
  <2>6. CASE n \notin queue
    <3>1. n = cur => InHand(n)
      BY <1>1, <2>6 DEF Attended, Busy
    <3>2. ~Known(n, k)
      <4>1. CASE n = cur
        BY <1>1, <2>1, <3>1, <4>1, NotListedNotKnown
      <4>2. CASE n # cur /\ osdCache[k] # None
        <5>1. Rightful(k, osdCache[k]) /\ Rightful(k, osd'[k])
          BY <1>1, <2>2, <2>4, <4>2 DEF HomeInv, Objects, AllRightful
        <5>2. osdCache[k].node = cur
          BY <1>1, <2>2, <2>4, <5>1, SameHome
        <5> QED
          BY <4>2, <5>2 DEF Known
      <4> QED
        BY <4>1, <4>2 DEF Known
    <3>3. ViewKept(n)
      BY <1>1, <2>1, <2>2, <3>2 DEF ViewKept, StatusNew, Unseen, Known, caches
    <3>4. CASE n # cur
      BY <1>2, <3>3, <3>4, OthersAttended
    <3>5. CASE n = cur
      <4>1. osdCache[k] # Configuration(p)
        BY <2>4, <3>2, <3>5 DEF Known
      <4>2. Unseen(n, p)'
        BY <1>1, <2>1, <2>2, <2>4, <3>1, <3>5, <4>1 DEF Unseen, InHand, Copied, caches
      <4>3. InHand(n)'
        BY <1>1, <2>1, <3>1, <3>3, <3>5, <4>2, WorkStays DEF Provided
      <4> QED
        BY <2>1, <3>5, <4>3 DEF Attended, Busy
    <3> QED
      BY <3>4, <3>5
  <2> QED
    BY <2>5, <2>6
<1> QED
  BY <1>3, <1>4

\* Two objects of one name are of one host.
LEMMA SameHost ==
  ASSUME OneHome, HomeInv, NEW k \in Nums, osdList[k] # None, osd[k] # None
  PROVE  osd[k].path = osdList[k].path /\ osd[k].node = osdList[k].node
<1>1. Rightful(k, osdList[k]) /\ Rightful(k, osd[k])
  BY DEF HomeInv, Objects, AllRightful
<1> QED
  BY <1>1, SameHome

LEMMA DeleteAttends ==
  ASSUME OneHome, TypeOK, HomeInv, NEW k \in Nums, DeleteOsd(k), NEW n \in Nodes, Attended(n)
  PROVE  Attended(n)'
<1>1. pc = "sweep" /\ Vanished(k) /\ UNCHANGED <<vnode, caches>>
  BY DEF DeleteOsd
<1>2. osdList[k] # None /\ osdList[k].path \notin osds /\ osdList[k].node = cur
  BY <1>1 DEF Vanished, HomeInv, Answered
<1>3. CASE osd[k] = None
  <2>1. ReturnErr /\ UNCHANGED osd
    BY <1>3 DEF DeleteOsd
  <2>2. CASE n = cur
    BY <1>1, <2>1, <2>2, ReturnedAttended
  <2>3. CASE n # cur
    BY <1>1, <2>1, <2>3, QuietView, OthersAttended DEF Reconcile
  <2> QED
    BY <2>2, <2>3
<1>4. CASE osd[k] # None
  <2>1. /\ osd' = [osd EXCEPT ![k] = None] /\ osdList' = [osdList EXCEPT ![k] = None]
        /\ UNCHANGED <<work, pc, cur, vitastorNode, osds, todo>>
    BY <1>4 DEF DeleteOsd
  <2>2. /\ osd'[k] = None /\ osdList'[k] = None
        /\ \A j \in Nums \ {k} : osd'[j] = osd[j] /\ osdList'[j] = osdList[j]
    BY <2>1 DEF TypeOK
  <2>3. osd[k].path = osdList[k].path /\ osd[k].node = cur
    BY <1>2, <1>4, SameHost
  <2>4. CASE n # cur
    <3>1. ViewKept(n)
      BY <1>1, <2>2, <2>3, <2>4 DEF ViewKept, StatusNew, Unseen, Known, caches
    <3> QED
      BY <2>4, <3>1, OthersAttended DEF Reconcile
  <2>5. CASE n = cur /\ n \in queue
    BY <2>1, <2>5 DEF Attended, work
  <2>6. CASE n = cur /\ n \notin queue
    <3>1. InHand(n)
      BY <1>1, <2>6 DEF Attended, Busy
    <3>2. Copied(n)'
      BY <1>1, <2>1, <3>1 DEF InHand, Copied, caches
    <3>3. \A j \in Nums : Current(n, j)'
      <4>1. Current(n, k)'
        BY <1>1, <1>2, <2>1, <2>2, <3>1 DEF InHand, Worked, Current, Known, caches
      <4>2. ASSUME NEW j \in Nums \ {k} PROVE Current(n, j)'
        BY <1>1, <2>1, <2>2, <3>1 DEF InHand, Worked, Current, Known, caches
      <4> QED
        BY <4>1, <4>2
    <3>4. \A p \in osds : p \in Paths /\ SbNum[p] \in Nums \ {k}
      <4>1. Rightful(k, osdList[k])
        BY <1>2 DEF HomeInv, Objects, AllRightful
      <4> QED
        BY <1>2, <4>1 DEF Rightful, OneHome, OSD, TypeOK
    <3>5. \A p \in osds \ todo : Provided(n, p)' \/ StatusNew(n)'
      BY <1>1, <2>2, <3>1, <3>4 DEF InHand, Worked, Provided, Unseen, Known, StatusNew, caches
    <3>6. osds = vnodeCache[n].disks \/ StatusNew(n)'
      BY <1>1, <3>1 DEF InHand, Worked, StatusNew, caches
    <3>7. todo = {}
      BY <1>1, <3>1 DEF InHand, Worked
    <3>8. Worked(n)'
      BY <1>1, <2>1, <3>3, <3>5, <3>6, <3>7 DEF Worked, caches
    <3> QED
      BY <1>1, <2>1, <2>6, <3>2, <3>8 DEF Attended, Busy, InHand
  <2> QED
    BY <2>4, <2>5, <2>6
<1> QED
  BY <1>3, <1>4

LEMMA UpdateAttends ==
  ASSUME TypeOK, HomeInv, NEW k \in Nums, UpdateImage(k), NEW n \in Nodes, Attended(n)
  PROVE  Attended(n)'
<1>1. pc = "sweep" /\ Outdated(k) /\ UNCHANGED <<vnode, caches>> /\ (ReturnErr \/ ReturnAfter("rollout"))
  BY DEF UpdateImage
<1>2. CASE n = cur
  BY <1>1, <1>2, ReturnedAttended
<1>3. CASE n # cur
  <2>1. \A j \in Nums : osd'[j] = osd[j] \/ (osd[j] # None /\ osd[j].node = cur)
    <3>1. osdList[k] # None /\ osdList[k].node = cur
      BY <1>1 DEF Outdated, HomeInv, Answered
    <3>2. CASE osd[k] = osdList[k]
      <4>1. osd' = [osd EXCEPT ![k].image = vitastorNode.image]
        BY <3>2 DEF UpdateImage
      <4>2. \A j \in Nums \ {k} : osd'[j] = osd[j]
        BY <4>1 DEF TypeOK
      <4> QED
        BY <3>1, <3>2, <4>2
    <3>3. CASE osd[k] # osdList[k]
      BY <3>3 DEF UpdateImage
    <3> QED
      BY <3>2, <3>3
  <2>2. ViewKept(n)
    BY <1>1, <1>3, <2>1 DEF ViewKept, StatusNew, Unseen, Known, caches
  <2> QED
    BY <1>3, <2>2, OthersAttended DEF Reconcile
<1> QED
  BY <1>2, <1>3

\* The last loop found nothing to do: all is done, as far as the caches show.
LEMMA FinishAttends ==
  ASSUME TypeOK, HomeInv, Finish, NEW n \in Nodes, n = cur, Attended(n)
  PROVE  Attended(n)'
<1>1. pc = "sweep" /\ UNCHANGED <<vnode, osd, caches, queue>> /\ ~Busy(n)'
  BY DEF Finish, ReturnAfter, Return, Busy
<1>2. CASE n \in queue
  BY <1>1, <1>2 DEF Attended
<1>3. CASE n \notin queue
  <2>1. InHand(n)
    BY <1>1, <1>3 DEF Attended, Busy
  <2>2. CASE StatusNew(n)
    BY <1>1, <2>2 DEF Attended, StatusNew, caches
  <2>3. CASE ~StatusNew(n)
    <3>1. osds = vnodeCache[n].disks /\ todo = {} /\ osds \in SUBSET Paths
      BY <1>1, <2>1, <2>3 DEF InHand, Worked, TypeOK
    <3>2. \A p \in osds : Provided(n, p)
      BY <1>1, <2>1, <2>3, <3>1 DEF InHand, Worked
    <3>3. \A k \in Nums : Known(n, k) => osdList[k] = osdCache[k] \/ (osdCache[k].path \notin osds /\ osd[k] = None)
      BY <1>1, <2>1 DEF InHand, Worked, Current
    <3>4. ASSUME NEW p \in osds, ~Unseen(n, p)
          PROVE  osdCache[SbNum[p]].image = vnodeCache[n].image
      <4>1. SbNum[p] \in Nums /\ Known(n, SbNum[p]) /\ osdCache[SbNum[p]].path = p
        BY <3>1, <3>2, <3>4 DEF Provided
      <4>2. osdList[SbNum[p]] = osdCache[SbNum[p]]
        BY <3>3, <4>1
      <4> QED
        BY <2>1, <4>1, <4>2 DEF Finish, Outdated, Known, InHand, Copied
    <3>5. \A k \in Nums : Known(n, k) => osdCache[k].path \in osds \/ osd[k] = None
      BY <3>3 DEF Finish, Vanished, Known
    <3>6. osds # None
      BY <3>1
    <3>7. AllDone(n)
      BY <3>1, <3>2, <3>4, <3>5, <3>6 DEF AllDone
    <3>8. AllDone(n)'
      BY <1>1, <3>7 DEF AllDone, Provided, Unseen, Known, caches
    <3> QED
      BY <1>1, <3>8 DEF Attended
  <2> QED
    BY <2>2, <2>3
<1> QED
  BY <1>2, <1>3

LEMMA PutOsdAttends ==
  ASSUME TypeOK, PutOsd, NEW n \in Nodes, n = cur, Attended(n)
  PROVE  Attended(n)'
<1>1. /\ pc = "putOsd" /\ UNCHANGED <<vnode, osd, caches, work, cur, vitastorNode, osds, osdList, todo>>
      /\ pc' = IF todo = {} THEN "sweep" ELSE "visit"
  BY DEF PutOsd
<1>2. CASE n \in queue
  BY <1>1, <1>2 DEF Attended, work
<1>3. CASE n \notin queue
  <2>1. InHand(n)
    BY <1>1, <1>3 DEF Attended, Busy
  <2>2. ViewKept(n)
    BY <1>1, QuietView
  <2>3. InHand(n)'
    BY <1>1, <2>1, <2>2, WorkStays
  <2> QED
    BY <1>1, <2>3 DEF Attended, Busy
<1> QED
  BY <1>2, <1>3

LEMMA ReconcileAttends ==
  ASSUME OneHome, Present, TypeOK, HomeInv, HomeInv', Reconcile, NEW n \in Nodes, Attended(n)
  PROVE  Attended(n)'
<1>1. ASSUME PutHost \/ AskAgent \/ Report \/ PutOsd \/ Finish
      PROVE  Attended(n)'
  <2>1. UNCHANGED <<osd, caches>> /\ (n # cur => vnode'[n] = vnode[n])
    BY <1>1 DEF PutHost, AskAgent, Answer, Report, PutOsd, Finish, TypeOK
  <2>2. CASE n # cur
    <3>1. ViewKept(n)
      BY <2>1, <2>2, QuietView
    <3> QED
      BY <2>2, <3>1, OthersAttended
  <2>3. CASE n = cur
    <3>1. AskAgent => \E s \in SUBSET Paths : Answer(s)
      BY DEF AskAgent, At
    <3> QED
      BY <1>1, <2>3, <3>1, AnswerAttends, ReportAttends, PutOsdAttends, FinishAttends
  <2> QED
    BY <2>2, <2>3
<1>2. ~NoAgent
  BY DEF NoAgent, Present, TypeOK
<1> QED
  BY <1>1, <1>2, VisitAttends, DeleteAttends, UpdateAttends DEF Reconcile

LEMMA BeginAttends ==
  ASSUME TypeOK, Present, NEW m \in Nodes, Begin(m), NEW n \in Nodes, Attended(n)
  PROVE  Attended(n)'
<1>1. pc = "idle" /\ UNCHANGED <<vnode, osd, caches, delayed>> /\ queue' = queue \ {m}
  BY DEF Begin
<1>2. ViewKept(n)
  BY <1>1, QuietView
<1>3. CASE n # m
  <2>1. ~Busy(n) /\ ~Busy(n)'
    BY <1>1, <1>3 DEF Busy, Begin
  <2> QED
    BY <1>1, <1>2, <1>3, <2>1, AsideAttended
<1>4. CASE n = m /\ Found(m)
  <2>1. pc' = "putHost" /\ cur' = n /\ vitastorNode' = vnodeCache[n] /\ vnodeCache[n] # None
    BY <1>4 DEF Begin, Found
  <2> QED
    BY <1>1, <2>1 DEF Attended, Busy, InHand, Copied, Worked, caches
<1>5. CASE n = m /\ ~Found(m)
  <2>1. vnodeCache[n] = None /\ UNCHANGED <<pc, cur>>
    BY <1>5 DEF Begin, Found, Present, locals
  <2> QED
    BY <1>1, <2>1 DEF Attended, Busy, caches
<1> QED
  BY <1>3, <1>4, <1>5

LEMMA RuntimeAttends ==
  ASSUME TypeOK, Runtime, NEW n \in Nodes, Attended(n)
  PROVE  Attended(n)'
<1>1. UNCHANGED <<pc, locals>>
  BY DEF Runtime, Resync, SyncNode, SyncOsd, Wake, CollectOsd
<1>2. CASE n \in queue'
  BY <1>2 DEF Attended
<1>3. CASE n \notin queue'
  <2>1. n \notin queue /\ (delayed[n] = "rollout" => delayed'[n] = "rollout")
    BY <1>3 DEF Runtime, Resync, SyncNode, SyncOsd, Wake, CollectOsd, work, TypeOK
  <2>2. CASE Resync \/ \E m \in Nodes : Wake(m)
    BY <1>1, <2>1, <2>2, QuietView, OutsideAttended DEF Resync, Wake
  <2>3. ASSUME NEW m \in Nodes, SyncNode(m) PROVE Attended(n)'
    <3>1. n # m /\ UNCHANGED <<vnode, osd, osdCache>> /\ vnodeCache'[n] = vnodeCache[n]
      BY <1>3, <2>3 DEF SyncNode, TypeOK
    <3>2. ViewKept(n)
      BY <3>1 DEF ViewKept, StatusNew, Unseen, Known
    <3> QED
      BY <1>1, <2>1, <3>2, OutsideAttended
  <2>4. ASSUME NEW k \in Nums, SyncOsd(k) PROVE Attended(n)'
    <3>1. /\ UNCHANGED <<vnode, osd, vnodeCache>> /\ osdCache'[k] = osd[k]
          /\ \A j \in Nums \ {k} : osdCache'[j] = osdCache[j]
      BY <2>4 DEF SyncOsd, TypeOK
    <3>2. (osd[k] # None => osd[k].node # n) /\ ~Known(n, k)
      BY <1>3, <2>4 DEF SyncOsd, Owners, Known
    <3>3. ViewKept(n)
      BY <3>1, <3>2 DEF ViewKept, StatusNew, Unseen, Known
    <3> QED
      BY <1>1, <2>1, <3>3, OutsideAttended
  <2>5. ASSUME NEW k \in Nums, CollectOsd(k) PROVE Attended(n)'
    <3>1. /\ UNCHANGED <<vnode, caches>> /\ osd'[k] = None /\ \A j \in Nums \ {k} : osd'[j] = osd[j]
          /\ ~Owned(osd[k])
      BY <2>5 DEF CollectOsd, TypeOK
    <3>2. ASSUME NEW p \in Paths, Unseen(n, p), SbNum[p] = k PROVE StatusNew(n)
      BY <3>1, <3>2 DEF Unseen, Owned, StatusNew
    <3>3. ViewKept(n)
      BY <3>1, <3>2 DEF ViewKept, StatusNew, Unseen, Known, caches
    <3> QED
      BY <1>1, <2>1, <3>3, OutsideAttended
  <2> QED
    BY <2>2, <2>3, <2>4, <2>5 DEF Runtime
<1> QED
  BY <1>2, <1>3

LEMMA EnvironmentAttends ==
  ASSUME Steady, Fresh, TypeOK, Environment, NEW n \in Nodes, Attended(n)
  PROVE  Attended(n)'
<1>1. CASE Restart
  <2>1. ~Busy(n)' /\ vnodeCache'[n] = vnode[n] /\ (vnode[n] # None => n \in queue')
    BY <1>1 DEF Restart, Return, Busy
  <2> QED
    BY <2>1 DEF Attended
<1>2. CASE Fail
  <2>1. pc # "idle" /\ ReturnErr /\ UNCHANGED <<vnode, osd, caches>>
    BY <1>2 DEF Fail
  <2>2. CASE n = cur
    BY <2>1, <2>2, ReturnedAttended
  <2>3. CASE n # cur
    <3>1. ~Busy(n) /\ ~Busy(n)' /\ queue \subseteq queue' /\ UNCHANGED delayed
      BY <2>1, <2>3 DEF Busy, ReturnErr, Return
    <3> QED
      BY <2>1, <3>1, QuietView, AsideAttended
  <2> QED
    BY <2>2, <2>3
<1>3. ASSUME NEW s \in SUBSET Paths, Answer(s) PROVE Attended(n)'
  <2>1. UNCHANGED <<vnode, osd, caches, work, cur>>
    BY <1>3 DEF Answer
  <2>2. CASE n = cur
    BY <1>3, <2>2, AnswerAttends
  <2>3. CASE n # cur
    <3>1. ~Busy(n) /\ ~Busy(n)'
      BY <2>1, <2>3 DEF Busy
    <3> QED
      BY <2>1, <3>1, QuietView, AsideAttended DEF work
  <2> QED
    BY <2>2, <2>3
<1>4. AgentError \/ (\E p \in Paths : SuperblockUnread(p)) => \E s \in SUBSET Paths : Answer(s)
  BY DEF AgentError, SuperblockUnread, At
<1>5. ASSUME NEW m \in Nodes, DeleteNode(m) \/ \E i \in Images : SetImage(m, i) \/ CreateNode(m, i)
      PROVE  Attended(n)'
  <2>1. UNCHANGED <<osd, caches, work, pc, locals>>
    BY <1>5 DEF DeleteNode, SetImage, CreateNode
  <2>2. vnodeCache[n] # None /\ StatusNew(n) => StatusNew(n)'
    <3>1. CASE DeleteNode(m)
      BY <2>1, <3>1 DEF DeleteNode, StatusNew, TypeOK, caches
    <3>2. ASSUME NEW i \in Images, SetImage(m, i), m = n PROVE vnode[n] # None /\ vnode'[n].uid = vnode[n].uid /\ vnode'[n].disks = vnode[n].disks /\ vnode'[n] # None
      <4>1. vnode[n] \in VNode /\ vnode'[n] = [vnode[n] EXCEPT !.image = i]
        BY <3>2 DEF SetImage, TypeOK
      <4> QED
        BY <4>1 DEF VNode
    <3>3. ASSUME NEW i \in Images, CreateNode(m, i), m = n PROVE vnode'[n].uid = nextUid
      BY <3>3 DEF CreateNode, TypeOK
    <3>4. vnodeCache[n] # None => vnodeCache[n].uid # nextUid
      BY DEF Fresh, TypeOK, VNode
    <3>5. ASSUME NEW i \in Images, SetImage(m, i) \/ CreateNode(m, i), m # n PROVE vnode'[n] = vnode[n]
      BY <3>5 DEF SetImage, CreateNode, TypeOK
    <3> QED
      BY <1>5, <2>1, <3>1, <3>2, <3>3, <3>4, <3>5 DEF StatusNew, caches
  <2>3. ViewKept(n)
    BY <2>1, <2>2 DEF ViewKept, Unseen, Known, caches
  <2> QED
    BY <2>1, <2>3, OutsideAttended DEF work
<1>6. CASE UNCHANGED <<vnode, osd, caches, work, pc, locals>>
  BY <1>6, QuietView, OutsideAttended DEF work
<1>7. ASSUME \/ \E p \in Paths : Detach(p) \/ \E m \in Nodes : Attach(p, m)
             \/ \E m \in Nodes : ToggleAgent(m) \/ ToggleKube(m) \/ \E l \in SUBSET Dcs : Relabel(m, l)
      PROVE  UNCHANGED <<vnode, osd, caches, work, pc, locals>>
  BY <1>7 DEF Detach, Attach, ToggleAgent, ToggleKube, Relabel
<1>8. \A k \in Nums : ~UserDeletesOsd(k)
  BY DEF UserDeletesOsd, Disturb, Steady
<1> QED
  BY <1>1, <1>2, <1>3, <1>4, <1>5, <1>6, <1>7, <1>8 DEF Environment

LEMMA StepPresent ==
  ASSUME Steady, TypeOK, Present, [Next]_vars
  PROVE  Present'
<1>1. \A n \in Nodes : ~ToggleAgent(n) /\ ~ToggleKube(n)
  BY DEF ToggleAgent, ToggleKube, Disturb, Steady
<1> QED
  BY <1>1 DEF Present, Next, Begin, Reconcile, PutHost, AskAgent, Answer, NoAgent, Report, Visit, PutOsd, DeleteOsd,
     UpdateImage, Finish, Runtime, Resync, SyncNode, SyncOsd, Wake, CollectOsd, Environment, Attach, Detach, Relabel,
     SetImage, DeleteNode, CreateNode, UserDeletesOsd, Fail, Restart, AgentError, SuperblockUnread, vars, world

LEMMA StepFresh ==
  ASSUME TypeOK, Fresh, [Next]_vars
  PROVE  Fresh'
<1>0. \A n \in Nodes : /\ vnode[n] # None => vnode[n] \in VNode
                       /\ vnodeCache[n] # None => vnodeCache[n] \in VNode
  BY DEF TypeOK
<1>1. CASE UNCHANGED <<vnode, vnodeCache, nextUid>>
  BY <1>1 DEF Fresh
<1>2. CASE Report
  <2>1. UNCHANGED <<vnodeCache, nextUid>>
    BY <1>2 DEF Report, caches
  <2>2. UNCHANGED vnode \/ vnode' = [vnode EXCEPT ![cur] = [@ EXCEPT !.disks = osds]]
    BY <1>2 DEF Report
  <2>3. cur \in Nodes /\ vitastorNode \in VNode
    BY <1>2 DEF Report, TypeOK
  <2>4. ~UNCHANGED vnode => vnode[cur] = vitastorNode
    BY <1>2 DEF Report
  <2>5. ~UNCHANGED vnode => vnode'[cur].uid = vnode[cur].uid /\ \A n \in Nodes \ {cur} : vnode'[n] = vnode[n]
    BY <2>2, <2>3, <2>4 DEF TypeOK, VNode
  <2>6. ~UNCHANGED vnode => vnode[cur] # None
    BY <2>3, <2>4
  <2> QED
    BY <2>1, <2>5, <2>6 DEF Fresh
<1>3. ASSUME NEW m \in Nodes, SyncNode(m) PROVE Fresh'
  BY <1>3 DEF SyncNode, Fresh, TypeOK
<1>4. CASE Restart
  BY <1>4 DEF Restart, Fresh
<1>5. ASSUME NEW m \in Nodes, NEW i \in Images, SetImage(m, i) \/ DeleteNode(m) PROVE Fresh'
  <2>1. UNCHANGED <<vnodeCache, nextUid>> /\ vnode[m] # None
    BY <1>5 DEF SetImage, DeleteNode, caches
  <2>2. \A n \in Nodes \ {m} : vnode'[n] = vnode[n]
    BY <1>5 DEF SetImage, DeleteNode, TypeOK
  <2>3. vnode'[m] = None \/ vnode'[m].uid = vnode[m].uid
    <3>1. CASE DeleteNode(m)
      BY <3>1 DEF DeleteNode, TypeOK
    <3>2. CASE SetImage(m, i)
      <4>1. vnode'[m] = [vnode[m] EXCEPT !.image = i]
        BY <3>2 DEF SetImage, TypeOK
      <4> QED
        BY <1>0, <2>1, <4>1 DEF VNode
    <3> QED
      BY <1>5, <3>1, <3>2
  <2> QED
    BY <2>1, <2>2, <2>3 DEF Fresh
<1>6. ASSUME NEW m \in Nodes, NEW i \in Images, CreateNode(m, i) PROVE Fresh'
  <2>1. UNCHANGED vnodeCache /\ nextUid' = nextUid + 1 /\ nextUid \in Nat
    BY <1>6 DEF CreateNode, caches, TypeOK
  <2>2. vnode'[m].uid = nextUid /\ \A n \in Nodes \ {m} : vnode'[n] = vnode[n]
    BY <1>6 DEF CreateNode, TypeOK
  <2>3. \A n \in Nodes : /\ vnode[n] # None => vnode[n].uid \in Nat
                         /\ vnodeCache[n] # None => vnodeCache[n].uid \in Nat
    BY <1>0 DEF VNode
  <2> QED
    BY <2>1, <2>2, <2>3 DEF Fresh
<1>7. CASE \E m \in Nodes : DeleteNode(m)
  <2>1. PICK m \in Nodes : DeleteNode(m)
    BY <1>7
  <2> QED
    BY <2>1 DEF DeleteNode, Fresh, TypeOK, caches
<1>8. ASSUME \/ \E n \in Nodes : Begin(n)
             \/ Reconcile /\ ~Report
             \/ Runtime /\ \A n \in Nodes : ~SyncNode(n)
             \/ UNCHANGED vars
      PROVE  UNCHANGED <<vnode, vnodeCache, nextUid>>
  BY <1>8 DEF Begin, Reconcile, PutHost, AskAgent, Answer, NoAgent, Visit, PutOsd, DeleteOsd, UpdateImage, Finish,
     Runtime, Resync, SyncOsd, Wake, CollectOsd, vars, caches
<1>9. ASSUME Environment, ~Restart,
             \A m \in Nodes : ~DeleteNode(m) /\ \A i \in Images : ~SetImage(m, i) /\ ~CreateNode(m, i)
      PROVE  UNCHANGED <<vnode, vnodeCache, nextUid>>
  BY <1>9 DEF Environment, Attach, Detach, Relabel, ToggleAgent, ToggleKube, UserDeletesOsd, Fail, AgentError,
     SuperblockUnread, Answer, caches
<1> QED
  BY <1>1, <1>2, <1>3, <1>4, <1>5, <1>6, <1>7, <1>8, <1>9 DEF Next, Reconcile, Runtime

LEMMA InitForgets == Init => ForgetInv
<1> SUFFICES ASSUME Init PROVE ForgetInv
  OBVIOUS
<1>1. PICK i \in Images : vnode = [n \in Nodes |-> [uid |-> 0, image |-> i, disks |-> None]]
  BY DEF Init
<1>2. \A n \in Nodes : vnode[n].uid = 0
  BY <1>1
<1> QED
  BY <1>2 DEF Init, ForgetInv, Present, Fresh, Attended

LEMMA StepForgets ==
  ASSUME Steady, TypeOK, HomeInv, ForgetInv, [Next]_vars
  PROVE  ForgetInv'
<1>1. Present' /\ Fresh' /\ HomeInv'
  BY StepPresent, StepFresh, StepHomes DEF ForgetInv
<1>2. ASSUME NEW n \in Nodes PROVE Attended(n)'
  <2>1. Attended(n) /\ Present /\ Fresh /\ OneHome
    BY DEF ForgetInv, Steady
  <2>2. CASE UNCHANGED vars
    BY <2>1, <2>2, QuietView, OutsideAttended DEF vars, work
  <2>3. CASE Next
    BY <1>1, <2>1, <2>3, BeginAttends, ReconcileAttends, RuntimeAttends, EnvironmentAttends DEF Next
  <2> QED
    BY <2>2, <2>3
<1> QED
  BY <1>1, <1>2 DEF ForgetInv

\* At rest no event is under way, so all is done: and the caches are right.
LEMMA AttendedForgetsNone ==
  ASSUME TypeOK, ForgetInv
  PROVE  NothingForgotten
<1> SUFFICES ASSUME NEW n \in Nodes, Quiet(n) PROVE AsReported(n)
  BY DEF NothingForgotten
<1>1. /\ vnodeCache[n] = vnode[n] /\ vnode[n] # None /\ osdCache = osd
      /\ \A k \in Nums : osd[k] # None => Owned(osd[k])
  BY DEF Quiet
<1>2. AllDone(n)
  BY <1>1 DEF ForgetInv, Attended, Quiet, Busy, StatusNew
<1>3. vnode[n].disks \subseteq Paths
  BY <1>1, <1>2 DEF TypeOK, VNode, AllDone
<1>4. ASSUME NEW p \in vnode[n].disks
      PROVE  osd[SbNum[p]] = [path |-> p, node |-> n, image |-> vnode[n].image, owner |-> vnode[n].uid]
  <2>1. p \in Paths /\ SbNum[p] \in Nums
    BY <1>3, <1>4
  <2>2. ~Unseen(n, p)
    BY <1>1 DEF Unseen
  <2>3. Known(n, SbNum[p]) /\ osd[SbNum[p]].path = p /\ osd[SbNum[p]].image = vnode[n].image
    BY <1>1, <1>2, <1>4, <2>2 DEF AllDone, Provided
  <2>4. osd[SbNum[p]] \in OSD /\ osd[SbNum[p]].node = n /\ osd[SbNum[p]].owner = vnode[n].uid
    BY <1>1, <2>1, <2>3 DEF Known, Owned, TypeOK
  <2> QED
    BY <2>3, <2>4 DEF OSD
<1>5. \A k \in Nums : osd[k] # None /\ osd[k].node = n => osd[k].path \in vnode[n].disks
  BY <1>1, <1>2 DEF AllDone, Known
<1> QED
  BY <1>1, <1>2, <1>4, <1>5 DEF AsReported, AllDone

\* A host at rest has the VitastorOSDs of the disks in its status and no others,
\* whatever calls failed, whenever the operator restarted, and whatever the agent
\* answered and the caches showed when those objects were created and deleted.
THEOREM NoneIsForgotten ==
  ASSUME Steady
  PROVE  Spec => []NothingForgotten
<1>1. Init => ForgetInv
  BY InitForgets
<1>2. TypeOK /\ HomeInv /\ ForgetInv /\ [Next]_vars => ForgetInv'
  BY StepForgets
<1>3. TypeOK /\ ForgetInv => NothingForgotten
  BY AttendedForgetsNone
<1> QED
  BY <1>1, <1>2, <1>3, TypeCorrect, HomesKept, PTL DEF Spec
=============================================================================
