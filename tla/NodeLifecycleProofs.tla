------------------------- MODULE NodeLifecycleProofs -------------------------
(***************************************************************************)
(* NodeController implements OsdLifecycle, for any number of hosts and     *)
(* disks, on the conditions of ServingIsKept and one more: nobody but the  *)
(* operator deletes a VitastorOSD, and nobody deletes a VitastorNode, which*)
(* would have its VitastorOSDs collected.                                  *)
(*                                                                         *)
(* Every action of the operator maps to one step of the life cycle of one  *)
(* disk, or to none: HomeInv and ServeInv rule the other steps out.        *)
(***************************************************************************)
EXTENDS NodeServingProofs

USE NodeAssumption

NoDeletes == "delete" \notin Disturbances /\ "osddelete" \notin Disturbances

Unowned(n) == vnode[n] = None \/ vnode[n].uid # 0

\* Nothing is ever deleted, so every copy of a VitastorNode, and every owner
\* reference, is of the one the host had from the start.
Adopted ==
    /\ \A n \in Nodes : ~Unowned(n)
    /\ \A n \in Nodes : vnodeCache[n] # None => vnodeCache[n].uid = 0
    /\ vitastorNode # None => vitastorNode.uid = 0
    /\ \A k \in Nums : osd[k] # None => osd[k].owner = 0

LEMMA InitAdopted == Init => Adopted
BY DEF Init, Adopted, Unowned, NoList, VNode

LEMMA ReturnAdopted ==
  ASSUME Adopted, Return, UNCHANGED <<vnode, vnodeCache>>,
         \A k \in Nums : osd'[k] # None => osd'[k].owner = 0
  PROVE  Adopted'
BY DEF Return, Adopted, Unowned

\* With the owners all there, the collector has nothing to do.
LEMMA NothingCollected ==
  ASSUME TypeOK, Adopted, NEW k \in Nums
  PROVE  ~CollectOsd(k)
<1> SUFFICES ASSUME CollectOsd(k) PROVE FALSE
  OBVIOUS
<1>1. osd[k] \in OSD /\ osd[k].owner = 0
  BY DEF CollectOsd, TypeOK, Adopted
<1>2. osd[k].node \in Nodes
  BY <1>1 DEF OSD
<1> QED
  BY <1>1, <1>2 DEF CollectOsd, Owned, Adopted, Unowned

LEMMA ReconcileAdopted ==
  ASSUME TypeOK, Adopted, Reconcile
  PROVE  Adopted'
<1> USE DEF ReturnErr, ReturnAfter
<1>1. CASE PutHost \/ PutOsd \/ AskAgent
  BY <1>1 DEF PutHost, PutOsd, AskAgent, Answer, caches, Adopted, Unowned
<1>2. CASE NoAgent \/ Finish
  <2>1. Return /\ UNCHANGED <<osd, vnode, vnodeCache>>
    BY <1>2 DEF NoAgent, Finish, caches
  <2> QED
    BY <2>1, ReturnAdopted DEF Adopted
<1>3. CASE Report
  <2>1. CASE Return /\ UNCHANGED <<osd, vnode, vnodeCache>>
    BY <2>1, ReturnAdopted DEF Adopted
  <2>2. CASE ~(osds # vitastorNode.disks /\ vnode[cur] # vitastorNode)
    <3>1. cur \in Nodes /\ vnode[cur] \in VNode /\ vnode[cur].uid = 0
      BY <1>3 DEF Report, TypeOK, Adopted, Unowned
    <3>2. vitastorNode \in VNode /\ vitastorNode.uid = 0
      BY <1>3 DEF Report, TypeOK, Adopted
    <3>3. \A n \in Nodes : vnode'[n] = vnode[n] \/ (n = cur /\ vnode'[n] = [vnode[cur] EXCEPT !.disks = osds])
      BY <1>3, <2>2 DEF Report, TypeOK
    <3> DEFINE reported == [vnode[cur] EXCEPT !.disks = osds]
    <3>4. reported.uid = 0 /\ reported \in VNode
      BY <1>3, <3>1 DEF Report, TypeOK, VNode
    <3> HIDE DEF reported
    <3>5. \A n \in Nodes : vnode'[n] # None /\ vnode'[n].uid = 0
      BY <3>3, <3>4 DEF Adopted, Unowned, reported
    <3>6. vitastorNode' = [vitastorNode EXCEPT !.disks = osds]
      BY <1>3, <2>2 DEF Report
    <3>7. vitastorNode'.uid = 0
      BY <3>2, <3>6 DEF VNode
    <3>8. UNCHANGED <<osd, vnodeCache>>
      BY <1>3 DEF Report, caches
    <3> QED
      BY <3>5, <3>7, <3>8 DEF Adopted, Unowned
  <2> QED
    BY <1>3, <2>1, <2>2 DEF Report, caches
<1>4. ASSUME NEW p \in Paths, Visit(p) PROVE Adopted'
  <2>1. UNCHANGED <<vnode, vnodeCache>> /\ vitastorNode \in VNode /\ vitastorNode.uid = 0
    BY <1>4 DEF Visit, caches, TypeOK, Adopted
  <2>2. \A k \in Nums : osd'[k] = osd[k] \/ osd'[k] = Configuration(p)
    BY <1>4 DEF Visit, TypeOK
  <2>3. \A k \in Nums : osd'[k] # None => osd'[k].owner = 0
    BY <2>1, <2>2 DEF Configuration, Adopted
  <2>4. Return \/ UNCHANGED vitastorNode
    BY <1>4 DEF Visit
  <2> QED
    BY <2>1, <2>3, <2>4, ReturnAdopted DEF Adopted, Unowned
<1>5. ASSUME NEW k \in Nums, DeleteOsd(k) \/ UpdateImage(k) PROVE Adopted'
  <2>1. UNCHANGED <<vnode, vnodeCache>> /\ (Return \/ UNCHANGED vitastorNode)
    BY <1>5 DEF DeleteOsd, UpdateImage, caches
  <2>2. ASSUME NEW j \in Nums, osd'[j] # None PROVE osd'[j].owner = 0
    <3>1. CASE osd'[j] = osd[j]
      BY <2>2, <3>1 DEF Adopted
    <3>2. CASE osd'[j] # osd[j]
      <4>1. osd[j] = osdList[j] /\ j = k /\ osdList[k] # None
        BY <1>5, <2>2, <3>2 DEF DeleteOsd, UpdateImage, TypeOK, Outdated
      <4>2. osd[j] \in OSD /\ osd'[j] = [osd[j] EXCEPT !.image = vitastorNode.image]
        BY <1>5, <2>2, <3>2, <4>1 DEF DeleteOsd, UpdateImage, TypeOK
      <4> QED
        BY <4>1, <4>2 DEF OSD, Adopted
    <3> QED
      BY <3>1, <3>2
  <2> QED
    BY <2>1, <2>2, ReturnAdopted DEF Adopted, Unowned
<1> QED
  BY <1>1, <1>2, <1>3, <1>4, <1>5 DEF Reconcile

LEMMA StepAdopted ==
  ASSUME NoDeletes, TypeOK, Adopted, [Next]_vars
  PROVE  Adopted'
<1>1. CASE UNCHANGED <<osd, vnode, vnodeCache, vitastorNode>>
  BY <1>1 DEF Adopted, Unowned
<1>2. ASSUME NEW n \in Nodes, Begin(n) PROVE Adopted'
  <2>1. vitastorNode' = vitastorNode \/ (vitastorNode' = vnodeCache[n] /\ vnodeCache[n] # None)
    BY <1>2 DEF Begin, Found, locals
  <2>2. UNCHANGED <<osd, vnode, vnodeCache>>
    BY <1>2 DEF Begin, caches
  <2> QED
    BY <2>1, <2>2 DEF Adopted, Unowned
<1>3. CASE Runtime
  <2>1. UNCHANGED <<osd, vnode, vitastorNode>>
    BY <1>3, NothingCollected DEF Runtime, Resync, SyncNode, Wake, SyncOsd, locals
  <2>2. \A n \in Nodes : vnodeCache'[n] = vnodeCache[n] \/ vnodeCache'[n] = vnode[n]
    BY <1>3 DEF Runtime, Resync, SyncNode, Wake, SyncOsd, CollectOsd, caches, TypeOK
  <2> QED
    BY <2>1, <2>2 DEF Adopted, Unowned
<1>4. CASE Fail \/ Restart
  <2>1. /\ UNCHANGED <<osd, vnode>> /\ vnodeCache' \in {vnodeCache, vnode}
        /\ vitastorNode' = None
    BY <1>4 DEF Fail, Restart, Return, ReturnErr, caches
  <2> QED
    BY <2>1 DEF Adopted, Unowned
<1>5. ASSUME NEW n \in Nodes, NEW i \in Images, SetImage(n, i) PROVE Adopted'
  <2>1. vnode[n] \in VNode /\ vnode[n].uid = 0
    BY <1>5 DEF TypeOK, Adopted, Unowned
  <2> DEFINE edited == [vnode[n] EXCEPT !.image = i]
  <2>2. edited \in VNode /\ edited.uid = 0
    BY <2>1 DEF VNode
  <2>3. \A m \in Nodes : vnode'[m] = vnode[m] \/ vnode'[m] = edited
    BY <1>5 DEF SetImage, TypeOK
  <2>4. UNCHANGED <<osd, vnodeCache, vitastorNode>>
    BY <1>5 DEF SetImage, caches, locals
  <2> HIDE DEF edited
  <2> QED
    BY <2>2, <2>3, <2>4 DEF Adopted, Unowned
<1>6. CASE Environment
  <2>1. \A n \in Nodes : \A i \in Images : ~CreateNode(n, i)
    BY DEF CreateNode, Adopted, Unowned
  <2>2. \A n \in Nodes : ~DeleteNode(n)
    BY DEF DeleteNode, Disturb, NoDeletes
  <2>3. \A k \in Nums : ~UserDeletesOsd(k)
    BY DEF UserDeletesOsd, Disturb, NoDeletes
  <2>4. ASSUME NEW p \in Paths, Detach(p) \/ SuperblockUnread(p) \/ \E n \in Nodes : Attach(p, n)
        PROVE  UNCHANGED <<osd, vnode, vnodeCache, vitastorNode>>
    BY <2>4 DEF Detach, SuperblockUnread, Answer, Attach, caches, locals
  <2>5. ASSUME NEW n \in Nodes, ToggleAgent(n) \/ ToggleKube(n) \/ \E l \in SUBSET Dcs : Relabel(n, l)
        PROVE  UNCHANGED <<osd, vnode, vnodeCache, vitastorNode>>
    BY <2>5 DEF ToggleAgent, ToggleKube, Relabel, caches, locals
  <2>6. AgentError => UNCHANGED <<osd, vnode, vnodeCache, vitastorNode>>
    BY DEF AgentError, Answer, caches
  <2> QED
    BY <1>1, <1>4, <1>5, <1>6, <2>1, <2>2, <2>3, <2>4, <2>5, <2>6 DEF Environment
<1>7. CASE Reconcile
  BY <1>7, ReconcileAdopted
<1>8. CASE UNCHANGED vars
  BY <1>1, <1>8 DEF vars, caches, locals
<1> QED
  BY <1>2, <1>3, <1>6, <1>7, <1>8 DEF Next

-----------------------------------------------------------------------------
(* Steps of the operator and of its environment as steps of a life cycle *)

stages == [p \in Paths |-> Stage(p)]

LEMMA StageUnchanged ==
  ASSUME UNCHANGED <<osd, serving>>
  PROVE  stages' = stages
BY DEF stages, Stage

\* A step that touches the object of one disk, d, alone.
LEMMA OthersKeepStage ==
  ASSUME FixedDisks, TypeOK, NEW d \in Paths,
         \A k \in Nums \ {SbNum[d]} : osd'[k] = osd[k] /\ (k \in serving' <=> k \in serving)
  PROVE  stages' = [stages EXCEPT ![d] = Stage(d)']
<1>1. \A p \in Paths \ {d} : SbNum[p] \in Nums \ {SbNum[d]}
  BY DEF FixedDisks, OneHome
<1>2. \A p \in Paths \ {d} : Stage(p)' = Stage(p)
  BY <1>1 DEF Stage
<1> QED
  BY <1>2 DEF stages

\* An object gone that did not serve is a Withdraw.
LEMMA Withdrawal ==
  ASSUME FixedDisks, TypeOK, HomeInv, ServeInv, NEW k \in Nums, osd[k] # None, k \notin serving,
         osd' = [osd EXCEPT ![k] = None], UNCHANGED <<where, serving>>
  PROVE  L!Next
<1>1. PICK p \in Paths : SbNum[p] = k
  BY DEF HomeInv, Objects, AllRightful, Rightful, OSD
<1>2. stages[p] = "retired" /\ Stage(p)' = "none"
  BY <1>1 DEF stages, Stage, TypeOK
<1>3. \A j \in Nums \ {SbNum[p]} : osd'[j] = osd[j]
  BY <1>1 DEF TypeOK
<1>4. stages' = [stages EXCEPT ![p] = "none"]
  BY <1>2, <1>3, OthersKeepStage
<1> QED
  BY <1>2, <1>4 DEF L!Next, L!Withdraw, stages

LEMMA QuietStep ==
  ASSUME UNCHANGED <<where, osd, serving>>
  PROVE  UNCHANGED L!lifecycle
BY StageUnchanged DEF L!lifecycle, stages

LEMMA VisitMaps ==
  ASSUME FixedDisks, TypeOK, HomeInv, ServeInv, NEW p \in Paths, Visit(p)
  PROVE  [L!Next]_(L!lifecycle)
<1>1. UNCHANGED where /\ p \in osds /\ cur \in Slots[p] /\ cur \in Nodes
  BY DEF Visit, world, TypeOK, HomeInv, Answered
<1>2. CASE UNCHANGED <<osd, serving>>
  BY <1>1, <1>2, QuietStep
<1>3. CASE ~UNCHANGED <<osd, serving>>
  <2> DEFINE k == SbNum[p]
  <2>1. /\ osd[k] = None /\ osd' = [osd EXCEPT ![k] = Configuration(p)]
        /\ serving' = IF where[p] = cur THEN serving \cup {k} ELSE serving
    BY <1>3 DEF Visit
  <2>2. where[p] = cur <=> where[p] # None
    BY <1>1 DEF HomeInv, Plugged, FixedDisks, OneHome, Keys
  <2>3. k \notin serving /\ k \in Nums
    BY <2>1 DEF ServeInv, InPlace
  <2>4. Configuration(p) # None
    BY <1>1 DEF Visit, Configuration, TypeOK, VNode, OSD
  <2>5. stages[p] = "none"
    BY <2>1 DEF stages, Stage
  <2>6. Stage(p)' = IF where[p] = None THEN "retired" ELSE "serving"
    BY <2>1, <2>2, <2>3, <2>4 DEF Stage, TypeOK
  <2>7. \A j \in Nums \ {k} : osd'[j] = osd[j] /\ (j \in serving' <=> j \in serving)
    BY <2>1 DEF TypeOK
  <2>8. stages' = [stages EXCEPT ![p] = IF where[p] = None THEN "retired" ELSE "serving"]
    BY <2>6, <2>7, OthersKeepStage
  <2> QED
    BY <1>1, <2>5, <2>8 DEF L!Next, L!Provide, stages
<1> QED
  BY <1>2, <1>3

LEMMA SweepMaps ==
  ASSUME FixedDisks, TypeOK, HomeInv, ServeInv, NEW k \in Nums, DeleteOsd(k) \/ UpdateImage(k)
  PROVE  [L!Next]_(L!lifecycle)
<1>1. UNCHANGED <<where, serving>> /\ pc = "sweep"
  BY DEF DeleteOsd, UpdateImage, world
<1>2. CASE DeleteOsd(k) /\ osd[k] # None
  <2>1. osd' = [osd EXCEPT ![k] = None] /\ Vanished(k)
    BY <1>2 DEF DeleteOsd
  <2>2. k \notin serving
    BY <1>1, <2>1, VanishedNotServing
  <2> QED
    BY <1>1, <1>2, <2>1, <2>2, Withdrawal
<1>3. CASE UNCHANGED osd
  BY <1>1, <1>3, QuietStep
<1>4. CASE UpdateImage(k) /\ osd[k] = osdList[k]
  <2>1. osd[k] \in OSD /\ osd' = [osd EXCEPT ![k].image = vitastorNode.image] /\ vitastorNode \in VNode
    BY <1>4 DEF UpdateImage, Outdated, TypeOK
  <2> DEFINE updated == [osd[k] EXCEPT !.image = vitastorNode.image]
  <2>2. updated \in OSD
    BY <2>1 DEF OSD, VNode
  <2>3. \A j \in Nums : osd'[j] = None <=> osd[j] = None
    BY <2>1, <2>2 DEF TypeOK
  <2>4. stages' = stages
    BY <1>1, <2>3 DEF stages, Stage
  <2> QED
    BY <1>1, <2>4 DEF L!lifecycle, stages
<1> QED
  BY <1>2, <1>3, <1>4 DEF DeleteOsd, UpdateImage

LEMMA PlugMaps ==
  ASSUME FixedDisks, TypeOK, NEW p \in Paths, Detach(p) \/ \E n \in Nodes : Attach(p, n)
  PROVE  L!Next
<1>1. CASE Detach(p)
  <2>1. /\ where[p] # None /\ where' = [where EXCEPT ![p] = None]
        /\ serving' = serving \ {SbNum[p]} /\ UNCHANGED osd
    BY <1>1 DEF Detach
  <2>2. Stage(p)' = IF stages[p] = "serving" THEN "retired" ELSE stages[p]
    BY <2>1 DEF stages, Stage
  <2>3. stages' = [stages EXCEPT ![p] = IF @ = "serving" THEN "retired" ELSE @]
    BY <2>1, <2>2, OthersKeepStage
  <2> QED
    BY <2>1, <2>3 DEF L!Next, L!Unplug, stages
<1>2. ASSUME NEW n \in Nodes, Attach(p, n) PROVE L!Next
  <2>1. where[p] = None /\ where' = [where EXCEPT ![p] = n] /\ UNCHANGED <<osd, serving>>
    BY <1>2 DEF Attach
  <2> QED
    BY <2>1, StageUnchanged DEF L!Next, L!Plug, stages
<1> QED
  BY <1>1, <1>2

LEMMA StepMaps ==
  ASSUME FixedDisks, NoDeletes, TypeOK, HomeInv, ServeInv, Adopted, [Next]_vars
  PROVE  [L!Next]_(L!lifecycle)
<1>1. CASE UNCHANGED <<where, osd, serving>>
  BY <1>1, QuietStep
<1>2. CASE Reconcile
  <2>1. PutHost \/ AskAgent \/ NoAgent \/ Report \/ PutOsd \/ Finish => UNCHANGED <<where, osd, serving>>
    BY DEF PutHost, AskAgent, Answer, NoAgent, Report, PutOsd, Finish, world
  <2> QED
    BY <1>1, <1>2, <2>1, VisitMaps, SweepMaps DEF Reconcile
<1>3. CASE Runtime
  BY <1>1, <1>3, NothingCollected DEF Runtime, Resync, SyncNode, Wake, SyncOsd, world
<1>4. CASE Environment
  <2>1. \A k \in Nums : ~UserDeletesOsd(k)
    BY DEF UserDeletesOsd, Disturb, NoDeletes
  <2>2. ASSUME NEW n \in Nodes,
               \/ ToggleAgent(n) \/ ToggleKube(n) \/ DeleteNode(n)
               \/ \E l \in SUBSET Dcs : Relabel(n, l)
               \/ \E i \in Images : SetImage(n, i) \/ CreateNode(n, i)
        PROVE  UNCHANGED <<where, osd, serving>>
    BY <2>2 DEF ToggleAgent, ToggleKube, DeleteNode, Relabel, SetImage, CreateNode, world
  <2>3. AgentError \/ (\E p \in Paths : SuperblockUnread(p)) \/ Fail \/ Restart
          => UNCHANGED <<where, osd, serving>>
    BY DEF AgentError, SuperblockUnread, Answer, Fail, Restart, world
  <2> QED
    BY <1>1, <1>4, <2>1, <2>2, <2>3, PlugMaps DEF Environment
<1>5. CASE (\E n \in Nodes : Begin(n)) \/ UNCHANGED vars
  BY <1>1, <1>5 DEF Begin, vars, world
<1> QED
  BY <1>2, <1>3, <1>4, <1>5 DEF Next

LEMMA InitMaps == Init => L!Init
BY DEF Init, L!Init, Stage, NoList

\* The operator implements the life cycle: whatever its caches lag, whatever calls
\* fail and whenever it restarts, each of its steps provides or withdraws the
\* object of one disk, rightly, or changes nothing a user of the disk sees.
THEOREM ImplementsLifecycle ==
  ASSUME FixedDisks, NoDeletes
  PROVE  Spec => Lifecycle
<1>1. Init => Adopted
  BY InitAdopted
<1>2. TypeOK /\ Adopted /\ [Next]_vars => Adopted'
  BY StepAdopted
<1>3. TypeOK /\ HomeInv /\ ServeInv /\ Adopted /\ [Next]_vars => [L!Next]_(L!lifecycle)
  BY StepMaps
<1> QED
  BY <1>1, <1>2, <1>3, InitMaps, TypeCorrect, HomesKept, ServeKept, PTL DEF Spec, Lifecycle, L!Spec
=============================================================================
