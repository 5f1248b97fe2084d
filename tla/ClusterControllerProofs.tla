----------------------- MODULE ClusterControllerProofs -----------------------
(***************************************************************************)
(* Theorems about ClusterController, for every set of hosts, images and    *)
(* numbers of monitors, and any number of disturbances: type correctness,  *)
(* and that no VitastorCluster is left half deployed unless it is due.     *)
(***************************************************************************)
EXTENDS ClusterController, TLAPS

USE ClusterAssumption

-----------------------------------------------------------------------------
(* The objects the controller makes are objects *)

LEMMA InitTyped == Init => TypeOK
<1> SUFFICES ASSUME Init PROVE TypeOK
  OBVIOUS
<1>1. cluster \in Cluster /\ clusterCache \in Cluster
  BY DEF Init, Cluster
<1>2. NoPods \in [Hosts -> PodStates]
  BY DEF NoPods, PodStates
<1>3. /\ node \in [Hosts -> VNode \cup {None}] /\ nodeCache \in [Hosts -> VNode \cup {None}]
      /\ pod \in [Hosts -> PodStates] /\ podCache \in [Hosts -> PodStates]
  BY DEF Init, PodStates, NoPods
<1> QED
  BY <1>1, <1>2, <1>3 DEF Init, TypeOK

LEMMA ReturnTyped ==
  ASSUME Return
  PROVE  /\ pc' = "idle" /\ vitastorCluster' = None /\ monitorDeployment' = None
         /\ todo' \in [Hosts -> PodStates]
BY DEF Return, NoPods, PodStates

LEMMA ConfigurationsTyped ==
  ASSUME NEW c \in Cluster
  PROVE  /\ MonitorConfiguration(c) \in Deploy /\ AgentConfiguration(c) \in Daemon
         /\ NodeConfiguration(c) \in VNode
<1>1. c.uid \in Nat /\ c.spec \in Settings
  BY DEF Cluster
<1> QED
  BY <1>1 DEF MonitorConfiguration, AgentConfiguration, NodeConfiguration, Settings,
              Deploy, Daemon, VNode, NoPods, PodStates

LEMMA EditedTyped ==
  ASSUME NEW d \in Deploy, NEW s \in Settings
  PROVE  [d EXCEPT !.image = s.monitor] \in Deploy /\ [d EXCEPT !.replicas = s.replicas] \in Deploy
BY DEF Deploy, Settings

-----------------------------------------------------------------------------
(* Every step keeps the types *)

LEMMA MonitorTyped ==
  ASSUME TypeOK, CreateMonitor \/ MonitorImage \/ MonitorReplicas
  PROVE  TypeOK'
<1>1. vitastorCluster \in Cluster /\ vitastorCluster.spec \in Settings
  BY DEF TypeOK, CreateMonitor, MonitorImage, MonitorReplicas, Cluster
<1>2. CASE CreateMonitor
  BY <1>1, <1>2, ReturnTyped, ConfigurationsTyped DEF CreateMonitor, Requeue, TypeOK, caches
<1>3. ASSUME NEW d \in Deploy, NEW next \in {"replicas", "agent"}, UpdateMonitor(d, next),
             pc \in {"image", "replicas"},
             UNCHANGED <<levels, cluster, daemon, node, pod, caches, nextUid, budget>>
      PROVE  TypeOK'
  <2>1. CASE d # monitorDeployment /\ monitor # monitorDeployment
    BY <1>3, <2>1, ReturnTyped DEF UpdateMonitor, Requeue, TypeOK, caches
  <2>2. CASE ~(d # monitorDeployment /\ monitor # monitorDeployment)
    BY <1>3, <2>2 DEF UpdateMonitor, TypeOK, caches, work
  <2> QED
    BY <2>1, <2>2
<1>4. CASE MonitorImage
  BY <1>1, <1>3, <1>4, EditedTyped DEF MonitorImage, TypeOK
<1>5. CASE MonitorReplicas
  BY <1>1, <1>3, <1>5, EditedTyped DEF MonitorReplicas, WantedReplicas, TypeOK
<1> QED
  BY <1>2, <1>4, <1>5

LEMMA AgentTyped ==
  ASSUME TypeOK, Agent
  PROVE  TypeOK'
<1>1. vitastorCluster \in Cluster /\ vitastorCluster.spec.agent \in Images
  BY DEF TypeOK, Agent, Cluster, Settings
<1>2. \A d \in Daemon : [d EXCEPT !.image = vitastorCluster.spec.agent] \in Daemon
  BY <1>1 DEF Daemon
<1>3. daemon' \in Daemon \cup {None}
  BY <1>1, <1>2, ConfigurationsTyped DEF Agent, TypeOK
<1>4. CASE Return
  BY <1>3, <1>4, ReturnTyped DEF Agent, Requeue, RequeueAfter, TypeOK, caches, work
<1>5. CASE ~Return
  BY <1>3, <1>5 DEF Agent, Requeue, RequeueAfter, TypeOK, caches, work
<1> QED
  BY <1>4, <1>5

LEMMA NodesTyped ==
  ASSUME TypeOK, Finish \/ \E h \in Hosts : Visit(h)
  PROVE  TypeOK'
<1>1. CASE Finish
  BY <1>1, ReturnTyped DEF Finish, Done, TypeOK, objects, caches, work
<1>2. ASSUME NEW h \in Hosts, Visit(h) PROVE TypeOK'
  <2>1. NodeConfiguration(vitastorCluster) \in VNode
    BY <1>2, ConfigurationsTyped DEF Visit, TypeOK
  <2>2. CASE Requeue /\ UNCHANGED node
    BY <1>2, <2>2, ReturnTyped DEF Visit, Requeue, TypeOK, caches
  <2>3. CASE ~(Requeue /\ UNCHANGED node)
    <3>1. todo' = [todo EXCEPT ![h] = "none"] /\ UNCHANGED <<work, pc, vitastorCluster, monitorDeployment>>
      BY <1>2, <2>3 DEF Visit
    <3>2. node' = node \/ node' = [node EXCEPT ![h] = NodeConfiguration(vitastorCluster)]
      BY <1>2, <2>3 DEF Visit
    <3> QED
      BY <1>2, <2>1, <3>1, <3>2 DEF Visit, TypeOK, PodStates, caches, work
  <2> QED
    BY <2>2, <2>3
<1> QED
  BY <1>1, <1>2

LEMMA RuntimeTyped ==
  ASSUME TypeOK, Runtime
  PROVE  TypeOK'
<1> USE DEF TypeOK, objects, caches, work, locals
<1>1. CASE SyncCluster \/ SyncMonitor \/ SyncDaemon
  BY <1>1 DEF SyncCluster, SyncMonitor, SyncDaemon
<1>2. CASE Wake \/ Resync
  BY <1>2 DEF Wake, Resync
<1>3. ASSUME NEW h \in Hosts, SyncNode(h) \/ SyncPod(h) PROVE TypeOK'
  BY <1>3 DEF SyncNode, SyncPod
<1> QED
  BY <1>1, <1>2, <1>3 DEF Runtime

LEMMA KubernetesTyped ==
  ASSUME TypeOK, Kubernetes
  PROVE  TypeOK'
<1> USE DEF TypeOK, objects, caches, work, locals
<1>1. CASE ReportPods
  <2>1. daemon \in Daemon /\ pod \in [Hosts -> PodStates]
    BY <1>1 DEF ReportPods
  <2>2. [daemon EXCEPT !.status = pod] \in Daemon
    BY <2>1 DEF Daemon
  <2> QED
    BY <1>1, <2>2 DEF ReportPods
<1>2. CASE CollectMonitor \/ CollectDaemon
  BY <1>2 DEF CollectMonitor, CollectDaemon
<1>3. ASSUME NEW h \in Hosts, CollectNode(h) PROVE TypeOK'
  BY <1>3 DEF CollectNode
<1>4. ASSUME NEW h \in Hosts, MakePod(h) \/ BindPod(h) \/ RemovePod(h) PROVE TypeOK'
  BY <1>4 DEF MakePod, BindPod, RemovePod, PodStates
<1> QED
  BY <1>1, <1>2, <1>3, <1>4 DEF Kubernetes, Collect

LEMMA EnvironmentTyped ==
  ASSUME TypeOK, Environment
  PROVE  TypeOK'
<1>0. budget' \in Nat
  <2>1. \A kind : Disturb(kind) => budget' \in Nat
    BY DEF Disturb, TypeOK
  <2> QED
    BY <2>1 DEF Environment, CreateCluster, EditCluster, DeleteCluster, DropMonitor, DropDaemon,
                EvictPod, DeleteNode, Fail, Restart
<1>1. ASSUME NEW s \in Settings, CreateCluster(s) \/ EditCluster(s) PROVE TypeOK'
  <2>1. cluster' \in Cluster
    BY <1>1 DEF CreateCluster, EditCluster, Cluster, TypeOK
  <2> QED
    BY <1>0, <1>1, <2>1 DEF CreateCluster, EditCluster, TypeOK, caches, work, locals
<1>2. CASE DeleteCluster \/ DropMonitor \/ DropDaemon
  BY <1>0, <1>2 DEF DeleteCluster, DropMonitor, DropDaemon, TypeOK, caches, work, locals
<1>3. ASSUME NEW h \in Hosts, EvictPod(h) \/ DeleteNode(h) PROVE TypeOK'
  BY <1>0, <1>3 DEF EvictPod, DeleteNode, TypeOK, PodStates, caches, work, locals
<1>4. CASE Fail
  BY <1>0, <1>4, ReturnTyped DEF Fail, Requeue, TypeOK, objects, caches
<1>5. CASE Restart
  BY <1>0, <1>5, ReturnTyped DEF Restart, TypeOK, objects
<1> QED
  BY <1>1, <1>2, <1>3, <1>4, <1>5 DEF Environment

LEMMA BeginTyped ==
  ASSUME TypeOK, Begin
  PROVE  TypeOK'
BY DEF Begin, Found, TypeOK, objects, caches, locals

LEMMA StepTyped == TypeOK /\ [Next]_vars => TypeOK'
<1> SUFFICES ASSUME TypeOK, [Next]_vars PROVE TypeOK'
  OBVIOUS
<1>1. CASE UNCHANGED vars
  BY <1>1 DEF vars, objects, caches, work, locals, TypeOK
<1>2. CASE Reconcile
  BY <1>2, MonitorTyped, AgentTyped, NodesTyped DEF Reconcile
<1> QED
  BY <1>1, <1>2, BeginTyped, RuntimeTyped, KubernetesTyped, EnvironmentTyped DEF Next

\* ClusterController keeps its types: in particular the worker always has a
\* VitastorCluster while it reconciles, and a Deployment when it updates one.
THEOREM TypeCorrect == Spec => []TypeOK
BY InitTyped, StepTyped, PTL DEF Spec

-----------------------------------------------------------------------------
(* NothingForgotten.  As long as the deployment is not what the cached
   VitastorCluster asks for, the reconcile is due or on its way, or the cached
   Deployment or DaemonSet is an old one, and the event that replaces it makes
   the reconcile due. *)

MonitorDone ==
    /\ monitorCache # None
    /\ \/ /\ monitorCache.image = clusterCache.spec.monitor
          /\ monitorCache.replicas = clusterCache.spec.replicas
       \/ monitorCache # monitor

\* Only its status can change in a DaemonSet without the worker.
DaemonDone ==
    /\ daemonCache # None
    /\ \/ daemonCache.image = clusterCache.spec.agent
       \/ daemon = None \/ daemon.image # daemonCache.image

\* After the image: if it was updated, the second update cannot bring back what
\* is in the cache.
MonitorHalf ==
    /\ monitorCache # None
    /\ monitorDeployment.image = clusterCache.spec.monitor
    /\ \/ monitorDeployment = monitorCache
       \/ monitorDeployment.image # monitorCache.image /\ monitor # monitorCache

\* A reconcile that nothing has overtaken, step by step.
InHand ==
    /\ clusterCache # None /\ vitastorCluster = clusterCache
    /\ pc = "image" => monitorCache # None /\ monitorDeployment = monitorCache
    /\ pc = "replicas" => MonitorHalf
    /\ pc \in {"agent", "nodes"} => MonitorDone
    /\ pc = "nodes" => DaemonDone

Attended ==
    \/ queue
    \/ pc # "idle" /\ InHand
    \/ pc = "idle" /\ (delayed \/ clusterCache = None \/ (MonitorDone /\ DaemonDone))

LEMMA InitAttended == Init => Attended
BY DEF Init, Attended

LEMMA BeginAttended ==
    ASSUME TypeOK, Begin
    PROVE  Attended'
BY DEF Begin, Found, Attended, InHand, objects, caches, locals, TypeOK

\* A step on the objects alone: it may take the Deployment or the DaemonSet away,
\* or report the pods.
LEMMA ObjectsAttended ==
    ASSUME TypeOK, Attended, UNCHANGED <<clusterCache, monitorCache, daemonCache, work, pc, locals>>,
           monitor' \in {monitor, None},
           daemon' = None \/ (daemon # None /\ daemon'.image = daemon.image) \/ daemon' = daemon
    PROVE  Attended'
<1> USE DEF work, locals
<1>1. MonitorDone => MonitorDone'
  BY DEF MonitorDone
<1>2. DaemonDone => DaemonDone'
  BY DEF DaemonDone
<1>3. MonitorHalf => MonitorHalf'
  BY DEF MonitorHalf
<1>4. InHand => InHand'
  BY <1>1, <1>2, <1>3 DEF InHand
<1> QED
  BY <1>1, <1>2, <1>4 DEF Attended

\* An update goes on with the copy it has written, or ends in a requeue.
LEMMA ImageAttended ==
    ASSUME TypeOK, Attended, MonitorImage, ~queue'
    PROVE  Attended'
<1> DEFINE d == [monitorDeployment EXCEPT !.image = vitastorCluster.spec.monitor]
<1>1. /\ pc' = "replicas" /\ monitorDeployment' = d
      /\ monitor' = IF d = monitorDeployment THEN monitor ELSE d
      /\ UNCHANGED <<caches, work, vitastorCluster>>
      /\ d # monitorDeployment => monitor = monitorDeployment
  BY DEF MonitorImage, UpdateMonitor, Requeue
<1>2. InHand /\ monitorDeployment = monitorCache /\ monitorCache # None /\ monitorCache \in Deploy
  BY <1>1 DEF Attended, InHand, MonitorImage, work, TypeOK
<1>3. d.image = clusterCache.spec.monitor /\ d.replicas = monitorCache.replicas /\ d \in Deploy
  BY <1>2, EditedTyped DEF InHand, Deploy, TypeOK, Cluster, Settings
<1>4. d # monitorDeployment => d.image # monitorCache.image
  BY <1>2, <1>3 DEF Deploy
<1> HIDE DEF d
<1>5. MonitorHalf'
  BY <1>1, <1>2, <1>3, <1>4 DEF MonitorHalf, caches
<1> QED
  BY <1>1, <1>2, <1>5 DEF Attended, InHand, caches

LEMMA ReplicasAttended ==
    ASSUME TypeOK, Attended, MonitorReplicas, ~queue'
    PROVE  Attended'
<1> DEFINE d == [monitorDeployment EXCEPT !.replicas = WantedReplicas]
<1>1. /\ pc' = "agent"
      /\ monitor' = IF d = monitorDeployment THEN monitor ELSE d
      /\ UNCHANGED <<caches, work, vitastorCluster>>
      /\ d # monitorDeployment => monitor = monitorDeployment
  BY DEF MonitorReplicas, UpdateMonitor, Requeue
<1>2. InHand /\ MonitorHalf /\ monitorDeployment \in Deploy
  BY <1>1 DEF Attended, InHand, MonitorReplicas, work, TypeOK
<1>3. d.image = monitorDeployment.image /\ d.replicas = clusterCache.spec.replicas
  BY <1>2 DEF InHand, WantedReplicas, Deploy
<1> HIDE DEF d
<1>4. MonitorDone'
  BY <1>1, <1>2, <1>3 DEF MonitorHalf, MonitorDone, caches
<1> QED
  BY <1>1, <1>2, <1>4 DEF Attended, InHand, caches

LEMMA AgentAttended ==
    ASSUME TypeOK, Attended, Agent, ~queue'
    PROVE  Attended'
<1>1. UNCHANGED <<monitor, caches, queue>> /\ pc = "agent"
  BY DEF Agent, Requeue, RequeueAfter, work
<1>2. InHand /\ MonitorDone
  BY <1>1 DEF Attended, InHand
<1>3. CASE daemonCache = None
  BY <1>1, <1>3 DEF Agent, Requeue, RequeueAfter, Return, Attended
<1>4. CASE daemonCache # None
  <2>1. /\ pc' = "nodes" /\ UNCHANGED vitastorCluster
        /\ daemon' = IF daemonCache.image = vitastorCluster.spec.agent THEN daemon
                     ELSE [daemon EXCEPT !.image = vitastorCluster.spec.agent]
        /\ daemonCache.image # vitastorCluster.spec.agent => daemon = daemonCache
    BY <1>4 DEF Agent, Requeue
  <2>2. DaemonDone'
    <3>1. CASE daemonCache.image = vitastorCluster.spec.agent
      BY <1>1, <1>2, <1>4, <3>1 DEF DaemonDone, InHand, caches
    <3>2. CASE daemonCache.image # vitastorCluster.spec.agent
      <4>1. daemon \in Daemon
        BY <1>4, <2>1, <3>2 DEF TypeOK
      <4>2. daemon'.image # daemonCache.image
        BY <2>1, <3>2, <4>1 DEF Daemon
      <4> QED
        BY <1>1, <1>4, <4>2 DEF DaemonDone, caches
    <3> QED
      BY <3>1, <3>2
  <2>3. MonitorDone'
    BY <1>1, <1>2 DEF MonitorDone, caches
  <2> QED
    BY <1>1, <1>2, <2>1, <2>2, <2>3 DEF Attended, InHand, caches
<1> QED
  BY <1>3, <1>4

LEMMA ReconcileAttended ==
    ASSUME TypeOK, Attended, Reconcile
    PROVE  Attended'
<1>1. CASE queue'
  BY <1>1 DEF Attended
<1>2. CASE ~queue'
  <2>1. ~CreateMonitor
    BY <1>2 DEF CreateMonitor, Requeue
  <2>2. ASSUME Finish \/ \E h \in Hosts : Visit(h)
        PROVE  Attended'
    <3>1. /\ UNCHANGED <<monitor, daemon, caches, work>> /\ pc = "nodes" /\ todo' \in [Hosts -> PodStates]
          /\ pc' = "idle" \/ (pc' = "nodes" /\ UNCHANGED <<vitastorCluster, monitorDeployment>>)
      BY <1>2, <2>2 DEF Finish, Visit, Done, Requeue, Return, NoPods, PodStates, objects, work, TypeOK
    <3>2. InHand /\ MonitorDone /\ DaemonDone
      BY <1>2, <3>1 DEF Attended, InHand, work
    <3>3. MonitorDone' /\ DaemonDone'
      BY <3>1, <3>2 DEF MonitorDone, DaemonDone, caches
    <3> QED
      BY <3>1, <3>2, <3>3 DEF Attended, InHand, caches
  <2> QED
    BY <1>2, <2>1, <2>2, ImageAttended, ReplicasAttended, AgentAttended DEF Reconcile
<1> QED
  BY <1>1, <1>2

LEMMA RuntimeAttended ==
    ASSUME TypeOK, Attended, Runtime
    PROVE  Attended'
<1>1. CASE SyncCluster \/ SyncMonitor \/ SyncDaemon \/ Wake \/ \E h \in Hosts : SyncNode(h)
  BY <1>1 DEF SyncCluster, SyncMonitor, SyncDaemon, Wake, SyncNode, Attended
<1>2. CASE Resync
  <2>1. CASE queue'
    BY <2>1 DEF Attended
  <2>2. CASE ~queue'
    <3>1. queue \in BOOLEAN /\ queue' = (queue \/ clusterCache # None)
      BY <1>2 DEF Resync, TypeOK
    <3>2. queue' = queue
      BY <2>2, <3>1
    <3> QED
      BY <1>2, <3>2, ObjectsAttended DEF Resync, objects, caches, work, locals
  <2> QED
    BY <2>1, <2>2
<1>3. CASE \E h \in Hosts : SyncPod(h)
  BY <1>3, ObjectsAttended DEF SyncPod, objects, work, locals
<1> QED
  BY <1>1, <1>2, <1>3 DEF Runtime

LEMMA KubernetesAttended ==
    ASSUME TypeOK, Attended, Kubernetes
    PROVE  Attended'
<1>1. CASE ReportPods
  <2>1. daemon # None /\ daemon'.image = daemon.image
    BY <1>1 DEF ReportPods, TypeOK, Daemon
  <2> QED
    BY <1>1, <2>1, ObjectsAttended DEF ReportPods, caches
<1>2. CASE ~ReportPods
  BY <1>2, ObjectsAttended DEF Kubernetes, Collect, CollectMonitor, CollectDaemon, CollectNode,
     MakePod, BindPod, RemovePod, caches
<1> QED
  BY <1>1, <1>2

LEMMA EnvironmentAttended ==
    ASSUME TypeOK, Attended, Environment
    PROVE  Attended'
<1>1. CASE Fail \/ Restart
  BY <1>1 DEF Fail, Restart, Requeue, Attended
<1>2. CASE ~Fail /\ ~Restart
  BY <1>2, ObjectsAttended DEF Environment, CreateCluster, EditCluster, DeleteCluster, DropMonitor,
     DropDaemon, EvictPod, DeleteNode, caches
<1> QED
  BY <1>1, <1>2

LEMMA StepAttended == TypeOK /\ Attended /\ [Next]_vars => Attended'
<1>1. TypeOK /\ Attended /\ UNCHANGED vars => Attended'
  BY ObjectsAttended DEF vars, objects, caches
<1> QED
  BY <1>1, BeginAttended, ReconcileAttended, RuntimeAttended, KubernetesAttended, EnvironmentAttended DEF Next

LEMMA QuietIsDeployed == TypeOK /\ Attended => NothingForgotten
<1> SUFFICES ASSUME TypeOK, Attended, Quiet PROVE Deployed
  BY DEF NothingForgotten
<1>1. CASE cluster = None
  BY <1>1 DEF Quiet, Live, Deployed
<1>2. CASE cluster # None
  <2>1. MonitorDone /\ DaemonDone
    BY <1>2 DEF Attended, Quiet
  <2>2. monitor \in Deploy /\ daemon \in Daemon
    BY <2>1 DEF TypeOK, MonitorDone, DaemonDone, Quiet
  <2>3. /\ monitor.owner = cluster.uid /\ monitor.image = cluster.spec.monitor
        /\ monitor.replicas = cluster.spec.replicas
        /\ daemon.owner = cluster.uid /\ daemon.image = cluster.spec.agent
    BY <2>1, <2>2 DEF Quiet, Live, MonitorDone, DaemonDone
  <2>4. monitor = MonitorConfiguration(cluster)
    BY <2>2, <2>3 DEF Deploy, MonitorConfiguration
  <2> QED
    BY <1>2, <2>2, <2>3, <2>4 DEF Deployed
<1> QED
  BY <1>1, <1>2

\* The VitastorCluster is never left half deployed: whatever is edited, dropped,
\* collected or fails in whatever order, as long as the monitors and the agents
\* are not what it asks for, Reconcile is due, running or about to be woken by an
\* event or by its RequeueAfter.
THEOREM NoneIsForgotten == Spec => []NothingForgotten
BY InitAttended, StepAttended, TypeCorrect, QuietIsDeployed, PTL DEF Spec
=============================================================================
