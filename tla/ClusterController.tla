-------------------------- MODULE ClusterController --------------------------
(***************************************************************************)
(* The VitastorCluster controller (controllers/                            *)
(* vitastorcluster_controller.go): from the one VitastorCluster object it  *)
(* makes the monitor's Deployment and the agents' DaemonSet, keeps their   *)
(* images and the number of monitors, and makes a VitastorNode for every   *)
(* host that has an agent pod.  It watches the objects it makes, but not   *)
(* the pods: that there is a new pod it learns from the DaemonSet's status *)
(* or from the next reconcile that something else causes.                  *)
(*                                                                         *)
(* The DaemonSet controller and the scheduler are modelled as far as this  *)
(* controller sees them: they make pods, bind them to hosts and report.    *)
(***************************************************************************)
EXTENDS Naturals

CONSTANTS
    Hosts,          \* hosts with the label of spec.vitastorNodeLabel
    Unschedulable,  \* hosts whose agent pod stays pending
    Images,         \* container images
    Replicas,       \* numbers of monitors
    None,           \* an absent object
    Disturbances,   \* the kinds of disturbance a run allows ...
    MaxDisturb      \* ... and how many of them happen in one behaviour

Kinds == {"create", "delete", "edit", "drop", "evict", "nodedelete", "fail", "restart"}

\* A pod is made without spec.nodeName; the scheduler fills it in.
PodStates == {"none", "pending", "bound"}

Settings == [monitor: Images, replicas: Replicas, agent: Images, osd: Images]
Cluster  == [uid: Nat, spec: Settings]
Deploy   == [owner: Nat, image: Images, replicas: Replicas]
Daemon   == [owner: Nat, image: Images, status: [Hosts -> PodStates]]
VNode    == [owner: Nat, image: Images]

ASSUME ClusterAssumption ==
    /\ Unschedulable \subseteq Hosts
    /\ Disturbances \subseteq Kinds
    /\ MaxDisturb \in Nat
    /\ None \notin Cluster /\ None \notin Deploy /\ None \notin Daemon /\ None \notin VNode

VARIABLES
    levels,         \* etcd: /config/placement_levels holds the levels
    cluster,        \* API server: the VitastorCluster, ...
    monitor,        \* ... the Deployment vitastor-monitor, ...
    daemon,         \* ... the DaemonSet vitastor-agent, ...
    node,           \* ... the VitastorNode of a host, ...
    pod,            \* ... and the agent pod of a host
    clusterCache, monitorCache, daemonCache, nodeCache, podCache,
    queue,          \* the VitastorCluster is due
    delayed,        \* ... or will be, in 5 minutes
    pc,
    vitastorCluster,    \* the VitastorCluster read from the cache
    monitorDeployment,  \* the Deployment read from the cache
    todo,           \* the hosts, and pod states, the loop has not visited yet
    nextUid,        \* uid of the next VitastorCluster
    budget          \* disturbances left

objects == <<cluster, monitor, daemon, node, pod>>
caches  == <<clusterCache, monitorCache, daemonCache, nodeCache, podCache>>
work    == <<queue, delayed>>
locals  == <<vitastorCluster, monitorDeployment, todo>>
vars    == <<levels, objects, caches, work, pc, locals, nextUid, budget>>

TypeOK ==
    /\ levels \in BOOLEAN
    /\ cluster \in Cluster \cup {None} /\ clusterCache \in Cluster \cup {None}
    /\ monitor \in Deploy \cup {None} /\ monitorCache \in Deploy \cup {None}
    /\ daemon \in Daemon \cup {None} /\ daemonCache \in Daemon \cup {None}
    /\ node \in [Hosts -> VNode \cup {None}] /\ nodeCache \in [Hosts -> VNode \cup {None}]
    /\ pod \in [Hosts -> PodStates] /\ podCache \in [Hosts -> PodStates]
    /\ queue \in BOOLEAN /\ delayed \in BOOLEAN
    /\ pc \in {"idle", "createMonitor", "image", "replicas", "agent", "nodes"}
    /\ vitastorCluster \in Cluster \cup {None} /\ (pc # "idle" => vitastorCluster # None)
    /\ monitorDeployment \in Deploy \cup {None}
    /\ (pc \in {"image", "replicas"} => monitorDeployment # None)
    /\ todo \in [Hosts -> PodStates]
    /\ nextUid \in Nat /\ budget \in Nat

-----------------------------------------------------------------------------
(* Reconcile *)

NoPods == [h \in Hosts |-> "none"]

Return ==
    /\ pc' = "idle"
    /\ vitastorCluster' = None /\ monitorDeployment' = None /\ todo' = NoPods

\* Result{}, nil.
Done == Return /\ UNCHANGED work

\* Result{Requeue: true}, nil and Result{}, err.
Requeue == Return /\ queue' = TRUE /\ UNCHANGED delayed

\* Mutant: nothing comes back after 5 minutes.
RequeueNever == Return /\ UNCHANGED work

\* Result{RequeueAfter: 5 minutes}, nil.
RequeueAfter == Return /\ delayed' = TRUE /\ UNCHANGED queue

\* Mutant: the VitastorCluster of a request is taken to exist.
FoundAlways == TRUE
Found == clusterCache # None

\* Write the levels to etcd, whether the VitastorCluster exists or not; then
\* read it and the Deployment.
Begin ==
    /\ pc = "idle" /\ queue
    /\ queue' = FALSE
    /\ levels' = TRUE
    /\ IF ~Found
       THEN UNCHANGED <<pc, locals>>
       ELSE /\ pc' = IF monitorCache = None THEN "createMonitor" ELSE "image"
            /\ vitastorCluster' = clusterCache
            /\ monitorDeployment' = monitorCache
            /\ UNCHANGED todo
    /\ UNCHANGED <<objects, caches, delayed, nextUid, budget>>

\* getMonitorConfiguration and getAgentConfiguration, with SetControllerReference.
MonitorConfiguration(c) ==
    [owner |-> c.uid, image |-> c.spec.monitor, replicas |-> c.spec.replicas]
AgentConfiguration(c) == [owner |-> c.uid, image |-> c.spec.agent, status |-> NoPods]

CreateMonitor ==
    /\ pc = "createMonitor"
    /\ monitor' = IF monitor = None THEN MonitorConfiguration(vitastorCluster) ELSE monitor
    /\ Requeue
    /\ UNCHANGED <<levels, cluster, daemon, node, pod, caches, nextUid, budget>>

\* Write d over the Deployment if the copy differs from it and go on at next;
\* a Deployment that has changed since it was read is a conflict, an error.
UpdateMonitor(d, next) ==
    IF d # monitorDeployment /\ monitor # monitorDeployment
    THEN Requeue /\ UNCHANGED monitor
    ELSE /\ monitor' = IF d = monitorDeployment THEN monitor ELSE d
         /\ monitorDeployment' = d
         /\ pc' = next
         /\ UNCHANGED <<work, vitastorCluster, todo>>

MonitorImage ==
    /\ pc = "image"
    /\ UpdateMonitor([monitorDeployment EXCEPT !.image = vitastorCluster.spec.monitor], "replicas")
    /\ UNCHANGED <<levels, cluster, daemon, node, pod, caches, nextUid, budget>>

\* Mutant: the number of monitors is written only when they are made.
WantedReplicasOnce == monitorDeployment.replicas
WantedReplicas == vitastorCluster.spec.replicas

MonitorReplicas ==
    /\ pc = "replicas"
    /\ UpdateMonitor([monitorDeployment EXCEPT !.replicas = WantedReplicas], "agent")
    /\ UNCHANGED <<levels, cluster, daemon, node, pod, caches, nextUid, budget>>

\* Make the DaemonSet and come back in 5 minutes, or update its image and list
\* the agent pods.
Agent ==
    /\ pc = "agent"
    /\ IF daemonCache = None
       THEN IF daemon = None
            THEN /\ daemon' = AgentConfiguration(vitastorCluster)
                 /\ RequeueAfter
            ELSE Requeue /\ UNCHANGED daemon
       ELSE IF daemonCache.image # vitastorCluster.spec.agent /\ daemon # daemonCache
            THEN Requeue /\ UNCHANGED daemon
            ELSE /\ daemon' = IF daemonCache.image = vitastorCluster.spec.agent THEN daemon
                              ELSE [daemon EXCEPT !.image = vitastorCluster.spec.agent]
                 /\ todo' = podCache
                 /\ pc' = "nodes"
                 /\ UNCHANGED <<work, vitastorCluster, monitorDeployment>>
    /\ UNCHANGED <<levels, cluster, monitor, node, pod, caches, nextUid, budget>>

\* getVitastorNodeConfiguration and SetControllerReference.
NodeConfiguration(c) == [owner |-> c.uid, image |-> c.spec.osd]

\* Mutant: the VitastorNode of a bound pod is taken to exist.
MissingIfPending(h) == todo[h] = "pending"

\* The pod names no host, or a host without a VitastorNode in the cache.
Missing(h) == todo[h] = "pending" \/ nodeCache[h] = None

\* One iteration of the loop over the pods, in any order: the list comes from
\* a Go map.  A pod that is not bound has an empty spec.nodeName; no VitastorNode
\* is found under that name, and none can be made.
Visit(h) ==
    /\ pc = "nodes" /\ todo[h] # "none"
    /\ IF ~Missing(h)
       THEN todo' = [todo EXCEPT ![h] = "none"] /\ UNCHANGED <<node, work, pc, vitastorCluster, monitorDeployment>>
       ELSE IF todo[h] = "bound" /\ node[h] = None
            THEN /\ node' = [node EXCEPT ![h] = NodeConfiguration(vitastorCluster)]
                 /\ todo' = [todo EXCEPT ![h] = "none"]
                 /\ UNCHANGED <<work, pc, vitastorCluster, monitorDeployment>>
            ELSE Requeue /\ UNCHANGED node
    /\ UNCHANGED <<levels, cluster, monitor, daemon, pod, caches, nextUid, budget>>

Finish ==
    /\ pc = "nodes" /\ todo = NoPods
    /\ Done
    /\ UNCHANGED <<levels, objects, caches, nextUid, budget>>

Reconcile ==
    \/ CreateMonitor \/ MonitorImage \/ MonitorReplicas \/ Agent \/ Finish
    \/ \E h \in Hosts : Visit(h)

-----------------------------------------------------------------------------
(* controller-runtime *)

\* The watch events of the VitastorCluster and of the objects it owns queue it.
SyncCluster ==
    /\ clusterCache # cluster
    /\ clusterCache' = cluster /\ queue' = TRUE
    /\ UNCHANGED <<levels, objects, monitorCache, daemonCache, nodeCache, podCache, delayed, pc, locals, nextUid, budget>>

SyncMonitor ==
    /\ monitorCache # monitor
    /\ monitorCache' = monitor /\ queue' = TRUE
    /\ UNCHANGED <<levels, objects, clusterCache, daemonCache, nodeCache, podCache, delayed, pc, locals, nextUid, budget>>

SyncDaemon ==
    /\ daemonCache # daemon
    /\ daemonCache' = daemon /\ queue' = TRUE
    /\ UNCHANGED <<levels, objects, clusterCache, monitorCache, nodeCache, podCache, delayed, pc, locals, nextUid, budget>>

SyncNode(h) ==
    /\ nodeCache[h] # node[h]
    /\ nodeCache' = [nodeCache EXCEPT ![h] = node[h]] /\ queue' = TRUE
    /\ UNCHANGED <<levels, objects, clusterCache, monitorCache, daemonCache, podCache, delayed, pc, locals, nextUid, budget>>

\* The pods are cached for List, and their events queue nothing.
SyncPod(h) ==
    /\ podCache[h] # pod[h]
    /\ podCache' = [podCache EXCEPT ![h] = pod[h]]
    /\ UNCHANGED <<levels, objects, clusterCache, monitorCache, daemonCache, nodeCache, work, pc, locals, nextUid, budget>>

\* The 5 minutes are over.
Wake ==
    /\ delayed
    /\ delayed' = FALSE /\ queue' = TRUE
    /\ UNCHANGED <<levels, objects, caches, pc, locals, nextUid, budget>>

\* The informers' periodic resync.
Resync ==
    /\ queue' = (queue \/ clusterCache # None)
    /\ UNCHANGED <<levels, objects, caches, delayed, pc, locals, nextUid, budget>>

Runtime ==
    \/ SyncCluster \/ SyncMonitor \/ SyncDaemon \/ Wake \/ Resync
    \/ \E h \in Hosts : SyncNode(h) \/ SyncPod(h)

-----------------------------------------------------------------------------
(* Kubernetes *)

\* The DaemonSet controller makes and removes the pods and reports them; the
\* scheduler binds them.
MakePod(h) ==
    /\ daemon # None /\ pod[h] = "none"
    /\ pod' = [pod EXCEPT ![h] = "pending"]
    /\ UNCHANGED <<levels, cluster, monitor, daemon, node, caches, work, pc, locals, nextUid, budget>>

BindPod(h) ==
    /\ pod[h] = "pending" /\ h \notin Unschedulable
    /\ pod' = [pod EXCEPT ![h] = "bound"]
    /\ UNCHANGED <<levels, cluster, monitor, daemon, node, caches, work, pc, locals, nextUid, budget>>

RemovePod(h) ==
    /\ daemon = None /\ pod[h] # "none"
    /\ pod' = [pod EXCEPT ![h] = "none"]
    /\ UNCHANGED <<levels, cluster, monitor, daemon, node, caches, work, pc, locals, nextUid, budget>>

ReportPods ==
    /\ daemon # None
    /\ daemon' = [daemon EXCEPT !.status = pod]
    /\ UNCHANGED <<levels, cluster, monitor, node, pod, caches, work, pc, locals, nextUid, budget>>

\* The garbage collector deletes what a VitastorCluster that is gone owned.
Live(uid) == cluster # None /\ cluster.uid = uid

CollectMonitor ==
    /\ monitor # None /\ ~Live(monitor.owner)
    /\ monitor' = None
    /\ UNCHANGED <<levels, cluster, daemon, node, pod, caches, work, pc, locals, nextUid, budget>>

CollectDaemon ==
    /\ daemon # None /\ ~Live(daemon.owner)
    /\ daemon' = None
    /\ UNCHANGED <<levels, cluster, monitor, node, pod, caches, work, pc, locals, nextUid, budget>>

CollectNode(h) ==
    /\ node[h] # None /\ ~Live(node[h].owner)
    /\ node' = [node EXCEPT ![h] = None]
    /\ UNCHANGED <<levels, cluster, monitor, daemon, pod, caches, work, pc, locals, nextUid, budget>>

Collect == CollectMonitor \/ CollectDaemon \/ \E h \in Hosts : CollectNode(h)

Kubernetes ==
    \/ ReportPods \/ Collect
    \/ \E h \in Hosts : MakePod(h) \/ BindPod(h) \/ RemovePod(h)

-----------------------------------------------------------------------------
(* Disturbances, MaxDisturb times *)

Disturb(kind) == kind \in Disturbances /\ budget > 0 /\ budget' = budget - 1

CreateCluster(s) ==
    /\ Disturb("create")
    /\ cluster = None
    /\ cluster' = [uid |-> nextUid, spec |-> s]
    /\ nextUid' = nextUid + 1
    /\ UNCHANGED <<levels, monitor, daemon, node, pod, caches, work, pc, locals>>

DeleteCluster ==
    /\ Disturb("delete")
    /\ cluster # None
    /\ cluster' = None
    /\ UNCHANGED <<levels, monitor, daemon, node, pod, caches, work, pc, locals, nextUid>>

\* A user edits the VitastorCluster.
EditCluster(s) ==
    /\ Disturb("edit")
    /\ cluster # None /\ cluster.spec # s
    /\ cluster' = [cluster EXCEPT !.spec = s]
    /\ UNCHANGED <<levels, monitor, daemon, node, pod, caches, work, pc, locals, nextUid>>

\* A user deletes the Deployment or the DaemonSet.
DropMonitor ==
    /\ Disturb("drop")
    /\ monitor # None
    /\ monitor' = None
    /\ UNCHANGED <<levels, cluster, daemon, node, pod, caches, work, pc, locals, nextUid>>

DropDaemon ==
    /\ Disturb("drop")
    /\ daemon # None
    /\ daemon' = None
    /\ UNCHANGED <<levels, cluster, monitor, node, pod, caches, work, pc, locals, nextUid>>

EvictPod(h) ==
    /\ Disturb("evict")
    /\ pod[h] # "none"
    /\ pod' = [pod EXCEPT ![h] = "none"]
    /\ UNCHANGED <<levels, cluster, monitor, daemon, node, caches, work, pc, locals, nextUid>>

DeleteNode(h) ==
    /\ Disturb("nodedelete")
    /\ node[h] # None
    /\ node' = [node EXCEPT ![h] = None]
    /\ UNCHANGED <<levels, cluster, monitor, daemon, pod, caches, work, pc, locals, nextUid>>

\* A call returns an error: it failed, or it took effect and the answer was lost.  The
\* second is not there for the creation of the DaemonSet, which ends the reconcile with a
\* timer: a lost answer of it would only queue the request, as the DaemonSet's event does.
Fail ==
    /\ Disturb("fail")
    /\ pc # "idle"
    /\ Requeue
    /\ UNCHANGED <<levels, objects, caches, nextUid>>

Restart ==
    /\ Disturb("restart")
    /\ Return
    /\ clusterCache' = cluster /\ monitorCache' = monitor /\ daemonCache' = daemon
    /\ nodeCache' = node /\ podCache' = pod
    /\ queue' = TRUE /\ delayed' = FALSE
    /\ UNCHANGED <<levels, objects, nextUid>>

Environment ==
    \/ \E s \in Settings : CreateCluster(s) \/ EditCluster(s)
    \/ DeleteCluster \/ DropMonitor \/ DropDaemon \/ Fail \/ Restart
    \/ \E h \in Hosts : EvictPod(h) \/ DeleteNode(h)

-----------------------------------------------------------------------------
(* The operator has just started, with a VitastorCluster of which nothing is
   deployed yet. *)

Init ==
    /\ levels = FALSE
    /\ cluster \in [uid: {0}, spec: Settings]
    /\ monitor = None /\ daemon = None
    /\ node = [h \in Hosts |-> None]
    /\ pod = NoPods
    /\ clusterCache = cluster /\ monitorCache = None /\ daemonCache = None
    /\ nodeCache = node /\ podCache = pod
    /\ queue = TRUE /\ delayed = FALSE
    /\ pc = "idle" /\ vitastorCluster = None /\ monitorDeployment = None /\ todo = NoPods
    /\ nextUid = 1
    /\ budget = MaxDisturb

Next == Begin \/ Reconcile \/ Runtime \/ Kubernetes \/ Environment

Spec == Init /\ [][Next]_vars

\* The worker runs, watches deliver and Kubernetes works; a Go map is listed in
\* a random order, so no pod is the last one for ever.
Fairness ==
    /\ WF_vars(Begin) /\ WF_vars(Reconcile)
    /\ WF_vars(SyncCluster) /\ WF_vars(SyncMonitor) /\ WF_vars(SyncDaemon) /\ WF_vars(Wake)
    /\ WF_vars(ReportPods) /\ WF_vars(Collect)
    /\ \A h \in Hosts :
         /\ SF_vars(Visit(h))
         /\ WF_vars(SyncNode(h)) /\ WF_vars(SyncPod(h))
         /\ WF_vars(MakePod(h)) /\ WF_vars(BindPod(h)) /\ WF_vars(RemovePod(h))

FairSpec == Spec /\ Fairness

\* The resync comes every 10 hours, so only a run that needs it assumes it.
ResyncSpec == FairSpec /\ WF_vars(Resync)

-----------------------------------------------------------------------------
(* Properties *)

\* The monitors and the agents run as the VitastorCluster asks, or are gone with
\* it.
Deployed ==
    IF cluster = None
    THEN monitor = None /\ daemon = None
    ELSE /\ monitor = MonitorConfiguration(cluster)
         /\ daemon # None
         /\ daemon.owner = cluster.uid /\ daemon.image = cluster.spec.agent

\* "move the current state of the cluster closer to the desired state"
\* (vitastorcluster_controller.go:61): so it is once the disturbances end, ...
EventuallyDeployed == <>[]Deployed

\* ... every host with an agent has its VitastorNode, however late its pod was
\* bound, and no VitastorNode of another VitastorCluster is left.
EventuallyNodes ==
    <>[](\A h \in Hosts :
           /\ cluster # None /\ pod[h] = "bound" => node[h] # None
           /\ node[h] # None => Live(node[h].owner))

\* Nothing is left to happen to the Deployment and the DaemonSet: nothing is due,
\* now or in 5 minutes, no watch event of them or of the VitastorCluster is under
\* way, and neither is to be collected.
Quiet ==
    /\ ~queue /\ ~delayed /\ pc = "idle"
    /\ clusterCache = cluster /\ monitorCache = monitor /\ daemonCache = daemon
    /\ monitor # None => Live(monitor.owner)
    /\ daemon # None => Live(daemon.owner)

\* The VitastorCluster is not forgotten half deployed.  The end of a reconcile
\* requeues nothing, and a DaemonSet that is deleted before its creation is seen
\* makes no event: only the RequeueAfter (vitastorcluster_controller.go:172)
\* brings the worker back to it.
NothingForgotten == Quiet => Deployed
=============================================================================
