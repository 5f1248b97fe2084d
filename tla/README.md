# TLA+ models of vitastor-operator

This directory holds TLA+ specifications of the operator in `src/`, the TLC
configurations that check them and proofs that TLAPS checks. The code is the
reference: every definition that models code is mapped to its lines in
`PROJECT.json`, and the comments name the function or the line where it matters.

## The system

vitastor-operator (Go, controller-runtime 0.13) deploys the Vitastor block store
on Kubernetes. One process (`main.go`) runs four controllers with one worker
each. On every host an *agent* (`agent/vitastor-agent.py`, FastAPI) reads the
host's disks.

| component | state | operations | works with |
|---|---|---|---|
| VitastorCluster controller (`controllers/vitastorcluster_controller.go`) | Deployment `vitastor-monitor`, DaemonSet `vitastor-agent`, a VitastorNode per host with an agent pod; `/config/placement_levels` in etcd | write the levels; create or update the monitor and the agent; create missing VitastorNodes | makes what the VitastorNode controller watches |
| VitastorNode controller (`controllers/vitastornode_controller.go`) | status of the VitastorNode, the VitastorOSDs of the host, `/config/node_placement` in etcd | link the host to its dc in the tree; ask the agent for disks; update the status; create, place, update and delete VitastorOSDs | agent (HTTP), etcd, makes what the VitastorOSD controller watches |
| VitastorOSD controller (`controllers/vitastorosd_controller.go`) | a StatefulSet per VitastorOSD | create it, update its image | Kubernetes deletes it with its owner |
| VitastorPool controller (`controllers/vitastorpool_controller.go`) | `/config/pools` in etcd, a StorageClass per VitastorPool | write the pool's entry, create the StorageClass | etcd; Kubernetes deletes it with its owner |
| agent (`agent/vitastor-agent.py`) | none of its own | list disks, empty disks, OSD partitions (`read-sb` on each); prepare a disk | called by the VitastorNode controller and by users |
| manager (`main.go`) | caches, work queues, timers | start, restart; leader election, off by default | all controllers |
| API types (`api/v1`), manifests (`config`, `deploy`) | | | static |

What makes it hard: every read of a Kubernetes object goes to a cache that
lags, and every write to the API server; objects that are deleted and made again
keep their name; a delete names an object and nothing more; the etcd maps are
read, changed and written back whole without a transaction; a reconcile can end
with an error, or with the process, between any two calls; what repairs that is
whatever queues the key again.

What makes each component correct: the objects match what is asked for once
things stop changing, and stay so; no OSD that serves is taken away on the way;
no entry of an etcd map is lost; what refers to something (a tree entry, a
StorageClass) never refers to something that is not there; an object is never
mistaken for another of the same name. The hazards are listed with their lines
in `PROJECT.json`.

## Modules

| module | what it models | run by | proofs |
|---|---|---|---|
| `OsdLifecycle` | the promise: the object of a disk is provided, and withdrawn only after the disk has left | | |
| `NodeController` | VitastorNode controller, with the agent's answers, the caches and the garbage collector as it sees them; implements `OsdLifecycle` | `MCNodeController` | `NodeControllerProofs`, `NodeServingProofs`, `NodeLifecycleProofs` |
| `OsdController` | VitastorOSD controller | itself | `OsdControllerProofs` |
| `Operator` | the process with both of these, over the same VitastorOSDs, cache and restarts; extends `NodeController`, instantiates `OsdController` | `MCOperator` | `OperatorProofs` |
| `PoolController` | VitastorPool controller | `MCPoolController` | `PoolControllerProofs` |
| `ClusterController` | VitastorCluster controller, with the DaemonSet controller and the scheduler as it sees them | itself | `ClusterControllerProofs` |
| `Agent` | the agent of one host: the three questions of the VitastorNode controller, `POST /disk/prepare`, the host's disks | `MCAgent` | `AgentProofs` |

### How a controller is modelled

*Actions.* One action is one call that leaves the process and can fail, with the
local work around it. `Begin` takes a key from the queue and reads what the
reconcile reads first; each action of `Reconcile` is one more call; the
variables under "worker" are the function's local variables, under their names.
Every `return` goes through `Return`, which clears them, and says what happens to
the key: `ReturnErr` and `Requeue` (an error or `Requeue: true`) queue it again,
`ReturnAfter` sets a timer, `Done` forgets it. `NotFound` at the start forgets
it too (`client.IgnoreNotFound`).

*API server and caches.* An object is a record, or `None`; `xCache` is what the
informer has of `x`. `SyncX` brings one object up to date and queues the key, or
the owner's key, that its watch event names. Several changes of one object may be
delivered as one, as the informer's queue does; then an object that is created
and deleted in between causes no event, so liveness is checked against less than
the informer guarantees. An update from a copy is refused if the object differs
from the copy. That stands for the check of `resourceVersion`, but for an object
that was changed and changed back; the update then succeeds here and would be
refused and repeated in the code.

*Deletes* carry a name only: `DeleteOsd` in `NodeController` deletes whatever has
the name then (`NotFound` is an error). Kubernetes deletes objects whose owner,
by uid, is gone (`Collect...`).

*Failures.* `Fail` ends a reconcile with an error from wherever it is. Since it
can come before or after the action of a call, it covers a call that failed and
one that took effect and lost its answer. The exception is a call whose success ends the
reconcile other than with an error or `Requeue` (`UpdateImage`, `UpdateSts`, `PutPools` with
the StorageClass there, the creation of the DaemonSet): `Fail` cannot come after
it. A lost answer of it would queue the key at once, which the event of
the object written does too; for the pool map it would write the same entry again. `Restart` loses the worker, the queue and the
timers and lists all caches anew. `AgentError` is a non-200 answer of the agent,
`SuperblockUnread` a `read-sb` that failed on one partition.

*Data.* Images, layouts, hosts, disks are model values. The three lists in the
VitastorNode's status are one value, the OSD disks: what an update or a conflict
does is the same for each. A VitastorNode has the name of its
`spec.nodeName`, as the VitastorCluster controller makes them. In `OsdController`
the host stands for the path too. A layout is all of a pool's fields that reach
etcd. The order of Go's map iteration is free (the parent of a host with
several matching labels, the pods of the agent list, the OSDs of an answer).
Labels, agent pods and Node objects are what the caches have of them.

*Timers.* `UPDATE_INTERVAL` (15 minutes unless set) is taken to be longer than
the 3 minutes of an image update, so the queue keeps the latter when both are set.

### NodeController

`where` says which host each OSD partition is plugged into. `Begin` reads the
VitastorNode, the Node and the tree and links the host; `PutHost` writes the
tree; `AskAgent` (or `NoAgent`) gets the answer; `Report` updates the status if
it differs and lists the VitastorOSDs of the host from the cache; `Visit` is one
turn of the create loop up to the read of the tree and `PutOsd` its write;
`DeleteOsd`, `UpdateImage` and `Finish` are the last loop. `serving` is a history
variable: the VitastorOSDs made for a disk that was there and has not left since,
and that no user, and no deleted VitastorNode, took away.

`OsdLifecycle` knows disks and hosts only. `L == INSTANCE OsdLifecycle WITH ...`
maps a disk's object to `none`, `serving` or `retired` (`Stage`), and
`Lifecycle == L!Spec` is a property: a delete by a name, from an old list, through a
lagging cache, is always the withdrawal of an object whose disk has left.

### OsdController, PoolController

`Begin` reads both cached objects (and, for a pool, the map from etcd), and each
write is an action. `edited` is a history variable for the objects whose host or
id a user has changed: neither controller follows such an edit (see below), and
the properties leave out just that.

### Operator

`OsdController` takes a VitastorOSD's comings and goings as disturbances; here they
are what `NodeController` does, so a disk's way from the agent's answer to a running
daemon is in one model. `Node(A)` and `Osd(A)` are the steps of the two; `SyncObject`
is the one watch event both controllers get; `RestartBoth` is the process. The
VitastorNode controller looks at no uid of a VitastorOSD, so uids are a variable of
`Operator` (`Object` puts them together). They are only ever compared, so a new one is
the least that nothing refers to (`NewUid`): the state space is finite without a bound.
The garbage collector acts on StatefulSets only, as no VitastorNode is deleted here.

### ClusterController

`UpdateMonitor` is the two updates of one Deployment from one copy. The agent's
DaemonSet is read from the cache in the step that writes it; nothing else in the
process touches it. A pod goes from pending to bound; the DaemonSet's status is
what the controller is told of pods, since it does not watch them.

### Agent

One action is what happens from one `await` to the next. A tool that looks is a look at
the host. `GET /disk/osd` is `ListPartitions`, a `ReadSuperblock` per partition and
`AnswerOsds`, with everything else in between; `stayed` and `seen` are history variables
that say what a right answer has at least and at most. `UpdateStatus` is the
controller's end of it. A `POST /disk/prepare` is `Post` (with its look at the disk),
`Refuse` or `StartTool` (the decision), the tool's own steps `Partition`, `Format`,
`ToolGivesUp`, and `Answer`. `overlap` records whether another request for the disk was
open between a request's look and its decision. `NodeController` takes the answer in one
step instead (`AskAgent`); that an answer is of no one moment is there the case of
`SuperblockUnread`, an answer that lacks a partition which is there.

## Runs

`MaxDisturb` bounds how many disturbances happen in one behaviour (users,
hardware, failures, restarts), `Disturbances` which kinds. Nothing else is
bounded: queues are sets, caches hold one version, uids grow only with
disturbances. With two disturbances in `NodeConverges` and `OperatorServes` TLC has the
pairs the hazards need: a disk that leaves and comes back or moves, a failure or a
restart while one comes or goes. A move is two disturbances already (`Detach` and
`Attach`), so with these bounds it meets no failure and no restart. The safety properties
of these runs are proved for every bound, so only their liveness is affected: three
disturbances, even of fewer kinds, are beyond a run's time. `AgentAnswers` has
three, and `OsdMatches` five: delete and create of one name with edits, failures
and restarts in between.

| run | specification and bounds | shows |
|---|---|---|
| `NodeConverges` | `FairSpec`; 2 hosts, a disk each, a dc; plugging, labels, failures, restarts; 2 | `KeepsServing`, `TreeClosed`, `HostsAttended`, `NothingForgotten`, `KeepsPlacement`, `Lifecycle`, `EventuallyConverged`, `EventuallyPlaced`, `EventuallySettled`: with no resync, the objects and the tree come to match the disks, and then no value changes any more |
| `NodeUpkeep` | `ResyncSpec`; 1 host, 2 disks, 2 dcs, 2 images; labels, restarts and the kinds that `NodeConverges` leaves out; 2 | `TypeOK`, `EventuallyConverged`, `EventuallySettled`: also with labels of both dcs at once |
| `OsdMatches` | `FairSpec`; 1 name, 2 hosts, 2 images; all kinds; 5 | `TypeOK`, `OwnedOnItsHost`, `NothingForgotten`, `EventuallyMatches` |
| `PoolSettles` | `FairSpec`; 2 pools, 2 ids, one of which both may have, 2 layouts, any pools of others in the map; all kinds; 2 | `TypeOK`, `OfferedIsConfigured`, `OwnedOffersItsPool`, `NothingForgotten`, `KeepsPools`, `EventuallyOffered`, `EventuallyLaidOut` |
| `ClusterDeploys` | `FairSpec`; no hosts, 2 images, 2 replica counts; all kinds that need no host; 2 | `TypeOK`, `NothingForgotten`, `EventuallyDeployed` |
| `ClusterNodes` | `ResyncSpec`; 2 hosts, the pod of one always pending; evictions, deleted VitastorNodes, failures, restarts; 2 | `EventuallyNodes` |
| `ClusterOwners` | `ResyncSpec`; 1 host; the VitastorCluster deleted and made again; 2 | `EventuallyNodes` |
| `OperatorServes` | `FairOperator`; 2 hosts, 1 disk that fits into either and begins in the first; plugging, failures of either controller, restarts; 2 | `DaemonWithItsDisk`, `NoDaemonForgotten`, `EventuallyServed`: one daemon per disk, on its host, whatever is left of the one before |
| `AgentAnswers` | `FairSpec`; a disk with room for 2 OSDs and a mapped volume, 2 clients; all kinds; 3 | `AnswerBounded`, `ClashNeedsOverlap`, `EventuallyReported` |

In `OsdMatches` the names do not interact but for sharing the worker, so one name
with more disturbances says more than two with fewer. `ClusterDeploys`,
`ClusterNodes` and `ClusterOwners` are one controller asked three questions: with all
kinds and hosts together the state space is beyond a run's time. The hosts of
`OperatorServes` are alike, so the disk begins in the first; a disk that is in neither
is what a `Detach` leaves.

`ClusterDeploys` has no hosts, and `ClusterNodes` and `ClusterOwners` no edits of the image,
so no run has an update of the DaemonSet that conflicts with a change of its status. The proof
of `NoneIsForgotten` of `ClusterController` has that case; liveness through it is not checked: a run with a host and
edits of images is beyond the time of one.

`EventuallySettled` says that values stop changing, not that writing stops: every
reconcile of the timers puts the host, and each of its OSDs, into the tree again
(vitastornode_controller.go:176, 320, 360), as `PutHost` and `PutOsd` do. The
exception it makes, a host with labels of two dcs, is needed: without it TLC finds the
host's parent going to and fro for ever in `NodeUpkeep`.

`NothingForgotten` is the part of convergence that needs no fairness, so it can be
proved: an object with nothing outstanding (`Quiet`: no request, no event of it or of
what it owns, nothing to collect) has what it asks for. With fairness, what is outstanding
comes to an end, and that is the liveness property next to it, which TLC checks. In
`NodeController` "what it asks for" is the list of disks in the status; that the
status follows the disks is the timer's work, and `HostsAttended` says that it is never lost.

The safety properties of `NodeConverges`, `OsdMatches`, `PoolSettles`,
`ClusterDeploys`, `OperatorServes` and `AgentAnswers` are proved for every bound (below).

Three runs find what the code does against its own words; the findings in
`PROJECT.json` quote them:

- `NodeHttpError`: one HTTP error from the agent deletes every VitastorOSD of
  the host (the status code and the error of `json.Unmarshal` are ignored).
- `NodeStaleDelete`: a disk moves; the new host's reconcile makes the
  VitastorOSD anew, and the old host's, late, deletes that one by its name.
- `NodeStuck`: a disk with the number of a removed one blocks the host for ever.

Known divergences with no run, since there is no behaviour to check: the code
does nothing at these places. `spec.osdImage` of a VitastorCluster reaches no
existing VitastorNode; `nodeName` and `osdPath` of a VitastorOSD and `id` of a
VitastorPool reach no existing StatefulSet or StorageClass; four fields of a pool
(`maxOSDCombinations`, `blockSize`, `immediateCommit`, `osdTags`) never reach
etcd; `disksReconciligPeriod` is used nowhere. The paths in the VitastorNode's status
come after as many empty strings (`make([]string, n)` and then `append`,
vitastornode_controller.go:219, 243, 267); they are the same at each reconcile, so
nothing but a reader of the status meets them. `config/crd` makes VitastorPool a
namespaced kind, whose objects the controller cannot get by name only; the
models follow `deploy/003-vitastor-crd.yaml`, where it is cluster-scoped.

Three more that the models show:

- A host with two labels that match has the parent that comes last in the loop over a Go
  map (vitastornode_controller.go:154), so its place in the tree changes from one
  reconcile to the next, for ever. `EventuallyPlaced` accepts either dc and
  `EventuallySettled` leaves the parent of such a host out.

- The 3-minute wait between image updates of one host ("Updated OSD image, waiting for
  changes to apply", vitastornode_controller.go:381) is cut short: the update is an
  event of an owned object and queues the host at once. In `NodeController`,
  `SyncOsd` after `UpdateImage` enables `Begin`.
- `prepare_disk_for_vitastor` looks at the disk and then awaits the tool, so two
  overlapping requests for one disk both find it unpartitioned and both start
  `vitastor-disk prepare` (vitastor-agent.py:121-128). `ClashNeedsOverlap` states the
  most that holds; without `overlap[c]` TLC finds the two requests in five steps.

### Fairness

`FairSpec` assumes that the worker runs, watches deliver, timers fire and the
garbage collector works (weak fairness of each), and that a queued key is taken
in the end (strong fairness of `Begin` for each key: it is enabled only between
reconciles, and the queue is first in, first out). No fairness is assumed of
users, hardware or failures. In `ClusterController` a pod of the list is visited
in the end (strong fairness of `Visit`): the list comes from a Go map, whose order
is random, so a pending pod, which ends the loop with an error, is not the first
for ever. `ResyncSpec` adds the informers' resync, every 10 hours by default. The runs
that use it need it: a VitastorNode's key whose Node object was missing is
forgotten, and a pod that is bound after the DaemonSet reported it is seen only
by a later reconcile. `FairOperator` assumes of the steps of both controllers what
each module assumes of its own. In `Agent` the event loop runs, tools end and the
controller asks again (weak fairness of `Poll` and of each request); that it asks
again is what `FairSpec` of `NodeController` gives: every reconcile ends with a timer or
with the key in the queue.

## Proofs

TLAPS proves, for any number of hosts, disks, labels, images and disturbances, of
`NodeController`:

- `TypeCorrect`: `Spec => []TypeOK` (`NodeControllerProofs`), by induction, an
  action at a time. `NodeAssumption` is the only assumption.
- `PlacementKept`: `Spec => KeepsPlacement`. The invariant is `CopyKeeps`: a copy
  of the tree in the worker's hands has an entry wherever etcd has one. It holds
  because only the worker writes the tree (`OthersKeepTree`) and it adds to the
  copy and removes nothing. With a second writer it would not.
- `TreeStaysClosed`: `Spec => []TreeClosed`, if hosts, dcs and numbers are
  different names (`Disjoint`). `TreeInv` adds that the copy is closed too, and that
  between the first write and the end of the reconcile the host is in the tree,
  which is what makes it right to hang an OSD under it.
- `HostsStayAttended`: `Spec => []HostsAttended`, where Node objects stay ("kube" is
  not among the disturbances): `NotFound` of one drops the request (line 131), and
  with "kube" TLC finds the host without request or timer.
- `ServingIsKept`: `Spec => []KeepsServing` (`NodeServingProofs`), if every disk
  fits into one host and no two disks have one number (`OneHome`), and the agent
  answers right or not at all (`FixedDisks` is both). The delete names an object of a
  list that is old twice, from the cache and since it was made, so the proof follows
  objects through the cache into the list. `HomeInv`, which needs no condition, says that
  every version of an object named k, wherever it is held, is of a disk numbered k on
  a host it fits into (`Objects`), that a disk is where it fits (`Plugged`), and that the
  answer and the list are of the worker's host (`Answered`). `ServeInv` adds that a
  serving object is there, with its disk (`InPlace`), and that a serving object of the
  worker's host has its disk in the answer (`Told`). So a listed object without its
  disk in the answer is not named like a serving one. `NodeStaleDelete` and
  `NodeHttpError` violate `KeepsServing` without the first and the last condition.
- `NoneIsForgotten`: `Spec => []NothingForgotten` (`NodeServingProofs`), on `OneHome` and
  that no VitastorOSD is deleted by others and no agent or Node object goes away
  (`Steady`); the agent's answers may be wrong. `HomeInv` is needed again: an object in
  the way of a create is then the object wanted. `ForgetInv` says of every host that it is
  queued, or in the worker's hands with copies that no event is about to outdate
  (`InHand`), or at rest: with a timer for an image, a new status not yet seen
  (`StatusNew`), or nothing to do by the caches but for objects whose event is still to
  come (`AllDone`). `Current` is the hard part: while the worker creates and
  deletes by its list, the list is what the cache has, less what it deleted itself.
  Each condition is needed: TLC violates `NothingForgotten` without it.
  A VitastorOSD that a user deletes before the cache has it is created and gone in one event,
  which queues nobody; a host without an agent, or without a Node object, and the old
  host of a disk that moved wait for the interval. All of these do converge, by
  the timer or the resync, which `NodeUpkeep` checks, and `OperatorServes` for a disk that
  moves.
- `ImplementsLifecycle`: `Spec => Lifecycle` (`NodeLifecycleProofs`), on the
  conditions of `ServingIsKept` and that nobody but the operator deletes VitastorOSDs or VitastorNodes
  (`NoDeletes`). Initial states map to initial states and every step to one of the life
  cycle of one disk, or to none (`StepMaps`); `HomeInv` and `ServeInv` rule out that a
  delete hits a serving object, and `Adopted` (every owner reference is of the one VitastorNode the
  host has had) that the garbage collector does (`NothingCollected`).

Of `OsdController` (`OsdControllerProofs`), from `OsdAssumption`:

- `TypeCorrect`: `Spec => []TypeOK`.
- `OwnedStaysOnItsHost`: `Spec => []OwnedOnItsHost`. Alone it is not inductive: what
  keeps a late create from putting a StatefulSet where the new VitastorOSD would
  own it is known only of the versions in the cache and in the worker's hands.
  `HostInv` says of each of them, and of the StatefulSet, that if its uid is that of
  the present VitastorOSD then so is its host, and that every uid seen so far is less
  than the next (`OldUids`), so a new VitastorOSD owns nothing yet.
- `NoneIsForgotten`: `Spec => []NothingForgotten`. `AttendedInv` says that every name is
  queued, in the worker's hands, settled by the caches, or has a StatefulSet whose event is
  still to come; and that the StatefulSet in the worker's hands is the cached one, or its
  name is due again (`FoundIsCached`). The last part is what makes it right to requeue
  nothing after the update: an update from a stale copy fails, and one from a fresh copy
  makes an event. `HostInv` adds the host.

Of `PoolController` (`PoolControllerProofs`), from `PoolAssumption`:

- `TypeCorrect`: `Spec => []TypeOK`.
- `PoolsKept` and `OfferedStaysConfigured`: `Spec => KeepsPools` and
  `Spec => []OfferedIsConfigured`, both from `MapInv`: the map in the worker's hands
  has its pool and whatever etcd has (`CopyKeeps`), and the entry is in etcd before the
  StorageClass is made (`WrittenFirst`). As for the tree, it rests on the worker
  being the only writer.
- `OwnedKeepsItsPool`: `Spec => []OwnedOffersItsPool`, along the lines of `HostInv`.
- `NoneIsForgotten`: `Spec => []NothingForgotten`. Here `AttendedInv` has to follow the map:
  the entry of a settled name is in etcd unless others may have its id (`EntryWritten`),
  the map about to be written is etcd's with the worker's pool (`FreshCopies`), and
  the pool is the cached one or its name is due again.

Of `Operator` (`OperatorProofs`), from `NodeAssumption` and `OperatorAssumption`:

- `DaemonStaysWithItsDisk`: `OperatorSpec => []DaemonWithItsDisk`, if no two disks have
  one number; disks may move. `Seen` takes the host from the disk to the VitastorOSD: an
  OSD in the answer that serves is still where it was asked for. `Agreed` takes it from
  there to the StatefulSet: whatever bears the uid of the present VitastorOSD (the cached
  one, the copy in the worker, the StatefulSet) has its host. A new VitastorOSD starts with
  nothing of its uid, which is `NewUidIsNew`: of seven uids at most six are referred to.
- `DaemonsAreNotForgotten`: `OperatorSpec => []NoDaemonForgotten`, on the same condition.
  In `OsdController` VitastorOSDs come and go by disturbances; here the other controller
  makes and deletes them, so `DueInv` (`AttendedInv` in the terms of `Operator`) is shown
  to survive its steps, and `Agreed` adds the host. Here no user edits a VitastorOSD.
- `WholeImplementsLifecycle`, `WholeKeepsTree` and `WholeForgetsNone`: `Lifecycle`,
  `KeepsPlacement` with `TreeClosed`, and `NothingForgotten` of `NodeController`, on
  the same conditions as there, hold of `OperatorSpec`. It does not implement
  `Spec`: the event of a VitastorOSD that was made again just as it was differs in the uid
  only, which `NodeController` does not have, and failures of the second controller cost
  budget. `WholeStep` shows that a step of the whole is one of `NodeController` or `Aside`,
  which leaves all but queue and budget alone, and each invariant survives that.

Of `Agent` (`AgentProofs`), from `AgentAssumption`:

- `TypeCorrect`: `Spec => []TypeOK`.
- `AnswersAreBounded`: `Spec => []AnswerBounded`. While the loop runs (`Reading`), an OSD
  partition that stayed is in the answer or still to be read.
- `ClashesNeedOverlap`: `Spec => ClashNeedsOverlap`. The invariant `ClashInv` says that a
  request which found no partitions and has not been overlapped still has a disk without.

Of `ClusterController` (`ClusterControllerProofs`), from `ClusterAssumption`:

- `TypeCorrect`: `Spec => []TypeOK`.
- `NoneIsForgotten`: `Spec => []NothingForgotten`. The worker goes through two objects
  in one reconcile, so its invariant (`Attended`) says at each step which of the two is already
  done, by the caches, unless the request is due again; after the creation of the
  DaemonSet it is the 5-minute timer that brings the worker back.

What stays with TLC: liveness under fairness (every `Eventually...`), which TLAPS cannot
prove here, and the three violations. Every invariant and every action property of the
passing runs is stated by a theorem, the ones of `NodeController` on the conditions above.

## Not modelled

- Two operator processes at once, which happens in a rollout as leader election is off
  by default (main.go:60), and other writers of the etcd maps (`vitastor-cli`). The
  proofs of `KeepsPlacement` and `KeepsPools` rest on there being one writer
  (`OthersKeepTree`, `CopyKeeps`): with a second one neither holds.
- An HTTP call without a timeout that never returns: it blocks the only worker, and
  every liveness property fails.
- In `Agent`: the delay between `vitastor-disk prepare` and `lsblk` or `/dev` showing the
  partitions, people who partition a disk by hand, an `lsblk` that fails.
- More than one VitastorCluster; the agent's pod and address when there are two pods.
- Panics on malformed labels, on a port that is no number or on a deleted etcd key.
- Configuration files, environment variables, logging, RBAC, health endpoints;
  generated code, the test suite's API server and the manifests, which are static.
