---------------------------- MODULE OsdLifecycle ----------------------------
(***************************************************************************)
(* What the VitastorNode controller promises of the VitastorOSD of a disk, *)
(* with no operator, cache or agent in sight: disks come and go, an object *)
(* is provided for a disk and withdrawn again, and what is withdrawn is    *)
(* only ever an object whose disk has left since it was provided.  A disk  *)
(* that leaves and returns may find its old object or get a new one.       *)
(***************************************************************************)
CONSTANTS
    Disks,
    Hosts,
    None            \* the place of a disk that is nowhere

VARIABLES
    place,          \* the host a disk is in, or None
    object          \* "none", "serving", or "retired": its disk has left

lifecycle == <<place, object>>

Plug(d, h) ==
    /\ place[d] = None
    /\ place' = [place EXCEPT ![d] = h]
    /\ UNCHANGED object

Unplug(d) ==
    /\ place[d] # None
    /\ place' = [place EXCEPT ![d] = None]
    /\ object' = [object EXCEPT ![d] = IF @ = "serving" THEN "retired" ELSE @]

\* The operator may provide an object for a disk that is about to be gone.
Provide(d) ==
    /\ object[d] = "none"
    /\ object' = [object EXCEPT ![d] = IF place[d] = None THEN "retired" ELSE "serving"]
    /\ UNCHANGED place

Withdraw(d) ==
    /\ object[d] = "retired"
    /\ object' = [object EXCEPT ![d] = "none"]
    /\ UNCHANGED place

Init == place \in [Disks -> Hosts \cup {None}] /\ object = [d \in Disks |-> "none"]

Next ==
    \E d \in Disks :
      \/ Unplug(d) \/ Provide(d) \/ Withdraw(d)
      \/ \E h \in Hosts : Plug(d, h)

Spec == Init /\ [][Next]_lifecycle
=============================================================================
