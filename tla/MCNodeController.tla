-------------------------- MODULE MCNodeController --------------------------
(***************************************************************************)
(* Instances of NodeController for TLC.                                    *)
(***************************************************************************)
EXTENDS NodeController, TLC

CONSTANTS n1, n2, p1, p2, o1, o2

\* Two disks with numbers of their own.
OwnNumbers == (p1 :> o1) @@ (p2 :> o2)

\* Both disks belong to host n1; one to each host; both fit either host.
OneHost  == (p1 :> {n1}) @@ (p2 :> {n1})
HostEach == (p1 :> {n1}) @@ (p2 :> {n2})
AnyHost  == (p1 :> {n1, n2}) @@ (p2 :> {n1, n2})

\* The second disk got the number of the first, which was purged.
Reused == (p1 :> o1) @@ (p2 :> o1)
=============================================================================
