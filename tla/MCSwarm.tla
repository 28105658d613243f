------------------------------ MODULE MCSwarm ------------------------------
(***************************************************************************)
(* Instances of Swarm for TLC.  Hosts differ in nothing but their names,   *)
(* so it is no loss to let them register for the first time in one order;  *)
(* unlike a SYMMETRY set this is also sound for liveness.  One start more  *)
(* than there are hosts lets any one of them come back.                    *)
(***************************************************************************)
EXTENDS Swarm

CONSTANTS
    n1, n2, n3, n4,
    MaxStarts    \* how often clients are started, all together (a bound)

FirstCome == <<n1, n2, n3, n4>>

InOrder == \A j \in DOMAIN members' : members'[j] = FirstCome[j]

MayStart == MapThenSumSet(LAMBDA n : run[n], Node) < MaxStarts

OrderedNext ==
    \E n \in Node : (RequestPeers(n) /\ InOrder /\ MayStart) \/ ClientStep(n) \/ OverrunPasses(n) \/ Crash(n)

OrderedSafety == Init /\ [][OrderedNext]_vars

OrderedSpec == OrderedSafety /\ \A n \in Node : WF_vars(ClientStep(n))
=============================================================================
