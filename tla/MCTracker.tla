----------------------------- MODULE MCTracker -----------------------------
(***************************************************************************)
(* Instances of Tracker for TLC: four connections from three addresses, so *)
(* that a client that comes back (c1 and c4) meets two others.             *)
(***************************************************************************)
EXTENDS Tracker, TLC

CONSTANTS c1, c2, c3, c4, a1, a2, a3

MCIp == {a1, a2, a3}

FourConns == {c1, c2, c3, c4}

IpOfAll == (c1 :> a1) @@ (c2 :> a2) @@ (c3 :> a3) @@ (c4 :> a1)

MCIpOf == [c \in Conn |-> IpOfAll[c]]
=============================================================================
