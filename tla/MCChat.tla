------------------------------- MODULE MCChat -------------------------------
(***************************************************************************)
(* An instance of Chat for TLC: the program of one of three peers, which   *)
(* loses packets and is restarted.  The others are alike.                  *)
(***************************************************************************)
EXTENDS Chat

OtherPeers == Permutations(Peer \ Client)
=============================================================================
