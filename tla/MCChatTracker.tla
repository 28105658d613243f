--------------------------- MODULE MCChatTracker ---------------------------
(***************************************************************************)
(* Instances of ChatTracker for TLC.  What a block holds that no thread    *)
(* can come to makes no difference: the view leaves it out.                *)
(***************************************************************************)
EXTENDS ChatTracker, TLC

PeerAndNodeSymmetry == Permutations(Peer) \cup Permutations(Node)

\* The removed blocks that ping_output() may still step on.
AheadOf(w) == {b \in Node : w # NoNode /\ (b = w \/ (w \notin Entries /\ b = heap[w].next))}

InReach ==
    LET w == thread["output"].walk
        n == IF w = NoNode \/ w \in Entries THEN NoNode ELSE heap[w].next
    IN  Entries \cup AheadOf(w) \cup AheadOf(n) \cup {thread["main"].new}

Blank == [key |-> NoPeer, room |-> 0, alive |-> FALSE, next |-> NoNode]

Reachable ==
    <<peers, [b \in Node |-> IF b \in Entries THEN [heap[b] EXCEPT !.next = NoNode]
                             ELSE IF b \in InReach THEN heap[b] ELSE Blank],
      {b \in leaked : Held(b)}, thread, marking, up, undefined>>
=============================================================================
