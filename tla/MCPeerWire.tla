----------------------------- MODULE MCPeerWire -----------------------------
(* Instances of PeerWire for TLC. *)
EXTENDS PeerWire

NoGarbage == {{}}

\* What later steps and the invariants can depend on: nothing but the number of
\* connections once the client has ended; until then a reset only of a connection
\* that still has an entry, the message just sent only if it is a piece, and of the
\* requests for a piece on an entry that start-up prepared only the first.
FirstAsked ==
    {a \in asked : /\ PreparedEntry(a[1])
                   /\ \A b \in asked : b[1] = a[1] /\ b[3] = a[3] => a[2] <= b[2]}

Relevant ==
    IF life # "running" THEN <<life, arrived>>
    ELSE <<fds, conn, arrived, loop, testFreed, FirstAsked,
           IF out[1] = "PIECE" THEN out ELSE Silent, {k \in Slot : fds[k] \in gone}>>
=============================================================================
