------------------------- MODULE MCThreadedTracker -------------------------
(***************************************************************************)
(* Instances of ThreadedTracker for TLC.  A process that has ended, one    *)
(* way or another, takes no step, and the count byte only goes out with    *)
(* the reply: the invariants speak of it while no handlers have raced.     *)
(***************************************************************************)
EXTENDS ThreadedTracker

Relevant ==
    IF life # "running" THEN <<life, overlapped>>
    ELSE <<accepted, args, sock, clients, numClients, overlapped,
           IF overlapped THEN [t \in Thread |-> [thread[t] EXCEPT !.count = 0]] ELSE thread>>
=============================================================================
