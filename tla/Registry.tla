------------------------------ MODULE Registry ------------------------------
(***************************************************************************)
(* What the tracker promises its clients, with no sockets, no linked list  *)
(* and no byte buffer: a registry of addresses in which one indivisible    *)
(* step registers the caller and tells it who registered before.           *)
(*                                                                         *)
(*   members   the registered addresses                                    *)
(*   served    the connections that have been answered                     *)
(*   view      what each of them was told                                  *)
(*   open      FALSE once the service has ended                            *)
(***************************************************************************)
CONSTANTS Conn,     \* client connections, each one run of a client
          Ip,       \* addresses
          ipOf      \* the address a connection comes from

VARIABLES members, served, view, open

regVars == <<members, served, view, open>>

RegInit ==
    /\ members = {}
    /\ served = {}
    /\ view = [c \in Conn |-> {}]
    /\ open = TRUE

\* A connection is answered at most once, with every member but itself, and is
\* a member from the same step on.
Lookup(c) ==
    /\ open
    /\ c \notin served
    /\ members' = members \cup {ipOf[c]}
    /\ served' = served \cup {c}
    /\ view' = [view EXCEPT ![c] = members \ {ipOf[c]}]
    /\ UNCHANGED open

\* The service ends and forgets its members; the answers stay with the clients.
Shutdown ==
    /\ open
    /\ open' = FALSE
    /\ members' = {}
    /\ UNCHANGED <<served, view>>

RegNext == (\E c \in Conn : Lookup(c)) \/ Shutdown

RegSpec == RegInit /\ [][RegNext]_regVars
=============================================================================
