------------------------------ MODULE Tracker ------------------------------
(***************************************************************************)
(* The tracker server (src/src/tracker_serv.c) and both ends of its        *)
(* protocol (src/src/tracker.c).                                           *)
(*                                                                         *)
(* The server is one sequential process: it accepts one connection, blocks *)
(* in recv() until that connection delivers something, handles it, frees   *)
(* the buffer and accepts the next one.  It never closes an accepted       *)
(* socket.  Connections made in the meantime wait in the listen queue.     *)
(*                                                                         *)
(* A member of Conn is one connection, that is one run of a client.  Two   *)
(* connections may come from one address: a client that was restarted, or  *)
(* two clients behind the same address.                                    *)
(***************************************************************************)
EXTENDS Integers, FiniteSets, Sequences

CONSTANTS
    Conn,          \* connections
    Ip,            \* client addresses
    ipOf,          \* the address inet_ntoa() gives for a connection
    CountModulus,  \* values of the count byte of a reply: 256 in the code
    MaxFds,        \* client sockets the server process may hold open
    Backlog,       \* length of the listen queue: 10 in the code
    MaxPeers,      \* addresses the client's peer_buf has room for: 10 in the code
    MayVanish,     \* connections whose host may drop off without a FIN
    NoConn         \* the server serves no connection

ASSUME ConnAssumption == IsFiniteSet(Conn) /\ MayVanish \subseteq Conn /\ NoConn \notin Conn
ASSUME IpAssumption == ipOf \in [Conn -> Ip]
ASSUME BoundsAssumption ==
    /\ CountModulus \in Nat \ {0}
    /\ MaxFds \in Nat \ {0}
    /\ Backlog \in Nat \ {0}
    /\ MaxPeers \in Nat \ {0}

VARIABLES
    srv,         \* where main() of the server is
    cur,         \* client_socket, while the server is in recvMsg()
    list,        \* the linked list from c_head on, as a sequence of addresses
    numClients,  \* numClients
    backlog,     \* connections the kernel completed and accept() has not taken
    accepted,    \* client sockets of the server, all of them still open
    st,          \* where each client is
    sent,        \* the message a client wrote to its socket
    answered,    \* connections sendData() wrote a reply to
    reply,       \* that reply
    peers        \* what requestPeers() stored for the client

server == <<srv, cur, list, numClients, accepted>>
client == <<st, sent, peers>>
replies == <<answered, reply>>
vars == <<srv, cur, list, numClients, backlog, accepted, st, sent, answered, reply, peers>>

(***************************************************************************)
(* The client list.                                                        *)
(***************************************************************************)
Present(l, ip) == \E i \in DOMAIN l : l[i] = ip

\* Mutant: the walk does not compare the last node.
addIfAbsentSkipsTail(l, n, ip) ==
    IF \E i \in 1..(Len(l) - 1) : l[i] = ip
    THEN [list |-> l, num |-> n]
    ELSE [list |-> Append(l, ip), num |-> n + 1]

\* addIfAbsent(): walk to the tail; a node with the same ip ends the walk, else
\* a new node becomes the tail and the counter goes up.
addIfAbsent(l, n, ip) ==
    IF Present(l, ip)
    THEN [list |-> l, num |-> n]
    ELSE [list |-> Append(l, ip), num |-> n + 1]

\* The list after a "list" request: the first client becomes the head.
Register(l, n, ip) ==
    IF n = 0 THEN [list |-> <<ip>>, num |-> 1] ELSE addIfAbsent(l, n, ip)

(***************************************************************************)
(* The reply.  sendClients() allocates numClients - 1 slots of IP_SIZE     *)
(* bytes, walks the list and copies every node but the requester's into    *)
(* the next slot.  The buffer is modelled as the set of <<slot, ip>>       *)
(* writes, so that a write past the last slot, and a slot that is sent     *)
(* without having been written, can both be seen.                          *)
(***************************************************************************)
\* Mutant: the walk stops one node early.
CopiedNodesShort(l, ignore_ip) == {i \in 1..(Len(l) - 1) : l[i] # ignore_ip}

CopiedNodes(l, ignore_ip) == {i \in DOMAIN l : l[i] # ignore_ip}

\* numIpsCopied when the walk reaches node i.
numIpsCopied(l, ignore_ip, i) == Cardinality({k \in CopiedNodes(l, ignore_ip) : k < i})

\* Mutant: a client that has nobody to hear of is not answered.
SendsClientsOthers(l, n) == n > 1 /\ Len(l) = n

\* The early returns of sendClients().
SendsClients(l, n) == n > 0 /\ Len(l) = n

\* The bytes handed to sendData(): the count is the low byte of an int.
sendClients(l, n, ignore_ip) ==
    [size  |-> n - 1,
     count |-> (n - 1) % CountModulus,
     data  |-> {<<numIpsCopied(l, ignore_ip, i), l[i]>> : i \in CopiedNodes(l, ignore_ip)}]

EmptyReply == [size |-> 0, count |-> 0, data |-> {}]

\* Mutant: the count is taken for the index of the last address.
requestPeersOffByOne(r) == {p[2] : p \in {q \in r.data : q[1] < r.count - 1}}

\* requestPeers(): as many slots as the count byte says.
requestPeers(r) == {p[2] : p \in {q \in r.data : q[1] < r.count}}

(***************************************************************************)
(* Client steps.                                                           *)
(***************************************************************************)
Running == srv \in {"accept", "recv"}

\* connect() to the tracker completes in the kernel, whatever the server does;
\* with a full queue the kernel retries it.
Connect(c) ==
    /\ st[c] = "new"
    /\ Running
    /\ Len(backlog) < Backlog
    /\ backlog' = Append(backlog, c)
    /\ st' = [st EXCEPT ![c] = "connected"]
    /\ UNCHANGED <<server, replies, sent, peers>>

\* connect() fails once the server is gone: the client exits.
ConnectRefused(c) ==
    /\ st[c] = "new"
    /\ ~Running
    /\ st' = [st EXCEPT ![c] = "failed"]
    /\ UNCHANGED <<server, backlog, replies, sent, peers>>

\* sendMsg() succeeds and the client blocks in recvMsg().
SendMsg(c, msg, next) ==
    /\ st[c] = "connected"
    /\ sent' = [sent EXCEPT ![c] = msg]
    /\ st' = [st EXCEPT ![c] = next]
    /\ UNCHANGED <<server, backlog, replies, peers>>

SendList(c) == SendMsg(c, "list", "asked")

SendJoin(c) == SendMsg(c, "join", "joining")

\* sendMsg() returns -1 because the server is gone: requestPeers() leaves
\* *numPeers at 0 and its caller goes on, joinTracker() just returns.
SendFails(c) ==
    /\ st[c] = "connected"
    /\ ~Running
    /\ st' = [st EXCEPT ![c] = "unasked"]
    /\ UNCHANGED <<server, backlog, replies, sent, peers>>

\* requestPeers() gets the reply and copies it into peer_buf.
RecvReply(c) ==
    /\ st[c] = "asked"
    /\ c \in answered
    /\ reply[c].count <= MaxPeers
    /\ peers' = [peers EXCEPT ![c] = requestPeers(reply[c])]
    /\ st' = [st EXCEPT ![c] = "done"]
    /\ UNCHANGED <<server, backlog, replies, sent>>

\* The copy does not look at the size of peer_buf: with more addresses than
\* it has room for it leaves the buffer, and nothing is known of the client.
RecvOverrun(c) ==
    /\ st[c] = "asked"
    /\ c \in answered
    /\ reply[c].count > MaxPeers
    /\ st' = [st EXCEPT ![c] = "overrun"]
    /\ UNCHANGED <<server, backlog, replies, sent, peers>>

\* The server is gone: recvMsg() hands back a buffer nothing was written to,
\* and the caller reads a count, or a "joined", from it all the same.
RecvNothing(c) ==
    /\ st[c] \in {"asked", "joining"}
    /\ c \notin answered
    /\ ~Running
    /\ st' = [st EXCEPT ![c] = "misread"]
    /\ UNCHANGED <<server, backlog, replies, sent, peers>>

\* The client process ends and its kernel sends a FIN.
Leave(c) ==
    /\ st[c] \in {"connected", "asked", "joining"}
    /\ st' = [st EXCEPT ![c] = "gone"]
    /\ UNCHANGED <<server, backlog, replies, sent, peers>>

\* The client's host drops off the network: nothing more comes from it, not
\* even a FIN.
Vanish(c) ==
    /\ c \in MayVanish
    /\ st[c] \in {"connected", "asked", "joining"}
    /\ st' = [st EXCEPT ![c] = "vanished"]
    /\ UNCHANGED <<server, backlog, replies, sent, peers>>

(***************************************************************************)
(* Server steps.                                                           *)
(***************************************************************************)
\* accept() returns the oldest connection in the queue.
Accept ==
    /\ srv = "accept"
    /\ backlog # << >>
    /\ Cardinality(accepted) < MaxFds
    /\ cur' = Head(backlog)
    /\ backlog' = Tail(backlog)
    /\ accepted' = accepted \cup {Head(backlog)}
    /\ srv' = "recv"
    /\ UNCHANGED <<list, numClients, client, replies>>

\* The process frees the list and exits.  c_head was never assigned if no client
\* registered: the walk then follows an uninitialised pointer, and may fault.
destroyClientList ==
    /\ srv' \in IF numClients = 0 THEN {"stopped", "crashed"} ELSE {"stopped"}
    /\ list' = << >>

\* accept() fails with EMFILE, and the loop ends.
AcceptFails ==
    /\ srv = "accept"
    /\ Cardinality(accepted) >= MaxFds
    /\ destroyClientList
    /\ backlog' = << >>
    /\ UNCHANGED <<cur, numClients, accepted, client, replies>>

\* What recv_msg may hold when recvMsg(c) returns.  recv() delivers what was
\* sent; at end of file it writes nothing, and the malloc()ed buffer holds
\* whatever an earlier use of that memory left there.  With neither it blocks.
RecvMsg(c) ==
    IF sent[c] # "nothing" THEN {sent[c]}
    ELSE IF st[c] = "gone" THEN {"zero", "list", "other"}
    ELSE {}

\* The end of the loop body: free(recv_msg); the socket stays open.
NextClient ==
    /\ srv' = "accept"
    /\ cur' = NoConn
    /\ UNCHANGED <<backlog, accepted, client>>

\* recv_msg[0] == 0, or a message that is not "list": nothing but a printf.
ServeOther ==
    /\ srv = "recv"
    /\ RecvMsg(cur) \ {"list"} # {}
    /\ NextClient
    /\ UNCHANGED <<list, numClients, replies>>

\* Mutant: a requester is answered and not registered.
ServeListForgets ==
    /\ srv = "recv"
    /\ "list" \in RecvMsg(cur)
    /\ LET r == Register(list, numClients, ipOf[cur])
       IN  /\ answered' = answered \cup {cur}
           /\ reply' = [reply EXCEPT ![cur] = sendClients(r.list, r.num, ipOf[cur])]
    /\ NextClient
    /\ UNCHANGED <<list, numClients>>

\* Mutant: the reply is made before the client is registered, and unchecked.
ServeListReplyFirst ==
    /\ srv = "recv"
    /\ "list" \in RecvMsg(cur)
    /\ LET r == Register(list, numClients, ipOf[cur])
       IN  list' = r.list /\ numClients' = r.num
    /\ answered' = answered \cup {cur}
    /\ reply' = [reply EXCEPT ![cur] = sendClients(list, numClients, ipOf[cur])]
    /\ NextClient

\* A "list" request: register the client, then send it the others.
ServeList ==
    /\ srv = "recv"
    /\ "list" \in RecvMsg(cur)
    /\ LET r == Register(list, numClients, ipOf[cur])
       IN  /\ list' = r.list
           /\ numClients' = r.num
           /\ IF SendsClients(r.list, r.num)
              THEN /\ answered' = answered \cup {cur}
                   /\ reply' = [reply EXCEPT ![cur] = sendClients(r.list, r.num, ipOf[cur])]
              ELSE UNCHANGED replies
    /\ NextClient

(***************************************************************************)
(* The specification.                                                      *)
(***************************************************************************)
\* The listener is open, and its queue empty.
configureSocket == srv = "accept" /\ backlog = << >>

Init ==
    /\ configureSocket
    /\ cur = NoConn
    /\ list = << >>
    /\ numClients = 0
    /\ accepted = {}
    /\ st = [c \in Conn |-> "new"]
    /\ sent = [c \in Conn |-> "nothing"]
    /\ answered = {}
    /\ reply = [c \in Conn |-> EmptyReply]
    /\ peers = [c \in Conn |-> {}]

ServerStep == Accept \/ AcceptFails \/ ServeOther \/ ServeList

ClientStep(c) ==
    \/ Connect(c) \/ ConnectRefused(c)
    \/ SendList(c) \/ SendJoin(c) \/ SendFails(c)
    \/ RecvReply(c) \/ RecvOverrun(c) \/ RecvNothing(c)
    \/ Leave(c) \/ Vanish(c)

Next == ServerStep \/ \E c \in Conn : ClientStep(c)

\* The server's loop has no step it may refuse to take; a client that
\* connected goes straight on to sendMsg(), and a reply that is there is read.
Fairness ==
    /\ WF_vars(ServerStep)
    /\ \A c \in Conn :
          /\ WF_vars(Connect(c))
          /\ WF_vars(SendList(c) \/ SendJoin(c) \/ SendFails(c) \/ Leave(c) \/ Vanish(c))
          /\ WF_vars(RecvReply(c) \/ RecvOverrun(c))

Safety == Init /\ [][Next]_vars

Spec == Safety /\ Fairness

(***************************************************************************)
(* Properties.                                                             *)
(***************************************************************************)
ClientState == {"new", "connected", "asked", "joining", "unasked", "done", "overrun",
                "failed", "misread", "gone", "vanished"}

\* The states are well formed, the listen queue and the table of open sockets
\* stay within their limits, and the server holds a socket while it is in recv().
TypeOK ==
    /\ srv \in {"accept", "recv", "stopped", "crashed"}
    /\ cur \in Conn \cup {NoConn}
    /\ srv = "recv" <=> cur # NoConn
    /\ list \in Seq(Ip)
    /\ numClients \in Nat
    /\ backlog \in Seq(Conn)
    /\ Len(backlog) <= Backlog
    /\ accepted \in SUBSET Conn
    /\ Cardinality(accepted) <= MaxFds
    /\ st \in [Conn -> ClientState]
    /\ sent \in [Conn -> {"nothing", "list", "join"}]
    /\ answered \in SUBSET Conn
    /\ reply \in [Conn -> [size : Nat, count : Nat, data : SUBSET (Nat \X Ip)]]
    /\ peers \in [Conn -> SUBSET Ip]

\* The counter main() keeps beside the list is the length of the list, and no
\* address is in the list twice: so the check in sendClients() that refuses to
\* answer never fires, and the requester is left out of exactly one slot.
ListWellFormed ==
    Running =>
        /\ numClients = Len(list)
        /\ \A i, j \in DOMAIN list : list[i] = list[j] => i = j

\* Every reply fills exactly the slots it allocated and sends: sendClients()
\* neither writes past its buffer nor sends a slot it has not written, and it
\* never tells a client its own address.
ReplyExact ==
    \A c \in answered :
        /\ {p[1] : p \in reply[c].data} = 0..(reply[c].size - 1)
        /\ \A p \in reply[c].data : p[2] # ipOf[c]

\* The count byte can hold the number of other addresses.
CountFits == IsFiniteSet(Ip) /\ Cardinality(Ip) <= CountModulus

\* Of two clients that have got their peer lists, at least one was told about
\* the other, whatever the order of their connections, requests and replies,
\* as long as the count byte can hold the number of addresses.
Discovery ==
    CountFits =>
        \A c, d \in Conn :
            /\ st[c] = "done" /\ st[d] = "done"
            /\ ipOf[c] # ipOf[d]
            => ipOf[d] \in peers[c] \/ ipOf[c] \in peers[d]

(***************************************************************************)
(* The inductive invariant behind these properties.                        *)
(***************************************************************************)
\* A connection is in one place: the listen queue, once, or the server, which
\* answers it at most once and only while it serves it.
ConnectionsInPlace ==
    /\ \A i, j \in DOMAIN backlog : backlog[i] = backlog[j] => i = j
    /\ \A i \in DOMAIN backlog : backlog[i] \notin accepted /\ st[backlog[i]] # "new"
    /\ \A c \in accepted : st[c] # "new"
    /\ srv = "recv" => cur \in accepted
    /\ answered \subseteq accepted \ {cur}

\* A client that was answered is in the list from then on.
AnsweredRegistered ==
    Running => \A c \in answered : Present(list, ipOf[c])

\* Discovery, from the moment the replies are sent.
ReplyDiscovery ==
    CountFits =>
        \A c, d \in answered :
            ipOf[c] # ipOf[d]
            => ipOf[d] \in requestPeers(reply[c]) \/ ipOf[c] \in requestPeers(reply[d])

\* A client that is done holds what its reply says.
PeersFromReply ==
    \A c \in Conn : st[c] = "done" => c \in answered /\ peers[c] = requestPeers(reply[c])

\* Everything above together: each conjunct needs others of them to be
\* preserved by every step of the server and of the clients.
IInv ==
    /\ TypeOK
    /\ ListWellFormed
    /\ ConnectionsInPlace
    /\ AnsweredRegistered
    /\ ReplyExact
    /\ ReplyDiscovery
    /\ PeersFromReply

\* The registry this server implements.
Reg == INSTANCE Registry WITH
           members <- {list[i] : i \in DOMAIN list},
           served  <- answered,
           view    <- [c \in Conn |-> requestPeers(reply[c])],
           open    <- Running

\* Registering and answering are one indivisible step to the clients: each
\* connection is answered at most once, with everyone registered before it.
ImplementsRegistry == Reg!RegSpec

\* The server can make no more progress: it has exited, or it blocks in recv()
\* on a connection whose host vanished before it sent anything.
Stalled ==
    \/ ~Running
    \/ srv = "recv" /\ st[cur] = "vanished" /\ sent[cur] = "nothing"

\* Every client gets through the listen queue and gets the answer to its "list"
\* request, unless it leaves first.  The only excuse is a server that stalled
\* before it accepted this client: one that was accepted is always answered,
\* whatever becomes of the server for the others.
ListServed ==
    \A c \in Conn :
        st[c] \in {"new", "connected", "asked"}
            ~> \/ st[c] \in {"done", "overrun", "joining", "gone", "vanished"}
               \/ c \notin accepted /\ Stalled
=============================================================================
