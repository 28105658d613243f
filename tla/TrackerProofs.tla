--------------------------- MODULE TrackerProofs ---------------------------
(***************************************************************************)
(* Proofs about Tracker, for every number of connections, every assignment *)
(* of addresses to them, and every value of the bounds.                    *)
(***************************************************************************)
EXTENDS Tracker, FiniteSetTheorems, TLAPS

Distinct(l) == \A i, j \in DOMAIN l : l[i] = l[j] => i = j

(***************************************************************************)
(* The client list.                                                        *)
(***************************************************************************)
\* Registering an address keeps the list free of duplicates and its counter
\* exact, adds that address, and moves no other.
LEMMA RegisterProperties ==
    ASSUME NEW l \in Seq(Ip), NEW ip \in Ip, Distinct(l)
    PROVE  LET r == Register(l, Len(l), ip)
           IN  /\ r.list \in Seq(Ip)
               /\ r.num = Len(r.list)
               /\ r.num \in Nat \ {0}
               /\ Distinct(r.list)
               /\ Present(r.list, ip)
               /\ \A i \in DOMAIN l : i \in DOMAIN r.list /\ r.list[i] = l[i]
               /\ \A i \in DOMAIN r.list : r.list[i] = ip \/ (i \in DOMAIN l /\ r.list[i] = l[i])
<1>1. CASE Len(l) = 0
  <2>1. Register(l, Len(l), ip) = [list |-> <<ip>>, num |-> 1]
    BY <1>1 DEF Register
  <2>2. /\ <<ip>> \in Seq(Ip) /\ Len(<<ip>>) = 1 /\ DOMAIN <<ip>> = 1..1 /\ <<ip>>[1] = ip
        /\ DOMAIN l = {}
    BY <1>1
  <2> QED BY <2>1, <2>2 DEF Present, Distinct
<1>2. CASE Len(l) # 0 /\ Present(l, ip)
  <2>1. Register(l, Len(l), ip) = [list |-> l, num |-> Len(l)]
    BY <1>2 DEF Register, addIfAbsent
  <2> QED BY <1>2, <2>1
<1>3. CASE Len(l) # 0 /\ ~Present(l, ip)
  <2>1. Register(l, Len(l), ip) = [list |-> Append(l, ip), num |-> Len(l) + 1]
    BY <1>3 DEF Register, addIfAbsent
  <2>2. /\ Append(l, ip) \in Seq(Ip)
        /\ Len(Append(l, ip)) = Len(l) + 1
        /\ DOMAIN Append(l, ip) = 1..(Len(l) + 1)
        /\ \A i \in 1..Len(l) : Append(l, ip)[i] = l[i]
        /\ Append(l, ip)[Len(l) + 1] = ip
    OBVIOUS
  <2>3. Distinct(Append(l, ip))
    BY <1>3, <2>2 DEF Distinct, Present
  <2> QED BY <2>1, <2>2, <2>3 DEF Present
<1> QED BY <1>1, <1>2, <1>3

\* A list without duplicates is no longer than there are addresses.
LEMMA ListBounded ==
    ASSUME NEW l \in Seq(Ip), Distinct(l), IsFiniteSet(Ip)
    PROVE  Len(l) <= Cardinality(Ip)
<1>1. l \in [1..Len(l) -> Ip]
  OBVIOUS
<1>2. IsFiniteSet(1..Len(l)) /\ Cardinality(1..Len(l)) = Len(l)
  <2>1. 1 \in Int /\ Len(l) \in Int /\ (1 > Len(l) => Len(l) = 0)
    OBVIOUS
  <2>2. /\ IsFiniteSet(1..Len(l))
        /\ Cardinality(1..Len(l)) = IF 1 > Len(l) THEN 0 ELSE Len(l) - 1 + 1
    BY <2>1, FS_Interval
  <2> QED BY <2>1, <2>2
<1>3. Cardinality(Ip) \in Nat
  BY FS_CardinalityType
<1>4. ASSUME Cardinality(Ip) < Len(l) PROVE FALSE
  <2>1. \E x, y \in 1..Len(l) : x # y /\ l[x] = l[y]
    BY <1>1, <1>2, <1>4, FS_PigeonHole
  <2> QED BY <2>1 DEF Distinct
<1> QED BY <1>3, <1>4

(***************************************************************************)
(* The reply.                                                              *)
(***************************************************************************)
\* The slot a node is copied to: its position, less one, and less one more if
\* the requester's own node comes before it.
LEMMA SlotOfNode ==
    ASSUME NEW l \in Seq(Ip), Distinct(l), NEW k \in DOMAIN l, NEW i \in DOMAIN l, i # k
    PROVE  numIpsCopied(l, l[k], i) = IF i < k THEN i - 1 ELSE i - 2
<1>0. i \in 1..Len(l) /\ k \in 1..Len(l) /\ i \in Int /\ k \in Int /\ i - 1 \in Int /\ Len(l) \in Nat
  OBVIOUS
<1>1. CopiedNodes(l, l[k]) = (1..Len(l)) \ {k}
  BY DEF CopiedNodes, Distinct
<1>2. CASE i < k
  <2>1. {j \in CopiedNodes(l, l[k]) : j < i} = 1..(i - 1)
    BY <1>1, <1>2
  <2>2. Cardinality(1..(i - 1)) = i - 1
    BY <1>0, FS_Interval
  <2> QED BY <1>2, <2>1, <2>2 DEF numIpsCopied
<1>3. CASE k < i
  <2>1. {j \in CopiedNodes(l, l[k]) : j < i} = (1..(i - 1)) \ {k}
    BY <1>1, <1>3
  <2>2. IsFiniteSet(1..(i - 1)) /\ Cardinality(1..(i - 1)) = i - 1
    BY <1>0, <1>3, FS_Interval
  <2>3. k \in 1..(i - 1)
    BY <1>0, <1>3
  <2>4. Cardinality((1..(i - 1)) \ {k}) = i - 2
    <3>1. Cardinality((1..(i - 1)) \ {k}) = (i - 1) - 1
      BY <2>2, <2>3, FS_RemoveElement
    <3> QED BY <1>0, <3>1
  <2>5. numIpsCopied(l, l[k], i) = i - 2
    BY <2>1, <2>4 DEF numIpsCopied
  <2> QED BY <1>0, <1>3, <2>5
<1> QED BY <1>2, <1>3

\* The reply to a requester that is in the list writes every slot of its
\* buffer, none past the end, and never the requester's own address.
LEMMA ReplyFillsBuffer ==
    ASSUME NEW l \in Seq(Ip), Distinct(l), NEW ip \in Ip, Present(l, ip)
    PROVE  LET r == sendClients(l, Len(l), ip)
           IN  /\ r \in [size : Nat, count : Nat, data : SUBSET (Nat \X Ip)]
               /\ {p[1] : p \in r.data} = 0..(r.size - 1)
               /\ \A p \in r.data : p[2] # ip
<1> DEFINE r == sendClients(l, Len(l), ip)
           slot(i) == numIpsCopied(l, ip, i)
<1>1. PICK k \in DOMAIN l : l[k] = ip
  BY DEF Present
<1>2. \A i \in DOMAIN l : i # k => slot(i) = IF i < k THEN i - 1 ELSE i - 2
  BY <1>1, SlotOfNode
<1>3. CopiedNodes(l, ip) = (1..Len(l)) \ {k}
  BY <1>1 DEF CopiedNodes, Distinct
<1>4. r = [size |-> Len(l) - 1, count |-> (Len(l) - 1) % CountModulus,
           data |-> {<<slot(i), l[i]>> : i \in (1..Len(l)) \ {k}}]
  BY <1>3 DEF sendClients
<1>5. \A i \in (1..Len(l)) \ {k} : slot(i) \in Nat /\ slot(i) \in 0..(Len(l) - 2) /\ l[i] \in Ip /\ l[i] # ip
  BY <1>1, <1>2 DEF Distinct
<1> HIDE DEF slot
<1>6. r \in [size : Nat, count : Nat, data : SUBSET (Nat \X Ip)]
  <2>1. Len(l) - 1 \in Nat
    BY <1>1
  <2>2. (Len(l) - 1) % CountModulus \in Nat
    BY <2>1, BoundsAssumption
  <2>3. {<<slot(i), l[i]>> : i \in (1..Len(l)) \ {k}} \in SUBSET (Nat \X Ip)
    BY <1>5
  <2> QED BY <1>4, <2>1, <2>2, <2>3
<1>7. \A p \in r.data : p[1] \in 0..(Len(l) - 2) /\ p[2] # ip
  BY <1>4, <1>5
<1>8. ASSUME NEW s \in 0..(Len(l) - 2) PROVE \E p \in r.data : p[1] = s
  <2> DEFINE n == IF s + 1 < k THEN s + 1 ELSE s + 2
  <2>1. n \in (1..Len(l)) \ {k} /\ slot(n) = s
    BY <1>1, <1>2 DEF slot
  <2>2. <<slot(n), l[n]>> \in r.data
    BY <1>4, <2>1
  <2> QED BY <2>1, <2>2
<1>9. r.size = Len(l) - 1
  BY <1>4
<1>10. {p[1] : p \in r.data} = 0..(r.size - 1)
  BY <1>7, <1>8, <1>9
<1> QED BY <1>6, <1>7, <1>10

\* With a count byte that is large enough, what requestPeers() makes of the
\* reply is the list without the requester.
LEMMA ReplyNamesOthers ==
    ASSUME NEW l \in Seq(Ip), Distinct(l), NEW ip \in Ip, Present(l, ip), CountFits
    PROVE  requestPeers(sendClients(l, Len(l), ip)) = {l[i] : i \in DOMAIN l} \ {ip}
<1> DEFINE r == sendClients(l, Len(l), ip)
           slot(i) == numIpsCopied(l, ip, i)
<1>1. r.data = {<<slot(i), l[i]>> : i \in CopiedNodes(l, ip)}
  BY DEF sendClients
<1>2. r.count = Len(l) - 1 /\ r.size = Len(l) - 1
  <2>1. Len(l) <= CountModulus /\ Len(l) \in Nat \ {0}
    <3>1. Len(l) <= Cardinality(Ip) /\ Cardinality(Ip) \in Nat
      BY ListBounded, FS_CardinalityType DEF CountFits
    <3> QED BY <3>1, BoundsAssumption DEF CountFits, Present
  <2>2. (Len(l) - 1) % CountModulus = Len(l) - 1
    BY <2>1, BoundsAssumption
  <2> QED BY <2>2 DEF sendClients
<1>3. \A p \in r.data : p[1] < r.count
  <2>1. {p[1] : p \in r.data} = 0..(r.size - 1)
    BY ReplyFillsBuffer
  <2>2. \A p \in r.data : p[1] \in 0..(r.size - 1)
    BY <2>1
  <2> QED BY <1>2, <2>2
<1>4. requestPeers(r) = {p[2] : p \in r.data}
  BY <1>3 DEF requestPeers
<1> HIDE DEF slot, r
<1>5. {p[2] : p \in r.data} = {l[i] : i \in CopiedNodes(l, ip)}
  <2>1. ASSUME NEW p \in r.data PROVE \E i \in CopiedNodes(l, ip) : p[2] = l[i]
    BY <1>1
  <2>2. ASSUME NEW i \in CopiedNodes(l, ip) PROVE \E p \in r.data : p[2] = l[i]
    <3>1. <<slot(i), l[i]>> \in r.data
      BY <1>1
    <3> QED BY <3>1
  <2> QED BY <2>1, <2>2
<1>6. {l[i] : i \in CopiedNodes(l, ip)} = {l[i] : i \in DOMAIN l} \ {ip}
  BY DEF CopiedNodes
<1> QED BY <1>4, <1>5, <1>6 DEF r

(***************************************************************************)
(* The inductive invariant.                                                *)
(***************************************************************************)
\* The state main() starts in, with no client, no list and an empty queue.
LEMMA InitIInv == Init => IInv
<1> SUFFICES ASSUME Init PROVE IInv
  OBVIOUS
<1> USE DEF Init, configureSocket
<1>1. TypeOK
  <2>1. Cardinality(accepted) = 0 /\ Len(backlog) = 0
    BY FS_EmptySet
  <2>2. EmptyReply \in [size : Nat, count : Nat, data : SUBSET (Nat \X Ip)]
    BY DEF EmptyReply
  <2> QED BY <2>1, <2>2, ConnAssumption, BoundsAssumption DEF TypeOK, ClientState
<1>2. ListWellFormed
  BY DEF ListWellFormed
<1>3. ConnectionsInPlace
  BY DEF ConnectionsInPlace
<1>4. AnsweredRegistered /\ ReplyExact /\ ReplyDiscovery
  BY DEF AnsweredRegistered, ReplyExact, ReplyDiscovery
<1>5. PeersFromReply
  BY DEF PeersFromReply
<1> QED BY <1>1, <1>2, <1>3, <1>4, <1>5 DEF IInv

\* Steps of a client that change nothing but where that client is, to a place
\* that is neither the start nor the end of requestPeers().
LEMMA ClientMoves ==
    ASSUME IInv, NEW c \in Conn, NEW next \in ClientState \ {"new", "done"},
           st' = [st EXCEPT ![c] = next],
           sent' \in [Conn -> {"nothing", "list", "join"}],
           UNCHANGED <<server, backlog, replies, peers>>
    PROVE  IInv'
<1> USE DEF IInv, server, replies, Running
<1>1. TypeOK'
  BY DEF TypeOK
<1>2. ListWellFormed' /\ AnsweredRegistered' /\ ReplyExact' /\ ReplyDiscovery'
  BY DEF ListWellFormed, AnsweredRegistered, ReplyExact, ReplyDiscovery, CountFits
<1>3. ConnectionsInPlace'
  BY DEF ConnectionsInPlace, TypeOK
<1>4. PeersFromReply'
  BY DEF PeersFromReply, TypeOK
<1> QED BY <1>1, <1>2, <1>3, <1>4

\* A connection that enters the listen queue was in no other place before.
LEMMA ConnectIInv == ASSUME IInv, NEW c \in Conn, Connect(c) PROVE IInv'
<1> USE DEF IInv, Connect, server, replies, Running
<1>0. /\ backlog \in Seq(Conn)
      /\ Len(backlog') = Len(backlog) + 1
      /\ DOMAIN backlog' = 1..(Len(backlog) + 1)
      /\ \A i \in 1..Len(backlog) : backlog'[i] = backlog[i]
      /\ backlog'[Len(backlog) + 1] = c
      /\ backlog' \in Seq(Conn)
  BY DEF TypeOK
<1>1. TypeOK'
  BY <1>0, BoundsAssumption DEF TypeOK, ClientState
<1>2. ListWellFormed' /\ AnsweredRegistered' /\ ReplyExact' /\ ReplyDiscovery'
  BY DEF ListWellFormed, AnsweredRegistered, ReplyExact, ReplyDiscovery, CountFits
<1>3. ConnectionsInPlace'
  <2>1. st'[c] # "new" /\ \A d \in Conn : d # c => st'[d] = st[d]
    BY DEF TypeOK
  <2>2. \A i \in 1..Len(backlog) : backlog[i] \in Conn /\ backlog[i] # c /\ i \in DOMAIN backlog
    BY <1>0 DEF ConnectionsInPlace
  <2>3. c \notin accepted
    BY DEF ConnectionsInPlace
  <2>4. \A i, j \in DOMAIN backlog' : backlog'[i] = backlog'[j] => i = j
    BY <1>0, <2>2 DEF ConnectionsInPlace
  <2>5. \A i \in DOMAIN backlog' : backlog'[i] \notin accepted' /\ st'[backlog'[i]] # "new"
    BY <1>0, <2>1, <2>2, <2>3 DEF ConnectionsInPlace
  <2>6. \A d \in accepted' : st'[d] # "new"
    BY <2>1 DEF ConnectionsInPlace, TypeOK
  <2> QED BY <2>4, <2>5, <2>6 DEF ConnectionsInPlace
<1>4. PeersFromReply'
  BY DEF PeersFromReply, TypeOK
<1> QED BY <1>1, <1>2, <1>3, <1>4

\* A client that reads its reply stores what that reply says, and nothing else.
LEMMA RecvReplyIInv == ASSUME IInv, NEW c \in Conn, RecvReply(c) PROVE IInv'
<1> USE DEF IInv, RecvReply, server, replies, Running
<1>1. TypeOK'
  <2>1. requestPeers(reply[c]) \in SUBSET Ip
    BY DEF TypeOK, requestPeers
  <2> QED BY <2>1 DEF TypeOK, ClientState
<1>2. ListWellFormed' /\ AnsweredRegistered' /\ ReplyExact' /\ ReplyDiscovery'
  BY DEF ListWellFormed, AnsweredRegistered, ReplyExact, ReplyDiscovery, CountFits
<1>3. ConnectionsInPlace'
  BY DEF ConnectionsInPlace, TypeOK
<1>4. PeersFromReply'
  BY DEF PeersFromReply, TypeOK
<1> QED BY <1>1, <1>2, <1>3, <1>4

\* No step of a client disturbs the server's list, its replies or its queue.
LEMMA ClientIInv == ASSUME IInv, NEW c \in Conn, ClientStep(c) PROVE IInv'
<1> USE DEF ClientState
<1>1. CASE Connect(c)
  BY <1>1, ConnectIInv
<1>2. CASE RecvReply(c)
  BY <1>2, RecvReplyIInv
<1>3. CASE ConnectRefused(c)
  <2>1. sent' \in [Conn -> {"nothing", "list", "join"}]
    BY <1>3 DEF ConnectRefused, IInv, TypeOK
  <2> QED BY <1>3, <2>1, ClientMoves DEF ConnectRefused
<1>4. CASE SendList(c)
  <2>1. sent' \in [Conn -> {"nothing", "list", "join"}]
    BY <1>4 DEF SendList, SendMsg, IInv, TypeOK
  <2> QED BY <1>4, <2>1, ClientMoves DEF SendList, SendMsg
<1>5. CASE SendJoin(c)
  <2>1. sent' \in [Conn -> {"nothing", "list", "join"}]
    BY <1>5 DEF SendJoin, SendMsg, IInv, TypeOK
  <2> QED BY <1>5, <2>1, ClientMoves DEF SendJoin, SendMsg
<1>6. CASE SendFails(c) \/ RecvOverrun(c) \/ RecvNothing(c) \/ Leave(c) \/ Vanish(c)
  <2>1. sent' \in [Conn -> {"nothing", "list", "join"}]
    BY <1>6 DEF SendFails, RecvOverrun, RecvNothing, Leave, Vanish, IInv, TypeOK
  <2>2. /\ UNCHANGED <<server, backlog, replies, peers>>
        /\ \E next \in {"unasked", "overrun", "misread", "gone", "vanished"} : st' = [st EXCEPT ![c] = next]
    BY <1>6 DEF SendFails, RecvOverrun, RecvNothing, Leave, Vanish
  <2>3. PICK next \in {"unasked", "overrun", "misread", "gone", "vanished"} : st' = [st EXCEPT ![c] = next]
    BY <2>2
  <2> QED BY <2>1, <2>2, <2>3, ClientMoves
<1> QED BY <1>1, <1>2, <1>3, <1>4, <1>5, <1>6 DEF ClientStep

\* accept() moves one connection from the queue to the server's sockets.
LEMMA AcceptIInv == ASSUME IInv, Accept PROVE IInv'
<1> USE DEF IInv, Accept, client, replies, Running
<1>0. /\ backlog \in Seq(Conn) /\ Len(backlog) > 0
      /\ Head(backlog) = backlog[1] /\ Head(backlog) \in Conn
      /\ backlog' \in Seq(Conn)
      /\ Len(backlog') = Len(backlog) - 1
      /\ DOMAIN backlog' = 1..(Len(backlog) - 1)
      /\ \A i \in DOMAIN backlog' : backlog'[i] = backlog[i + 1] /\ i + 1 \in DOMAIN backlog
  BY DEF TypeOK
<1>1. TypeOK'
  <2>1. IsFiniteSet(accepted) /\ Cardinality(accepted) \in Nat
    BY ConnAssumption, FS_Subset, FS_CardinalityType DEF TypeOK
  <2>2. Cardinality(accepted') <= MaxFds
    <3>1. Cardinality(accepted') \in {Cardinality(accepted), Cardinality(accepted) + 1}
      BY <2>1, FS_AddElement
    <3> QED BY <2>1, <3>1, BoundsAssumption
  <2>3. Len(backlog') <= Backlog
    BY <1>0, BoundsAssumption DEF TypeOK
  <2> QED BY <1>0, <2>2, <2>3, ConnAssumption DEF TypeOK
<1>2. ListWellFormed' /\ AnsweredRegistered' /\ ReplyExact' /\ ReplyDiscovery'
  BY DEF ListWellFormed, AnsweredRegistered, ReplyExact, ReplyDiscovery, CountFits
<1>3. ConnectionsInPlace'
  <2>1. \A i, j \in DOMAIN backlog' : backlog'[i] = backlog'[j] => i = j
    BY <1>0 DEF ConnectionsInPlace
  <2>2. \A i \in DOMAIN backlog' : backlog'[i] \notin accepted' /\ st'[backlog'[i]] # "new"
    <3> SUFFICES ASSUME NEW i \in DOMAIN backlog'
                 PROVE  backlog'[i] \notin accepted' /\ st'[backlog'[i]] # "new"
      OBVIOUS
    <3>1. backlog'[i] # backlog[1]
      BY <1>0 DEF ConnectionsInPlace
    <3> QED BY <1>0, <3>1 DEF ConnectionsInPlace
  <2>3. 1 \in DOMAIN backlog
    BY <1>0
  <2>4. (\A c \in accepted' : st'[c] # "new") /\ (srv' = "recv" => cur' \in accepted')
    BY <1>0, <2>3 DEF ConnectionsInPlace
  <2>5. answered' \subseteq accepted' \ {cur'}
    BY <1>0, <2>3 DEF ConnectionsInPlace
  <2> QED BY <2>1, <2>2, <2>4, <2>5 DEF ConnectionsInPlace
<1>4. PeersFromReply'
  BY DEF PeersFromReply
<1> QED BY <1>1, <1>2, <1>3, <1>4

\* When accept() fails the list is freed, and the replies stay with the clients.
LEMMA AcceptFailsIInv == ASSUME IInv, AcceptFails PROVE IInv'
<1> USE DEF IInv, AcceptFails, destroyClientList, client, replies, Running
<1>1. TypeOK'
  BY BoundsAssumption DEF TypeOK
<1>2. ListWellFormed' /\ AnsweredRegistered' /\ ReplyExact' /\ ReplyDiscovery'
  BY DEF ListWellFormed, AnsweredRegistered, ReplyExact, ReplyDiscovery, CountFits
<1>3. ConnectionsInPlace'
  BY DEF ConnectionsInPlace
<1>4. PeersFromReply'
  BY DEF PeersFromReply
<1> QED BY <1>1, <1>2, <1>3, <1>4

\* A message that is not "list" changes nothing but where the server is.
LEMMA ServeOtherIInv == ASSUME IInv, ServeOther PROVE IInv'
<1> USE DEF IInv, ServeOther, NextClient, client, replies, Running
<1>1. TypeOK'
  BY DEF TypeOK
<1>2. ListWellFormed' /\ AnsweredRegistered' /\ ReplyExact' /\ ReplyDiscovery'
  BY DEF ListWellFormed, AnsweredRegistered, ReplyExact, ReplyDiscovery, CountFits
<1>3. ConnectionsInPlace'
  BY ConnAssumption DEF ConnectionsInPlace, TypeOK
<1>4. PeersFromReply'
  BY DEF PeersFromReply
<1> QED BY <1>1, <1>2, <1>3, <1>4

\* A request step in terms of the list before and after it: sendClients() takes
\* neither of its early returns.
LEMMA ServeListEffect ==
    ASSUME IInv, ServeList
    PROVE  /\ cur \in Conn /\ ipOf[cur] \in Ip /\ cur \notin answered
           /\ list' \in Seq(Ip) /\ Distinct(list')
           /\ numClients' = Len(list') /\ numClients' \in Nat
           /\ Present(list', ipOf[cur])
           /\ \A i \in DOMAIN list : i \in DOMAIN list' /\ list'[i] = list[i]
           /\ \A i \in DOMAIN list' :
                 list'[i] = ipOf[cur] \/ (i \in DOMAIN list /\ list'[i] = list[i])
           /\ answered' = answered \cup {cur}
           /\ reply' = [reply EXCEPT ![cur] = sendClients(list', Len(list'), ipOf[cur])]
           /\ NextClient
<1> USE DEF ServeList
<1>1. cur \in Conn /\ ipOf[cur] \in Ip /\ cur \notin answered
  BY IpAssumption DEF IInv, TypeOK, ConnectionsInPlace
<1>2. list \in Seq(Ip) /\ Distinct(list) /\ numClients = Len(list)
  BY DEF IInv, TypeOK, ListWellFormed, Running, Distinct
<1> DEFINE r == Register(list, Len(list), ipOf[cur])
<1>3. list' = r.list /\ numClients' = r.num
  BY <1>2
<1>4. /\ r.list \in Seq(Ip)
      /\ r.num = Len(r.list)
      /\ r.num \in Nat \ {0}
      /\ Distinct(r.list)
      /\ Present(r.list, ipOf[cur])
      /\ \A i \in DOMAIN list : i \in DOMAIN r.list /\ r.list[i] = list[i]
      /\ \A i \in DOMAIN r.list :
            r.list[i] = ipOf[cur] \/ (i \in DOMAIN list /\ r.list[i] = list[i])
  BY <1>1, <1>2, RegisterProperties
<1>5. SendsClients(r.list, r.num)
  BY <1>4 DEF SendsClients
<1>6. /\ answered' = answered \cup {cur}
      /\ reply' = [reply EXCEPT ![cur] = sendClients(r.list, r.num, ipOf[cur])]
  BY <1>2, <1>5
<1>7. NextClient
  OBVIOUS
<1> HIDE DEF r
<1> QED BY <1>1, <1>3, <1>4, <1>6, <1>7

\* A "list" request: the new reply names everyone who was answered before, and
\* the requester is in the list that later replies are made from.
LEMMA ServeListIInv == ASSUME IInv, ServeList PROVE IInv'
<1> DEFINE r == sendClients(list', Len(list'), ipOf[cur])
<1>0. /\ cur \in Conn /\ ipOf[cur] \in Ip /\ cur \notin answered
      /\ list' \in Seq(Ip) /\ Distinct(list')
      /\ numClients' = Len(list') /\ numClients' \in Nat
      /\ Present(list', ipOf[cur])
      /\ \A i \in DOMAIN list : i \in DOMAIN list' /\ list'[i] = list[i]
      /\ answered' = answered \cup {cur}
      /\ reply' = [reply EXCEPT ![cur] = r]
      /\ NextClient
  BY ServeListEffect
<1>1. /\ r \in [size : Nat, count : Nat, data : SUBSET (Nat \X Ip)]
      /\ {p[1] : p \in r.data} = 0..(r.size - 1)
      /\ \A p \in r.data : p[2] # ipOf[cur]
  BY <1>0, ReplyFillsBuffer
<1>2. CountFits => requestPeers(r) = {list'[i] : i \in DOMAIN list'} \ {ipOf[cur]}
  BY <1>0, ReplyNamesOthers
<1> HIDE DEF r
<1> USE DEF IInv, NextClient, client, Running
<1>3. srv = "recv"
  BY DEF ServeList
<1>4. reply'[cur] = r /\ \A c \in Conn : c # cur => reply'[c] = reply[c]
  BY <1>0 DEF TypeOK
<1>5. TypeOK'
  BY <1>0, <1>1 DEF TypeOK
<1>6. ListWellFormed'
  BY <1>0 DEF ListWellFormed, Distinct
<1>7. ConnectionsInPlace'
  BY <1>0, <1>3, ConnAssumption DEF ConnectionsInPlace, TypeOK
<1>8. AnsweredRegistered'
  BY <1>0, <1>3 DEF AnsweredRegistered, Present
<1>9. ReplyExact'
  <2> SUFFICES ASSUME NEW c \in answered'
               PROVE  /\ {p[1] : p \in reply'[c].data} = 0..(reply'[c].size - 1)
                      /\ \A p \in reply'[c].data : p[2] # ipOf[c]
    BY DEF ReplyExact
  <2>1. CASE c = cur
    BY <1>1, <1>4, <2>1
  <2>2. CASE c # cur
    BY <1>0, <1>4, <2>2 DEF ReplyExact, TypeOK
  <2> QED BY <2>1, <2>2
<1>10. ReplyDiscovery'
  <2> SUFFICES ASSUME CountFits, NEW c \in answered', NEW d \in answered', ipOf[c] # ipOf[d]
               PROVE  \/ ipOf[d] \in requestPeers(reply'[c])
                      \/ ipOf[c] \in requestPeers(reply'[d])
    BY DEF ReplyDiscovery, CountFits
  <2>0. ASSUME NEW e \in answered, ipOf[e] # ipOf[cur]
        PROVE  ipOf[e] \in requestPeers(reply'[cur])
    <3>1. \E i \in DOMAIN list' : list'[i] = ipOf[e]
      BY <1>0, <1>3 DEF AnsweredRegistered, Present
    <3> QED BY <1>2, <1>4, <2>0, <3>1
  <2>1. CASE c = cur
    BY <1>0, <2>0, <2>1
  <2>2. CASE d = cur
    BY <1>0, <2>0, <2>2
  <2>3. CASE c # cur /\ d # cur
    BY <1>0, <1>4, <2>3 DEF ReplyDiscovery, TypeOK
  <2> QED BY <2>1, <2>2, <2>3
<1>11. PeersFromReply'
  BY <1>0, <1>4 DEF PeersFromReply
<1> QED BY <1>5, <1>6, <1>7, <1>8, <1>9, <1>10, <1>11

\* Every step of the server and of a client preserves the inductive invariant.
LEMMA NextIInv == IInv /\ [Next]_vars => IInv'
<1> SUFFICES ASSUME IInv, [Next]_vars PROVE IInv'
  OBVIOUS
<1>1. ASSUME NEW c \in Conn, ClientStep(c) PROVE IInv'
  BY <1>1, ClientIInv
<1>2. CASE Accept
  BY <1>2, AcceptIInv
<1>3. CASE AcceptFails
  BY <1>3, AcceptFailsIInv
<1>4. CASE ServeOther
  BY <1>4, ServeOtherIInv
<1>5. CASE ServeList
  BY <1>5, ServeListIInv
<1>6. CASE UNCHANGED vars
  BY <1>6 DEF vars, IInv, TypeOK, ListWellFormed, ConnectionsInPlace, AnsweredRegistered,
              ReplyExact, ReplyDiscovery, PeersFromReply, Running, CountFits
<1> QED BY <1>1, <1>2, <1>3, <1>4, <1>5, <1>6 DEF Next, ServerStep

\* Every reachable state of the tracker and its clients satisfies the inductive
\* invariant.
THEOREM Invariance == Safety => []IInv
BY InitIInv, NextIInv, PTL DEF Safety

\* The state stays well typed and within the limits of the listen queue and of
\* the server's table of sockets.
THEOREM TypeCorrect == Safety => []TypeOK
BY Invariance, PTL DEF IInv

\* The counter of main() is the length of a list without duplicates, for any
\* number of clients: sendClients() never refuses to answer.
THEOREM ListCorrect == Safety => []ListWellFormed
BY Invariance, PTL DEF IInv

\* No reply overruns its buffer, sends a slot it did not write, or names the
\* requester, for any number of clients.
THEOREM RepliesExact == Safety => []ReplyExact
BY Invariance, PTL DEF IInv

\* Clients that are done hold their replies, of which ReplyDiscovery speaks.
LEMMA DiscoveryFromIInv == IInv => Discovery
BY DEF IInv, Discovery, PeersFromReply, ReplyDiscovery

\* Of two clients that hold their peer lists, one was told about the other, for
\* any number of clients whose addresses the count byte can count.
THEOREM DiscoveryHolds == Safety => []Discovery
BY Invariance, DiscoveryFromIInv, PTL
(***************************************************************************)
(* The tracker implements the registry.                                    *)
(***************************************************************************)
\* The tracker starts as an open registry without members.
LEMMA RefinesInit == Init => Reg!RegInit
<1> SUFFICES ASSUME Init PROVE Reg!RegInit
  OBVIOUS
<1>1. requestPeers(EmptyReply) = {}
  BY DEF requestPeers, EmptyReply
<1>2. [c \in Conn |-> requestPeers(reply[c])] = [c \in Conn |-> {}]
  BY <1>1 DEF Init, configureSocket
<1>3. {list[i] : i \in DOMAIN list} = {}
  BY DEF Init, configureSocket
<1> QED BY <1>2, <1>3 DEF Init, configureSocket, Reg!RegInit, Running

\* The mapped state changes in two steps only: the one that answers a request,
\* and the one in which the server gives up.
LEMMA RefinesNext ==
    ASSUME CountFits, IInv, [Next]_vars
    PROVE  [Reg!RegNext]_(Reg!regVars)
<1> DEFINE view == [c \in Conn |-> requestPeers(reply[c])]
           members == {list[i] : i \in DOMAIN list}
<1>1. CASE ServeList
  <2>1. /\ cur \in Conn /\ ipOf[cur] \in Ip /\ cur \notin answered
        /\ list' \in Seq(Ip) /\ Distinct(list') /\ Present(list', ipOf[cur])
        /\ \A i \in DOMAIN list : i \in DOMAIN list' /\ list'[i] = list[i]
        /\ \A i \in DOMAIN list' :
              list'[i] = ipOf[cur] \/ (i \in DOMAIN list /\ list'[i] = list[i])
        /\ answered' = answered \cup {cur}
        /\ reply' = [reply EXCEPT ![cur] = sendClients(list', Len(list'), ipOf[cur])]
        /\ NextClient
    BY <1>1, ServeListEffect
  <2>2. members' = members \cup {ipOf[cur]}
    BY <2>1 DEF Present
  <2>3. requestPeers(sendClients(list', Len(list'), ipOf[cur])) = members' \ {ipOf[cur]}
    BY <2>1, ReplyNamesOthers
  <2>4. members' \ {ipOf[cur]} = members \ {ipOf[cur]}
    BY <2>2
  <2>5. reply'[cur] = sendClients(list', Len(list'), ipOf[cur])
    BY <2>1 DEF IInv, TypeOK
  <2>6. \A c \in Conn : c # cur => reply'[c] = reply[c]
    BY <2>1 DEF IInv, TypeOK
  <2>7. view' = [view EXCEPT ![cur] = members \ {ipOf[cur]}]
    <3>1. requestPeers(reply'[cur]) = members \ {ipOf[cur]}
      BY <2>3, <2>4, <2>5
    <3>2. \A c \in Conn : c # cur => requestPeers(reply'[c]) = requestPeers(reply[c])
      BY <2>6
    <3> QED BY <2>1, <3>1, <3>2
  <2>8. Running = TRUE /\ Running' = TRUE
    BY <1>1, <2>1 DEF Running, ServeList, NextClient
  <2>9. PICK c \in Conn : c = cur
    BY <2>1
  <2>10. Reg!Lookup(c)
    BY <2>1, <2>2, <2>7, <2>8, <2>9 DEF Reg!Lookup
  <2>11. \E d \in Conn : Reg!Lookup(d)
    BY <2>10
  <2> QED BY <2>11 DEF Reg!RegNext
<1>2. CASE AcceptFails
  <2>1. members' = {} /\ answered' = answered /\ view' = view
    BY <1>2 DEF AcceptFails, destroyClientList, replies
  <2>2. Running = TRUE /\ Running' = FALSE
    BY <1>2 DEF AcceptFails, destroyClientList, Running
  <2>3. Reg!Shutdown
    BY <2>1, <2>2 DEF Reg!Shutdown
  <2> QED BY <2>3 DEF Reg!RegNext
<1>3. ASSUME UNCHANGED <<list, answered, reply>>, Running' = Running
      PROVE  UNCHANGED Reg!regVars
  BY <1>3 DEF Reg!regVars
<1>4. CASE Accept \/ ServeOther
  BY <1>3, <1>4 DEF Accept, ServeOther, NextClient, replies, Running
<1>5. ASSUME NEW c \in Conn, ClientStep(c) PROVE UNCHANGED Reg!regVars
  BY <1>3, <1>5 DEF ClientStep, Connect, ConnectRefused, SendList, SendJoin, SendMsg,
                    SendFails, RecvReply, RecvOverrun, RecvNothing, Leave, Vanish, server, replies, Running
<1>6. CASE UNCHANGED vars
  BY <1>3, <1>6 DEF vars, Running
<1> QED BY <1>1, <1>2, <1>4, <1>5, <1>6 DEF Next, ServerStep

\* As long as the count byte can count the addresses, the tracker implements the
\* registry: registering a client and answering it is one indivisible step, and
\* no connection is answered twice.
THEOREM Refinement == ASSUME CountFits PROVE Safety => ImplementsRegistry
<1>1. Init => Reg!RegInit
  BY RefinesInit
<1>2. IInv /\ [Next]_vars => [Reg!RegNext]_(Reg!regVars)
  BY RefinesNext
<1> QED BY <1>1, <1>2, Invariance, PTL DEF Safety, ImplementsRegistry, Reg!RegSpec
=============================================================================
