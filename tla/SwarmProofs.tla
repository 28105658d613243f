---------------------------- MODULE SwarmProofs ----------------------------
(***************************************************************************)
(* Theorems about Swarm, for any number of hosts, starts and peers and any *)
(* size of fds: the types, what is known of sockets and handshakes at      *)
(* every step, and that clients which are started once do not wait for     *)
(* each other in a circle.                                                 *)
(***************************************************************************)
EXTENDS Swarm, ListFacts

(***************************************************************************)
(* Connections and entries.                                                *)
(***************************************************************************)
\* What a connection is made of.
LEMMA ConnFacts ==
    ASSUME NEW c \in ConnId
    PROVE  /\ c[1] \in Node /\ c[2] \in 1..MaxRuns /\ c[3] \in Node /\ c[1] # c[3]
           /\ c = <<c[1], c[2], c[3]>>
BY DEF ConnId

LEMMA NewConn ==
    ASSUME NEW n \in Node, NEW r \in 1..MaxRuns, NEW m \in Node, n # m
    PROVE  /\ <<n, r, m>> \in ConnId
           /\ <<n, r, m>>[1] = n /\ <<n, r, m>>[2] = r /\ <<n, r, m>>[3] = m
BY DEF ConnId

\* The other end of a connection is another host.
LEMMA OtherEnd ==
    ASSUME NEW c \in ConnId, NEW n \in Node
    PROVE  /\ Other(c, n) \in Node
           /\ c[1] = n => Other(c, n) = c[3] /\ Other(c, n) # n
           /\ c[3] = n => Other(c, n) = c[1] /\ Other(c, n) # n
BY ConnFacts DEF Other

\* The entries of fds behind the listener's.
LEMMA SlotFacts ==
    Slots = 1..(MaxPeers - 1) /\ 1 \in Slots /\ MaxPeers \in Nat /\ MaxPeers > 1
BY BoundsAssumption DEF Slots

(***************************************************************************)
(* The tracker's answer.                                                   *)
(***************************************************************************)
NoTwice(l) == \A j, k \in DOMAIN l : l[j] = l[k] => j = k

\* A list without the one place where it holds x.
LEMMA RemoveFirstFacts ==
    ASSUME NEW l \in Seq(Node), NoTwice(l), NEW x
    PROVE  /\ RemoveFirst(l, x) \in Seq(Node) /\ NoTwice(RemoveFirst(l, x))
           /\ \A j \in DOMAIN RemoveFirst(l, x) :
                 RemoveFirst(l, x)[j] # x /\ \E k \in DOMAIN l : l[k] = RemoveFirst(l, x)[j]
<1>1. CASE ~\E i \in 1..Len(l) : l[i] = x
  <2>1. RemoveFirst(l, x) = l
    BY <1>1 DEF RemoveFirst
  <2> QED BY <1>1, <2>1
<1>2. CASE \E i \in 1..Len(l) : l[i] = x
  <2> DEFINE I == {i \in 1..Len(l) : l[i] = x}
             p == Min(I)
  <2>1. I \in SUBSET Nat /\ I # {}
    BY <1>2
  <2>2. \E i \in I : \A j \in I : i <= j
    BY <2>1, LeastNumber
  <2>3. p \in I
    BY <2>2 DEF Min
  <2>4. RemoveFirst(l, x) = RemoveAt(l, p)
    BY <1>2, <2>1 DEF RemoveFirst, SelectInSeq
  <2> HIDE DEF p
  <2>5. p \in 1..Len(l) /\ l[p] = x
    BY <2>3
  <2> DEFINE r == RemoveAt(l, p)
  <2>6. /\ r \in Seq(Node) /\ Len(r) = Len(l) - 1
        /\ \A k \in 1..(Len(l) - 1) : r[k] = IF k < p THEN l[k] ELSE l[k + 1]
    BY <2>5, RemoveAtFacts
  <2> HIDE DEF r
  <2>7. \A j \in 1..Len(r) : \E k \in 1..Len(l) : k # p /\ r[j] = l[k] /\ (k = j \/ k = j + 1)
                                              /\ (k = j <=> j < p)
    <3> TAKE j \in 1..Len(r)
    <3>1. CASE j < p
      BY <2>5, <2>6, <3>1
    <3>2. CASE ~(j < p)
      <4>1. j + 1 \in 1..Len(l) /\ j + 1 # p /\ r[j] = l[j + 1]
        BY <2>5, <2>6, <3>2
      <4> QED BY <3>2, <4>1
    <3> QED BY <3>1, <3>2
  <2>8. NoTwice(r)
    <3> SUFFICES ASSUME NEW j \in 1..Len(r), NEW k \in 1..Len(r), r[j] = r[k] PROVE j = k
      BY <2>6 DEF NoTwice
    <3>1. PICK a \in 1..Len(l) : r[j] = l[a] /\ (a = j \/ a = j + 1) /\ (a = j <=> j < p)
      BY <2>7
    <3>2. PICK b \in 1..Len(l) : r[k] = l[b] /\ (b = k \/ b = k + 1) /\ (b = k <=> k < p)
      BY <2>7
    <3>3. a = b
      <4>1. l[a] = l[b]
        BY <3>1, <3>2
      <4>2. a \in DOMAIN l /\ b \in DOMAIN l
        OBVIOUS
      <4> QED BY <4>1, <4>2, Zenon DEF NoTwice
    <3>4. j \in Int /\ k \in Int /\ a \in Int /\ b \in Int /\ p \in Int
      BY <2>5
    <3> QED BY <3>1, <3>2, <3>3, <3>4
  <2>9. \A j \in DOMAIN r : r[j] # x /\ \E k \in DOMAIN l : l[k] = r[j]
    <3> TAKE j \in DOMAIN r
    <3>1. j \in 1..Len(r)
      BY <2>6
    <3>2. PICK k \in 1..Len(l) : k # p /\ r[j] = l[k]
      BY <2>7, <3>1
    <3>3. l[k] # x
      BY <2>5, <3>2 DEF NoTwice
    <3> QED BY <3>2, <3>3
  <2> QED BY <2>4, <2>6, <2>8, <2>9 DEF r
<1> QED BY <1>1, <1>2

\* The peers a client is told to connect to: other hosts, each of them once.
LEMMA PeersFacts ==
    ASSUME members \in Seq(Node), NoTwice(members), NEW n \in Node
    PROVE  /\ PeersToConnectTo(n) \in Seq(Node) /\ NoTwice(PeersToConnectTo(n))
           /\ \A j \in DOMAIN PeersToConnectTo(n) :
                 /\ PeersToConnectTo(n)[j] # n
                 /\ \E k \in DOMAIN members : members[k] = PeersToConnectTo(n)[j]
<1> DEFINE others == RemoveFirst(members, n)
           len == IF Len(others) > MaxConnections - 1 THEN MaxConnections - 1 ELSE Len(others)
           t == SubSeq(others, 1, len)
<1>1. /\ others \in Seq(Node) /\ NoTwice(others)
      /\ \A j \in DOMAIN others : others[j] # n /\ \E k \in DOMAIN members : members[k] = others[j]
  BY RemoveFirstFacts
<1>2. PeersToConnectTo(n) = t
  BY DEF PeersToConnectTo
<1> HIDE DEF others
<1>3. len \in Nat /\ len <= Len(others) /\ Len(others) \in Nat
  BY <1>1, BoundsAssumption
<1> HIDE DEF len
<1>4. t \in Seq(Node) /\ Len(t) = len /\ \A j \in 1..len : t[j] = others[j] /\ j \in DOMAIN others
  BY <1>1, <1>3
<1> HIDE DEF t
<1>5. NoTwice(t)
  BY <1>1, <1>3, <1>4 DEF NoTwice
<1>6. \A j \in DOMAIN t : t[j] # n /\ \E k \in DOMAIN members : members[k] = t[j]
  BY <1>1, <1>4
<1> QED BY <1>2, <1>4, <1>5, <1>6

(***************************************************************************)
(* The inductive invariant, and its parts as statements about one client:  *)
(* its locals p, its start r, its open sockets O and its listen queue Q.   *)
(***************************************************************************)
SwarmInv == TypeOK /\ SocketsKept /\ RegisteredEarlier

Msg == {"hs", "hsbf", "pwp", "rst", "hup"}

LocalsOK(n, p, r, O, Q) ==
    /\ p.pc = "off" <=> r = 0
    /\ p.pc \in {"off", "registered", "exited"} =>
          /\ p.slot = FreshProc.slot /\ p.out = 0 /\ p.max = 0
          /\ O = {} /\ Q = << >>
    /\ p.pc \in {"off", "poll", "serving", "exited"} => p.todo = << >>
    /\ p.pc = "waiting" => p.todo # << >>
    /\ p.pc = "serving" => p.i \in 1..p.max
    /\ p.pc = "overrun" => p.max >= MaxPeers \/ p.todo # << >>
    /\ \A j, k \in DOMAIN p.todo : p.todo[j] # n /\ (p.todo[j] = p.todo[k] => j = k)

PlacesOK(n, p, r, O, Q) ==
    /\ \A c \in O : c[3] = n \/ (c[1] = n /\ c[2] = r)
    /\ \A j \in Slots : p.slot[j] \in ConnId =>
          \/ p.slot[j][1] = n /\ j <= p.out
          \/ p.slot[j][3] = n /\ j = 1 /\ p.slot[j] \notin Range(Q)
    /\ \A j, k \in Slots : p.slot[j] \in ConnId /\ p.slot[j] = p.slot[k] => j = k
    /\ \A j, k \in DOMAIN Q : Q[j][3] = n /\ (Q[j] = Q[k] => j = k)

OpenOK(p, O, Q) ==
    /\ \A j \in Slots : p.slot[j] \in O \cup {Stdin, Closed}
    /\ \A j \in DOMAIN Q : Q[j] \in O

Greets(p) == {p.todo[j] : j \in (IF p.pc = "waiting" THEN 2 ELSE 1)..Len(p.todo)}

AllMade == {c \in ConnId : Made(c)}

Typed ==
    /\ members \in Seq(Node) /\ run \in [Node -> 0..MaxRuns] /\ proc \in [Node -> Locals]
    /\ queue \in [Node -> Seq(ConnId)] /\ open \in [Node -> SUBSET ConnId]
    /\ inbox \in [Node -> [ConnId -> Seq(Msg)]]

\* What is known of the client at n, its handshake aside.
ClientOK(n) ==
    /\ LocalsOK(n, proc[n], run[n], open[n], queue[n])
    /\ PlacesOK(n, proc[n], run[n], open[n], queue[n])
    /\ OpenOK(proc[n], open[n], queue[n])
    /\ open[n] \subseteq AllMade

\* The invariant is made of these parts, now and in the next state.
LEMMA Parts ==
    SwarmInv <=> /\ Typed /\ RegisteredEarlier
                 /\ \A n \in Node : ClientOK(n) /\ HandshakePending(n)
<1>1. TypeOK <=> Typed /\ \A n \in Node : OpenOK(proc[n], open[n], queue[n])
  BY Zenon DEF TypeOK, Typed, OpenOK, Msg
<1>2. \A n \in Node : LocalsKept(n) <=> LocalsOK(n, proc[n], run[n], open[n], queue[n])
  BY Zenon DEF LocalsKept, LocalsOK
<1>3. ASSUME Typed, NEW n \in Node
      PROVE  DescriptorsKept(n) <=>
                /\ PlacesOK(n, proc[n], run[n], open[n], queue[n])
                /\ open[n] \subseteq AllMade
  <2>1. open[n] \subseteq ConnId
    BY <1>3 DEF Typed
  <2>2. (\A c \in open[n] : Made(c)) <=> open[n] \subseteq AllMade
    BY <2>1, Zenon DEF AllMade
  <2> QED BY <2>2, Zenon DEF DescriptorsKept, PlacesOK
<1> QED BY <1>1, <1>2, <1>3, Zenon DEF SwarmInv, SocketsKept, ClientOK

LEMMA NextParts ==
    SwarmInv' <=> /\ Typed' /\ RegisteredEarlier'
                  /\ \A n \in Node : ClientOK(n)' /\ HandshakePending(n)'
<1>1. (SwarmInv <=> /\ Typed /\ RegisteredEarlier
                   /\ \A n \in Node : ClientOK(n) /\ HandshakePending(n))'
  BY Parts, PTL
<1> QED BY <1>1, Zenon

\* The sets and records of a state, one by one.
LEMMA TypedFacts ==
    ASSUME Typed, NEW n \in Node
    PROVE  /\ run[n] \in 0..MaxRuns /\ proc[n] \in Locals
           /\ queue[n] \in Seq(ConnId) /\ open[n] \subseteq ConnId
           /\ inbox[n] \in [ConnId -> Seq(Msg)]
BY DEF Typed

LEMMA LocalsFacts ==
    ASSUME NEW p \in Locals
    PROVE  /\ p.pc \in {"off", "registered", "connecting", "waiting", "poll", "serving", "overrun", "exited"}
           /\ p.todo \in Seq(Node) /\ p.slot \in [Slots -> ConnId \cup {Stdin, Closed}]
           /\ p.out \in {0} \cup Slots /\ p.max \in Nat /\ p.i \in {0} \cup Slots
           /\ p.pollout \subseteq Slots
           /\ p.out \in Nat /\ p.max \in Nat /\ p.i \in Nat /\ Len(p.todo) \in Nat
<1>1. /\ p.pc \in {"off", "registered", "connecting", "waiting", "poll", "serving", "overrun", "exited"}
      /\ p.todo \in Seq(Node) /\ p.slot \in [Slots -> ConnId \cup {Stdin, Closed}]
      /\ p.out \in {0} \cup Slots /\ p.max \in Nat /\ p.i \in {0} \cup Slots
      /\ p.pollout \subseteq Slots
  BY DEF Locals
<1> QED BY <1>1, SlotFacts

\* The new client of Exit() and RequestPeers().
LEMMA FreshFacts ==
    ASSUME NEW pc \in {"off", "registered", "exited"}, NEW t \in Seq(Node)
    PROVE  LET p == [FreshProc EXCEPT !.pc = pc, !.todo = t]
           IN  /\ p \in Locals /\ p.pc = pc /\ p.todo = t /\ p.slot = FreshProc.slot
               /\ p.out = 0 /\ p.max = 0 /\ \A j \in Slots : p.slot[j] = Stdin
<1> DEFINE p == [FreshProc EXCEPT !.pc = pc, !.todo = t]
<1>1. FreshProc \in Locals /\ \A j \in Slots : FreshProc.slot[j] = Stdin
  BY DEF FreshProc, Locals
<1>2. FreshProc.out = 0 /\ FreshProc.max = 0
  BY DEF FreshProc
<1>3. p \in Locals
  BY <1>1 DEF Locals
<1>4. /\ p.pc = pc /\ p.todo = t /\ p.slot = FreshProc.slot
      /\ p.out = FreshProc.out /\ p.max = FreshProc.max
  BY <1>1 DEF Locals
<1> QED BY <1>1, <1>2, <1>3, <1>4

LEMMA ExitedFacts ==
    LET p == [FreshProc EXCEPT !.pc = "exited"]
    IN  /\ p \in Locals /\ p.pc = "exited" /\ p.todo = << >> /\ p.slot = FreshProc.slot
        /\ p.out = 0 /\ p.max = 0 /\ \A j \in Slots : p.slot[j] = Stdin
<1> DEFINE p == [FreshProc EXCEPT !.pc = "exited"]
<1>1. FreshProc \in Locals /\ \A j \in Slots : FreshProc.slot[j] = Stdin
  BY DEF FreshProc, Locals
<1>2. FreshProc.out = 0 /\ FreshProc.max = 0 /\ FreshProc.todo = << >>
  BY DEF FreshProc
<1>3. p \in Locals
  BY <1>1 DEF Locals
<1>4. /\ p.pc = "exited" /\ p.todo = FreshProc.todo /\ p.slot = FreshProc.slot
      /\ p.out = FreshProc.out /\ p.max = FreshProc.max
  BY <1>1 DEF Locals
<1> QED BY <1>1, <1>2, <1>3, <1>4

(***************************************************************************)
(* Steps that change no more than the client's own locals and sockets.     *)
(***************************************************************************)
\* Connections that are made stay made.
LEMMA MadeGrows ==
    ASSUME \A c \in ConnId : Made(c) => Made(c)'
    PROVE  AllMade \subseteq AllMade'
BY DEF AllMade

LEMMA GreetsIs == \A x : ToGreet(x) = Greets(proc[x])
BY Zenon DEF ToGreet, Greets

LEMMA GreetsIsNext == \A x : ToGreet(x)' = Greets(proc'[x])
BY Zenon DEF ToGreet, Greets

\* A connection stays made as long as nobody has more peers to connect to.
LEMMA FewerToGreet ==
    ASSUME run' = run, \A x \in Node : Greets(proc'[x]) \subseteq Greets(proc[x]),
           NEW c \in ConnId, Made(c)
    PROVE  Made(c)'
<1>1. c[1] \in Node
  BY ConnFacts
<1>2. ToGreet(c[1])' \subseteq ToGreet(c[1])
  BY <1>1, GreetsIs, GreetsIsNext
<1> QED BY <1>2 DEF Made

Owned(n, p, O, Q) ==
    /\ proc' = [proc EXCEPT ![n] = p] /\ open' = [open EXCEPT ![n] = O]
    /\ queue' = [queue EXCEPT ![n] = Q] /\ UNCHANGED <<members, run>>

\* Nobody has peers in todo that it did not have before.
LEMMA RegistrationStays ==
    ASSUME RegisteredEarlier, UNCHANGED <<members, run>>,
           \A x \in Node : \A j \in DOMAIN proc'[x].todo :
              \E k \in DOMAIN proc[x].todo : proc'[x].todo[j] = proc[x].todo[k]
    PROVE  RegisteredEarlier'
<1>1. \A a, b \in DOMAIN members' : members'[a] = members'[b] => a = b
  BY Zenon DEF RegisteredEarlier
<1>2. \A n \in Node : n \in Range(members') <=> run'[n] > 0
  BY Zenon DEF RegisteredEarlier
<1>3. ASSUME NEW n \in Node, NEW j \in DOMAIN proc'[n].todo
      PROVE  /\ proc'[n].todo[j] \in Range(members')
             /\ \A a, b \in DOMAIN members' :
                   StartedOnce' /\ members'[a] = n /\ members'[b] = proc'[n].todo[j] => b < a
  <2>1. PICK k \in DOMAIN proc[n].todo : proc'[n].todo[j] = proc[n].todo[k]
    BY <1>3
  <2>2. /\ proc[n].todo[k] \in Range(members)
        /\ \A a, b \in DOMAIN members :
              StartedOnce /\ members[a] = n /\ members[b] = proc[n].todo[k] => b < a
    BY <2>1, Zenon DEF RegisteredEarlier
  <2>3. members' = members /\ (StartedOnce' <=> StartedOnce)
    BY DEF StartedOnce
  <2> QED BY <2>1, <2>2, <2>3, Zenon
<1> QED BY <1>1, <1>2, <1>3, Zenon DEF RegisteredEarlier, Range

\* What such a step has to show.
LEMMA OwnStep ==
    ASSUME SwarmInv, NEW n \in Node, NEW p \in Locals, NEW O \in SUBSET open[n],
           NEW Q \in Seq(ConnId), Owned(n, p, O, Q),
           LocalsOK(n, p, run[n], O, Q), PlacesOK(n, p, run[n], O, Q), OpenOK(p, O, Q),
           Greets(p) \subseteq Greets(proc[n]),
           \A j \in DOMAIN p.todo : \E k \in DOMAIN proc[n].todo : p.todo[j] = proc[n].todo[k],
           inbox' \in [Node -> [ConnId -> Seq(Msg)]]
    PROVE  Typed' /\ RegisteredEarlier' /\ \A x \in Node : ClientOK(x)'
<1>1. Typed /\ RegisteredEarlier /\ \A x \in Node : ClientOK(x)
  BY Parts
<1>2. open[n] \subseteq ConnId
  BY <1>1, TypedFacts
<1>3. Typed'
  BY <1>1, <1>2 DEF Typed, Owned
<1>4. /\ proc'[n] = p /\ open'[n] = O /\ queue'[n] = Q /\ run' = run
      /\ \A x \in Node : x # n => proc'[x] = proc[x] /\ open'[x] = open[x] /\ queue'[x] = queue[x]
  BY <1>1 DEF Typed, Owned
<1>5. \A x \in Node : Greets(proc'[x]) \subseteq Greets(proc[x])
  BY <1>4
<1>6. \A c \in ConnId : Made(c) => Made(c)'
  BY <1>4, <1>5, FewerToGreet
<1>7. RegisteredEarlier'
  <2>1. \A x \in Node : \A j \in DOMAIN proc'[x].todo :
           \E k \in DOMAIN proc[x].todo : proc'[x].todo[j] = proc[x].todo[k]
    <3> TAKE x \in Node
    <3>1. CASE x = n
      BY <1>4, <3>1, Zenon
    <3>2. CASE x # n
      BY <1>4, <3>2, Zenon
    <3> QED BY <3>1, <3>2
  <2> QED BY <1>1, <2>1, RegistrationStays DEF Owned
<1>8. ASSUME NEW x \in Node PROVE ClientOK(x)'
  <2>1. AllMade \subseteq AllMade'
    BY <1>6, MadeGrows
  <2>2. open[x] \subseteq AllMade
    BY <1>1 DEF ClientOK
  <2>3. open'[x] \subseteq AllMade'
    BY <1>4, <2>1, <2>2
  <2>4. /\ LocalsOK(x, proc'[x], run'[x], open'[x], queue'[x])
        /\ PlacesOK(x, proc'[x], run'[x], open'[x], queue'[x])
        /\ OpenOK(proc'[x], open'[x], queue'[x])
    <3>1. CASE x = n
      BY <1>4, <3>1
    <3>2. CASE x # n
      BY <1>1, <1>4, <3>2 DEF ClientOK
    <3> QED BY <3>1, <3>2
  <2> QED BY <2>3, <2>4, Zenon DEF ClientOK
<1> QED BY <1>3, <1>7, <1>8

(***************************************************************************)
(* Handshakes of the other clients.                                        *)
(***************************************************************************)
\* A step of n leaves the others' locals alone, opens only sockets that n makes, and
\* adds to what the others have yet to read, on connections of n only.
Undisturbed(n) ==
    /\ \A y \in Node : y # n =>
          /\ proc'[y] = proc[y] /\ run'[y] = run[y] /\ open[y] \subseteq open'[y]
          /\ Range(queue[y]) \subseteq Range(queue'[y])
          /\ \A c \in ConnId :
                /\ inbox[y][c] # << >> => inbox'[y][c] # << >>
                /\ c[1] # n /\ c[3] # n => inbox'[y][c] = inbox[y][c]
    /\ \A y \in Node : \A c \in open'[y] : c \in open[y] \/ c[1] = n

\* The handshake on c waits at a client with inboxes B, listen queue Q and locals p.
Kept(c, B, Q, p) ==
    /\ B[c] = <<"hs">>
    /\ c \in Range(Q) \/ (p.pc = "serving" /\ p.slot[p.i] = c)

\* A handshake that waits at n goes on waiting, or is answered, or n closes it.
AnswersOrKeeps(n) ==
    \A c \in ConnId :
        c[3] = n /\ c \in open[n] /\ c \in open[c[1]] /\ Kept(c, inbox[n], queue[n], proc[n]) =>
            c \notin open'[n] \/ inbox'[c[1]][c] # << >> \/ Kept(c, inbox'[n], queue'[n], proc'[n])

LEMMA OthersStillPending ==
    ASSUME SwarmInv, NEW n \in Node, NEW x \in Node, x # n, Undisturbed(n), AnswersOrKeeps(n)
    PROVE  HandshakePending(x)'
<1>1. Typed /\ ClientOK(x) /\ HandshakePending(x)
  BY Parts
<1>2. proc'[x] = proc[x] /\ run'[x] = run[x] /\ open[x] \subseteq open'[x]
  BY DEF Undisturbed
<1>3. SUFFICES ASSUME proc[x].pc = "waiting"
               PROVE  HandshakePending(x)'
  BY <1>2, Zenon DEF HandshakePending
<1> DEFINE m == Head(proc[x].todo)
           c == <<x, run[x], m>>
<1>4. /\ c \in open[x]
      /\ c \notin open[m] \/ inbox[x][c] # << >> \/ Kept(c, inbox[m], queue[m], proc[m])
  BY <1>1, <1>3, Zenon DEF HandshakePending, Awaited, client_socket, Kept, Current
<1>5. Head(proc[x].todo)' = m /\ Awaited(x)' = c
  BY <1>2, Zenon DEF Awaited, client_socket
<1>6. m \in Node
  BY <1>1, <1>3, TypedFacts, LocalsFacts DEF ClientOK, LocalsOK
<1>7. c \in ConnId /\ c[1] = x /\ c[3] = m
  BY <1>1, <1>4, TypedFacts
<1>8. c \in open'[x]
  BY <1>2, <1>4
<1> HIDE DEF c, m
<1>9. c \notin open'[m] \/ inbox'[x][c] # << >> \/ Kept(c, inbox'[m], queue'[m], proc'[m])
  <2>1. CASE c \notin open[m]
    BY <1>6, <1>7, <2>1 DEF Undisturbed
  <2>2. CASE inbox[x][c] # << >>
    BY <1>7, <2>2 DEF Undisturbed
  <2>3. CASE Kept(c, inbox[m], queue[m], proc[m]) /\ c \in open[m] /\ m = n
    BY <1>4, <1>7, <2>3 DEF AnswersOrKeeps
  <2>4. CASE Kept(c, inbox[m], queue[m], proc[m]) /\ m # n
    <3>1. /\ proc'[m] = proc[m] /\ Range(queue[m]) \subseteq Range(queue'[m])
          /\ inbox'[m][c] = inbox[m][c]
      BY <1>6, <1>7, <2>4 DEF Undisturbed
    <3> QED BY <2>4, <3>1 DEF Kept
  <2> QED BY <1>4, <2>1, <2>2, <2>3, <2>4
<1> QED BY <1>5, <1>8, <1>9, Zenon DEF HandshakePending, Kept, Current

\* So that a step keeps the invariant if it keeps the parts of OwnStep and its client
\* does not end up waiting.
LEMMA StepKeepsInv ==
    ASSUME SwarmInv, NEW n \in Node, Typed', RegisteredEarlier', \A x \in Node : ClientOK(x)',
           Undisturbed(n), AnswersOrKeeps(n), HandshakePending(n)'
    PROVE  SwarmInv'
<1>1. \A x \in Node : HandshakePending(x)'
  BY OthersStillPending
<1> QED BY <1>1, NextParts

(***************************************************************************)
(* The process ends.                                                       *)
(***************************************************************************)
LEMMA ExitKeepsInv ==
    ASSUME SwarmInv, NEW n \in Node, proc[n].pc # "off", Exit(n)
    PROVE  SwarmInv'
<1> DEFINE p == [FreshProc EXCEPT !.pc = "exited"]
<1>1. Typed /\ ClientOK(n)
  BY Parts
<1>2. /\ p \in Locals /\ p.pc = "exited" /\ p.todo = << >> /\ p.slot = FreshProc.slot
      /\ p.out = 0 /\ p.max = 0 /\ \A j \in Slots : p.slot[j] = Stdin
  BY ExitedFacts, Zenon
<1>3. Owned(n, p, {}, << >>)
  BY Zenon DEF Exit, Owned
<1> HIDE DEF p
<1>4. run[n] # 0 /\ run[n] \in Nat
  BY <1>1, TypedFacts, BoundsAssumption DEF ClientOK, LocalsOK
<1>5. LocalsOK(n, p, run[n], {}, << >>)
  BY <1>2, <1>4, SlotFacts DEF LocalsOK
<1>6. PlacesOK(n, p, run[n], {}, << >>) /\ OpenOK(p, {}, << >>)
  BY <1>2, SlotAssumption DEF PlacesOK, OpenOK, Range
<1>8. Greets(p) = {} /\ DOMAIN p.todo = {}
  BY <1>2 DEF Greets
<1>9. inbox' \in [Node -> [ConnId -> Seq(Msg)]]
  <2>1. \A m \in Node : inbox[m] \in [ConnId -> Seq(Msg)]
    BY <1>1, TypedFacts
  <2>2. EmptyBox \in [ConnId -> Seq(Msg)]
    BY DEF EmptyBox
  <2>3. \A m \in Node : \A c \in ConnId :
           inbox[m][c] \in Seq(Msg) /\ Append(inbox[m][c], "rst") \in Seq(Msg)
    BY <2>1 DEF Msg
  <2> QED BY <2>2, <2>3 DEF Exit
<1>10. Typed' /\ RegisteredEarlier' /\ \A x \in Node : ClientOK(x)'
  <2>1. {} \in SUBSET open[n] /\ << >> \in Seq(ConnId)
    OBVIOUS
  <2>2. /\ Greets(p) \subseteq Greets(proc[n])
        /\ \A j \in DOMAIN p.todo : \E k \in DOMAIN proc[n].todo : p.todo[j] = proc[n].todo[k]
    BY <1>8
  <2> QED BY <1>2, <1>3, <1>5, <1>6, <1>9, <2>1, <2>2, OwnStep, Zenon
<1>11. Undisturbed(n)
  <2>1. \A y \in Node : y # n => proc'[y] = proc[y] /\ run'[y] = run[y] /\ open'[y] = open[y]
                                 /\ queue'[y] = queue[y]
    BY <1>1, <1>3 DEF Owned, Typed
  <2>2. open'[n] = {}
    BY <1>1, <1>3 DEF Owned, Typed
  <2>3. ASSUME NEW y \in Node, y # n, NEW c \in ConnId
        PROVE  /\ inbox[y][c] # << >> => inbox'[y][c] # << >>
               /\ c[1] # n /\ c[3] # n => inbox'[y][c] = inbox[y][c]
    <3>1. inbox'[y][c] = IF c \in open[y] /\ c \in open[n] /\ inbox[n][c] # << >>
                         THEN Append(inbox[y][c], "rst") ELSE inbox[y][c]
      BY <2>3 DEF Exit
    <3>2. inbox[y][c] \in Seq(Msg)
      BY <1>1, TypedFacts
    <3>3. Append(inbox[y][c], "rst") # << >>
      BY <3>2, AppendFacts DEF Msg
    <3>4. c \in open[n] => c[1] = n \/ c[3] = n
      BY <1>1 DEF ClientOK, PlacesOK
    <3> QED BY <3>1, <3>3, <3>4
  <2> QED BY <2>1, <2>2, <2>3 DEF Undisturbed
<1>12. AnswersOrKeeps(n)
  BY <1>1, <1>3 DEF Owned, Typed, AnswersOrKeeps
<1>13. HandshakePending(n)'
  <2>1. proc'[n].pc = "exited"
    BY <1>1, <1>2, <1>3 DEF Owned, Typed
  <2> QED BY <2>1 DEF HandshakePending
<1> QED BY <1>10, <1>11, <1>12, <1>13, StepKeepsInv

(***************************************************************************)
(* Start-up.                                                               *)
(***************************************************************************)
\* A step that changes the locals only, and neither todo nor the entries of fds.
LEMMA LocalStep ==
    ASSUME SwarmInv, NEW n \in Node, NEW p \in Locals, proc' = [proc EXCEPT ![n] = p],
           UNCHANGED <<members, run, queue, open>>,
           inbox' \in [Node -> [ConnId -> Seq(Msg)]],
           p.slot = proc[n].slot, p.out = proc[n].out, p.max = proc[n].max,
           LocalsOK(n, p, run[n], open[n], queue[n]), Greets(p) \subseteq Greets(proc[n]),
           \A j \in DOMAIN p.todo : \E k \in DOMAIN proc[n].todo : p.todo[j] = proc[n].todo[k]
    PROVE  Typed' /\ RegisteredEarlier' /\ \A x \in Node : ClientOK(x)'
<1>1. Typed /\ ClientOK(n)
  BY Parts
<1>2. Owned(n, p, open[n], queue[n])
  BY <1>1 DEF Owned, Typed
<1>3. PlacesOK(n, p, run[n], open[n], queue[n]) /\ OpenOK(p, open[n], queue[n])
  BY <1>1, Zenon DEF ClientOK, PlacesOK, OpenOK
<1>4. queue[n] \in Seq(ConnId) /\ open[n] \in SUBSET open[n]
  BY <1>1, TypedFacts
<1> QED BY <1>2, <1>3, <1>4, OwnStep

\* With the inboxes unchanged as well, nobody is disturbed.
LEMMA QuietStep ==
    ASSUME Typed, NEW n \in Node, NEW p, proc' = [proc EXCEPT ![n] = p],
           UNCHANGED <<run, queue, open, inbox>>
    PROVE  Undisturbed(n) /\ proc'[n] = p
BY DEF Undisturbed, Typed

\* Locals that differ in pc, i and pollout only.
SameEntries(p, q) ==
    q.todo = p.todo /\ q.slot = p.slot /\ q.out = p.out /\ q.max = p.max

\* Such a change keeps what is known of the locals if nothing is left to connect to where
\* nothing should be, and the entry served is one in use.
LEMMA SameEntriesOK ==
    ASSUME NEW n \in Node, NEW p \in Locals, NEW q \in Locals, SameEntries(p, q),
           NEW r, NEW O, NEW Q, LocalsOK(n, p, r, O, Q),
           p.pc \notin {"off", "waiting"}, q.pc \in {"connecting", "poll", "serving", "overrun"},
           q.pc \in {"poll", "serving"} => p.todo = << >>, q.pc = "serving" => q.i \in 1..q.max,
           q.pc = "overrun" => q.max >= MaxPeers \/ q.todo # << >>
    PROVE  LocalsOK(n, q, r, O, Q) /\ Greets(q) \subseteq Greets(p)
<1>1. LocalsOK(n, q, r, O, Q)
  BY Zenon DEF LocalsOK, SameEntries
<1>2. Greets(q) \subseteq Greets(p)
  BY DEF Greets, SameEntries
<1> QED BY <1>1, <1>2

\* Steps to another place: configure_socket(), the end of start-up, a peer for which
\* there is no entry, and the end of a pass that left fds.
LEMMA GotoKeepsInv ==
    ASSUME SwarmInv, NEW n \in Node,
           \/ configure_socket(n) \/ EnterLoop(n) \/ OverrunPasses(n)
           \/ ConnectPeer(n) /\ proc[n].out + 1 \notin Slots
    PROVE  SwarmInv'
<1>1. Typed /\ ClientOK(n)
  BY Parts
<1>2. proc[n] \in Locals /\ LocalsOK(n, proc[n], run[n], open[n], queue[n])
  BY <1>1, TypedFacts DEF ClientOK
<1>3. PICK pc \in {"connecting", "poll", "overrun"} :
         /\ proc[n].pc \in {"registered", "connecting", "overrun"}
         /\ pc = "poll" => proc[n].todo = << >>
         /\ pc = "overrun" => proc[n].todo # << >>
         /\ proc' = [proc EXCEPT ![n].pc = pc] /\ UNCHANGED <<members, run, queue, open, inbox>>
  BY DEF configure_socket, EnterLoop, OverrunPasses, ConnectPeer, Goto
<1> DEFINE p == [proc[n] EXCEPT !.pc = pc]
<1>4. proc' = [proc EXCEPT ![n] = p]
  BY <1>1, <1>3 DEF Typed
<1>5. p \in Locals /\ p.pc = pc /\ SameEntries(proc[n], p)
  BY <1>2 DEF Locals, SameEntries
<1> HIDE DEF p
<1>6. LocalsOK(n, p, run[n], open[n], queue[n]) /\ Greets(p) \subseteq Greets(proc[n])
  BY <1>2, <1>3, <1>5, SameEntriesOK DEF SameEntries
<1>7. Typed' /\ RegisteredEarlier' /\ \A x \in Node : ClientOK(x)'
  <2>1. inbox' \in [Node -> [ConnId -> Seq(Msg)]]
    BY <1>1, <1>3 DEF Typed
  <2>2. \A j \in DOMAIN p.todo : \E k \in DOMAIN proc[n].todo : p.todo[j] = proc[n].todo[k]
    BY <1>5 DEF SameEntries
  <2> QED BY <1>3, <1>4, <1>5, <1>6, <2>1, <2>2, LocalStep DEF SameEntries
<1>8. Undisturbed(n) /\ proc'[n] = p
  BY <1>1, <1>3, <1>4, QuietStep
<1>9. AnswersOrKeeps(n)
  BY <1>3 DEF AnswersOrKeeps, Kept
<1>10. HandshakePending(n)'
  BY <1>3, <1>5, <1>8 DEF HandshakePending
<1> QED BY <1>7, <1>8, <1>9, <1>10, StepKeepsInv

(***************************************************************************)
(* The loop: poll() finds something, and an entry is passed over.          *)
(***************************************************************************)
\* Where the loop goes on.
LEMMA ContinueFacts ==
    ASSUME NEW p \in Locals, p.pc = "serving", NEW i \in Nat, i >= 1
    PROVE  /\ ContinueAt(p, i) \in Locals /\ SameEntries(p, ContinueAt(p, i))
           /\ ContinueAt(p, i).pc \in {"poll", "serving", "overrun"}
           /\ ContinueAt(p, i).pc = "serving" =>
                 ContinueAt(p, i).i \in 1..ContinueAt(p, i).max
           /\ ContinueAt(p, i).pc = "overrun" => ContinueAt(p, i).max >= MaxPeers
<1>0. p.max \in Nat
  BY LocalsFacts
<1>1. CASE i > p.max
  <2> DEFINE q == [p EXCEPT !.pc = "poll", !.i = 0, !.pollout = {}]
  <2>1. ContinueAt(p, i) = q
    <3>1. ~(i <= p.max)
      BY <1>0, <1>1
    <3>2. ContinueAt(p, i) = [p EXCEPT !.pc = IF i > p.max THEN "poll" ELSE "overrun",
                                       !.i = 0, !.pollout = {}]
      BY <3>1, Zenon DEF ContinueAt
    <3>3. (IF i > p.max THEN "poll" ELSE "overrun") = "poll"
      BY <1>1
    <3> QED BY <3>2, <3>3, Zenon
  <2>2. q \in Locals /\ q.pc = "poll" /\ SameEntries(p, q)
    BY DEF Locals, SameEntries
  <2> QED BY <2>1, <2>2
<1>2. CASE i <= p.max /\ i \in Slots
  <2> DEFINE q == [p EXCEPT !.i = i]
  <2>1. ContinueAt(p, i) = q
    BY <1>2 DEF ContinueAt
  <2>2. i \in 1..p.max
    BY <1>0, <1>2
  <2>3. q \in Locals /\ q.pc = "serving" /\ q.i = i /\ SameEntries(p, q)
    BY <1>2 DEF Locals, SameEntries
  <2> QED BY <2>1, <2>2, <2>3 DEF SameEntries
<1>3. CASE i <= p.max /\ i \notin Slots
  <2> DEFINE q == [p EXCEPT !.pc = "overrun", !.i = 0, !.pollout = {}]
  <2>1. ContinueAt(p, i) = q
    <3>1. ~(i > p.max)
      BY <1>0, <1>3
    <3>2. ContinueAt(p, i) = [p EXCEPT !.pc = IF i > p.max THEN "poll" ELSE "overrun",
                                       !.i = 0, !.pollout = {}]
      BY <1>3, Zenon DEF ContinueAt
    <3>3. (IF i > p.max THEN "poll" ELSE "overrun") = "overrun"
      BY <3>1
    <3> QED BY <3>2, <3>3, Zenon
  <2>2. q \in Locals /\ q.pc = "overrun" /\ SameEntries(p, q)
    BY DEF Locals, SameEntries
  <2>3. p.max >= MaxPeers
    BY <1>0, <1>3, SlotFacts
  <2> QED BY <2>1, <2>2, <2>3 DEF SameEntries
<1> QED BY <1>0, <1>1, <1>2, <1>3

\* A step of the loop that neither opens nor closes anything.
LEMMA LoopStep ==
    ASSUME SwarmInv, NEW n \in Node, NEW p \in Locals, proc' = [proc EXCEPT ![n] = p],
           UNCHANGED <<members, run, queue, open>>,
           inbox' \in [Node -> [ConnId -> Seq(Msg)]],
           proc[n].pc \in {"poll", "serving"}, SameEntries(proc[n], p),
           p.pc \in {"poll", "serving", "overrun"}, p.pc = "serving" => p.i \in 1..p.max,
           p.pc = "overrun" => p.max >= MaxPeers
    PROVE  /\ Typed' /\ RegisteredEarlier' /\ \A x \in Node : ClientOK(x)'
           /\ HandshakePending(n)' /\ proc'[n] = p
<1>1. Typed /\ ClientOK(n)
  BY Parts
<1>2. proc[n] \in Locals /\ LocalsOK(n, proc[n], run[n], open[n], queue[n])
  BY <1>1, TypedFacts DEF ClientOK
<1>3. proc[n].todo = << >>
  BY <1>2 DEF LocalsOK
<1>4. LocalsOK(n, p, run[n], open[n], queue[n]) /\ Greets(p) \subseteq Greets(proc[n])
  BY <1>2, <1>3, SameEntriesOK
<1>5. Typed' /\ RegisteredEarlier' /\ \A x \in Node : ClientOK(x)'
  <2>1. \A j \in DOMAIN p.todo : \E k \in DOMAIN proc[n].todo : p.todo[j] = proc[n].todo[k]
    BY DEF SameEntries
  <2> QED BY <1>4, <2>1, LocalStep DEF SameEntries
<1>6. proc'[n] = p
  BY <1>1 DEF Typed
<1>7. HandshakePending(n)'
  BY <1>6 DEF HandshakePending
<1> QED BY <1>5, <1>6, <1>7

LEMMA WritableSlots ==
    ASSUME Typed, NEW n \in Node
    PROVE  Writable(n) \subseteq Slots
<1>1. proc[n].out \in {0} \cup Slots
  BY TypedFacts, LocalsFacts
<1> QED BY <1>1, SlotFacts DEF Writable

LEMMA PollReadyKeepsInv ==
    ASSUME SwarmInv, NEW n \in Node, PollReady(n)
    PROVE  SwarmInv'
<1>1. Typed /\ ClientOK(n)
  BY Parts
<1>2. proc[n] \in Locals /\ proc[n].max \in Nat
  BY <1>1, TypedFacts, LocalsFacts
<1>3. /\ proc[n].pc = "poll" /\ queue[n] = << >> /\ proc[n].max > 0
      /\ UNCHANGED <<members, run, queue, open, inbox>>
  BY DEF PollReady
<1> DEFINE p == [proc[n] EXCEPT !.pc = "serving", !.i = 1, !.pollout = Writable(n)]
<1>4. proc' = [proc EXCEPT ![n] = p]
  BY DEF PollReady
<1>5. 1 \in Slots /\ Writable(n) \subseteq Slots
  BY <1>1, <1>2, <1>3, SlotFacts, WritableSlots
<1>6. p \in Locals /\ p.pc = "serving" /\ p.i = 1 /\ SameEntries(proc[n], p)
  BY <1>2, <1>5 DEF Locals, SameEntries
<1> HIDE DEF p
<1>7. p.i \in 1..p.max
  BY <1>2, <1>3, <1>6 DEF SameEntries
<1>8. inbox' \in [Node -> [ConnId -> Seq(Msg)]]
  BY <1>1, <1>3 DEF Typed
<1>9. /\ Typed' /\ RegisteredEarlier' /\ \A x \in Node : ClientOK(x)'
      /\ HandshakePending(n)' /\ proc'[n] = p
  BY <1>3, <1>4, <1>6, <1>7, <1>8, LoopStep
<1>10. Undisturbed(n)
  BY <1>1, <1>3, <1>4, QuietStep
<1>11. AnswersOrKeeps(n)
  BY <1>3 DEF AnswersOrKeeps, Kept, Range
<1> QED BY <1>9, <1>10, <1>11, StepKeepsInv

LEMMA ServeNoSocketKeepsInv ==
    ASSUME SwarmInv, NEW n \in Node, ServeNoSocket(n)
    PROVE  SwarmInv'
<1>1. Typed /\ ClientOK(n)
  BY Parts
<1>2. proc[n] \in Locals /\ proc[n].i \in Nat
  BY <1>1, TypedFacts, LocalsFacts
<1>3. /\ proc[n].pc = "serving" /\ proc[n].slot[proc[n].i] \in {Stdin, Closed}
      /\ UNCHANGED <<members, run, queue, open, inbox>>
  BY DEF ServeNoSocket, Current
<1> DEFINE p == ContinueAt(proc[n], proc[n].i + 1)
<1>4. proc' = [proc EXCEPT ![n] = p]
  BY DEF ServeNoSocket
<1>5. /\ p \in Locals /\ SameEntries(proc[n], p) /\ p.pc \in {"poll", "serving", "overrun"}
      /\ p.pc = "serving" => p.i \in 1..p.max
      /\ p.pc = "overrun" => p.max >= MaxPeers
  BY <1>2, <1>3, ContinueFacts
<1> HIDE DEF p
<1>6. inbox' \in [Node -> [ConnId -> Seq(Msg)]]
  BY <1>1, <1>3 DEF Typed
<1>7. /\ Typed' /\ RegisteredEarlier' /\ \A x \in Node : ClientOK(x)'
      /\ HandshakePending(n)' /\ proc'[n] = p
  BY <1>3, <1>4, <1>5, <1>6, LoopStep
<1>8. Undisturbed(n)
  BY <1>1, <1>3, <1>4, QuietStep
<1>9. AnswersOrKeeps(n)
  BY <1>3, SlotAssumption DEF AnswersOrKeeps, Kept
<1> QED BY <1>7, <1>8, <1>9, StepKeepsInv

\* A queue without its head.
LEMMA TailFacts ==
    ASSUME NEW S, NEW q \in Seq(S), q # << >>
    PROVE  /\ Head(q) \in S /\ Tail(q) \in Seq(S) /\ Len(Tail(q)) = Len(q) - 1
           /\ Len(q) \in Nat /\ Len(q) >= 1 /\ Head(q) = q[1] /\ 1 \in DOMAIN q
           /\ DOMAIN q = 1..Len(q) /\ DOMAIN Tail(q) = 1..(Len(q) - 1)
           /\ \A j \in 1..(Len(q) - 1) : Tail(q)[j] = q[j + 1] /\ j + 1 \in DOMAIN q
OBVIOUS

LEMMA PollAcceptKeepsInv ==
    ASSUME SwarmInv, NEW n \in Node, PollAccept(n)
    PROVE  SwarmInv'
<1>1. Typed /\ ClientOK(n)
  BY Parts
<1>2. /\ proc[n] \in Locals /\ proc[n].max \in Nat /\ proc[n].slot \in [Slots -> ConnId \cup {Stdin, Closed}]
      /\ queue[n] \in Seq(ConnId) /\ open[n] \subseteq ConnId
  BY <1>1, TypedFacts, LocalsFacts
<1>3. /\ proc[n].pc = "poll" /\ queue[n] # << >>
      /\ UNCHANGED <<members, run, open, inbox>>
  BY DEF PollAccept
<1> DEFINE h == Head(queue[n])
           Q == Tail(queue[n])
           p == [proc[n] EXCEPT !.pc = "serving", !.i = 1, !.pollout = Writable(n),
                                !.slot[1] = h, !.max = proc[n].max + 1]
<1>4. proc' = [proc EXCEPT ![n] = p] /\ queue' = [queue EXCEPT ![n] = Q]
  BY Zenon DEF PollAccept
<1>5. /\ h \in ConnId /\ Q \in Seq(ConnId) /\ Len(Q) = Len(queue[n]) - 1
      /\ Len(queue[n]) \in Nat /\ Len(queue[n]) >= 1 /\ h = queue[n][1] /\ 1 \in DOMAIN queue[n]
      /\ DOMAIN queue[n] = 1..Len(queue[n]) /\ DOMAIN Q = 1..(Len(queue[n]) - 1)
      /\ \A j \in 1..(Len(queue[n]) - 1) : Q[j] = queue[n][j + 1] /\ j + 1 \in DOMAIN queue[n]
  BY <1>2, <1>3, TailFacts
<1>6. 1 \in Slots
  BY SlotFacts
<1> HIDE DEF h, Q
<1>7. Writable(n) \subseteq Slots
  BY <1>1, WritableSlots
<1>8. /\ p \in Locals /\ p.pc = "serving" /\ p.i = 1 /\ p.max = proc[n].max + 1
      /\ p.todo = proc[n].todo /\ p.out = proc[n].out /\ p.slot = [proc[n].slot EXCEPT ![1] = h]
  <2>1. [proc[n].slot EXCEPT ![1] = h] \in [Slots -> ConnId \cup {Stdin, Closed}]
    BY <1>2, <1>5
  <2>2. proc[n].max + 1 \in Nat
    BY <1>2
  <2> DEFINE max == proc[n].max + 1
             w == Writable(n)
  <2> HIDE DEF max, w
  <2>3. p = [proc[n] EXCEPT !.pc = "serving", !.i = 1, !.pollout = w, !.slot[1] = h, !.max = max]
    BY Zenon DEF max, w
  <2>4. max \in Nat /\ w \subseteq Slots
    BY <1>7, <2>2 DEF max, w
  <2> HIDE DEF p
  <2>5. /\ p \in Locals /\ p.pc = "serving" /\ p.i = 1 /\ p.max = max
        /\ p.todo = proc[n].todo /\ p.out = proc[n].out /\ p.slot = [proc[n].slot EXCEPT ![1] = h]
    BY <1>2, <1>6, <2>1, <2>3, <2>4 DEF Locals
  <2> QED BY <2>5 DEF max
<1> HIDE DEF p
<1>9. LocalsOK(n, p, run[n], open[n], Q)
  <2>1. LocalsOK(n, proc[n], run[n], open[n], queue[n])
    BY <1>1 DEF ClientOK
  <2>2. p.i \in 1..p.max
    BY <1>2, <1>8
  <2>3. proc[n].todo = << >> /\ run[n] # 0
    BY <1>3, <2>1 DEF LocalsOK
  <2> QED BY <1>8, <2>2, <2>3 DEF LocalsOK
<1>10. p.slot[1] = h /\ \A j \in Slots : j # 1 => p.slot[j] = proc[n].slot[j]
  BY <1>2, <1>6, <1>8
<1>11. /\ PlacesOK(n, proc[n], run[n], open[n], queue[n])
       /\ OpenOK(proc[n], open[n], queue[n])
  BY <1>1 DEF ClientOK
<1>12. h[3] = n /\ h[1] # n /\ h \in open[n] /\ h \notin Range(Q)
  <2>1. h[3] = n /\ h \in open[n]
    BY <1>5, <1>11 DEF PlacesOK, OpenOK
  <2>2. h \notin Range(Q)
    <3> SUFFICES ASSUME NEW j \in DOMAIN Q, Q[j] = h PROVE FALSE
      BY DEF Range
    <3>1. queue[n][j + 1] = queue[n][1] /\ j + 1 \in DOMAIN queue[n] /\ j \in Int /\ j >= 1
      BY <1>5
    <3>2. j + 1 = 1
      BY <1>5, <1>11, <3>1, Zenon DEF PlacesOK
    <3> QED BY <3>1, <3>2
  <2> QED BY <1>5, <2>1, <2>2, ConnFacts
<1>13. PlacesOK(n, p, run[n], open[n], Q)
  <2>1. \A c \in open[n] : c[3] = n \/ (c[1] = n /\ c[2] = run[n])
    BY <1>11 DEF PlacesOK
  <2>2. ASSUME NEW j \in Slots, j # 1, proc[n].slot[j] \in ConnId
        PROVE  proc[n].slot[j][1] = n /\ j <= proc[n].out
    BY <1>11, <2>2 DEF PlacesOK
  <2>3. \A j \in Slots : p.slot[j] \in ConnId =>
           \/ p.slot[j][1] = n /\ j <= p.out
           \/ p.slot[j][3] = n /\ j = 1 /\ p.slot[j] \notin Range(Q)
    BY <1>8, <1>10, <1>12, <2>2, Zenon
  <2>4. ASSUME NEW j \in Slots, NEW k \in Slots, p.slot[j] \in ConnId, p.slot[j] = p.slot[k]
        PROVE  j = k
    <3>1. CASE j # 1 /\ k # 1
      BY <1>10, <1>11, <2>4, <3>1, Zenon DEF PlacesOK
    <3>2. CASE j = 1 \/ k = 1
      <4>1. CASE j = 1 /\ k # 1
        <5>1. proc[n].slot[k] = h
          BY <1>10, <2>4, <4>1, Zenon
        <5> QED BY <1>5, <1>12, <2>2, <4>1, <5>1, Zenon
      <4>2. CASE k = 1 /\ j # 1
        <5>1. proc[n].slot[j] = h
          BY <1>10, <2>4, <4>2, Zenon
        <5> QED BY <1>5, <1>12, <2>2, <4>2, <5>1, Zenon
      <4> QED BY <3>2, <4>1, <4>2
    <3> QED BY <3>1, <3>2
  <2>5. ASSUME NEW j \in DOMAIN Q, NEW k \in DOMAIN Q
        PROVE  Q[j][3] = n /\ (Q[j] = Q[k] => j = k)
    <3>1. /\ Q[j] = queue[n][j + 1] /\ j + 1 \in DOMAIN queue[n] /\ j \in Int
          /\ Q[k] = queue[n][k + 1] /\ k + 1 \in DOMAIN queue[n] /\ k \in Int
      BY <1>5
    <3>2. queue[n][j + 1][3] = n /\ (queue[n][j + 1] = queue[n][k + 1] => j + 1 = k + 1)
      BY <1>11, <3>1, Zenon DEF PlacesOK
    <3> QED BY <3>1, <3>2
  <2> QED BY <2>1, <2>3, <2>4, <2>5, Zenon DEF PlacesOK
<1>14. OpenOK(p, open[n], Q)
  <2>1. \A j \in Slots : p.slot[j] \in open[n] \cup {Stdin, Closed}
    BY <1>10, <1>11, <1>12, Zenon DEF OpenOK
  <2>2. \A j \in DOMAIN Q : Q[j] \in open[n]
    BY <1>5, <1>11 DEF OpenOK
  <2> QED BY <2>1, <2>2 DEF OpenOK
<1>15. Typed' /\ RegisteredEarlier' /\ \A x \in Node : ClientOK(x)'
  <2>1. Owned(n, p, open[n], Q)
    BY <1>1, <1>3, <1>4 DEF Owned, Typed
  <2>3. /\ Greets(p) \subseteq Greets(proc[n])
        /\ \A j \in DOMAIN p.todo : \E k \in DOMAIN proc[n].todo : p.todo[j] = proc[n].todo[k]
    BY <1>3, <1>8 DEF Greets
  <2>4. inbox' \in [Node -> [ConnId -> Seq(Msg)]]
    BY <1>1, <1>3 DEF Typed
  <2> QED BY <1>5, <1>8, <1>9, <1>13, <1>14, <2>1, <2>3, <2>4, OwnStep
<1>16. Undisturbed(n) /\ proc'[n] = p /\ queue'[n] = Q
  BY <1>1, <1>3, <1>4 DEF Undisturbed, Typed
<1>17. AnswersOrKeeps(n)
  <2> SUFFICES ASSUME NEW c \in ConnId, Kept(c, inbox[n], queue[n], proc[n])
               PROVE  Kept(c, inbox'[n], queue'[n], proc'[n])
    BY Zenon DEF AnswersOrKeeps
  <2>1. inbox'[n][c] = <<"hs">> /\ c \in Range(queue[n])
    BY <1>3 DEF Kept
  <2>2. PICK j \in DOMAIN queue[n] : c = queue[n][j]
    BY <2>1 DEF Range
  <2>3. CASE j = 1
    <3>1. proc'[n].pc = "serving" /\ proc'[n].slot[proc'[n].i] = c
      BY <1>5, <1>8, <1>10, <1>16, <2>2, <2>3
    <3> QED BY <2>1, <3>1 DEF Kept
  <2>4. CASE j # 1
    <3>1. j - 1 \in 1..(Len(queue[n]) - 1) /\ (j - 1) + 1 = j
      BY <1>5, <2>4
    <3>2. j - 1 \in DOMAIN Q /\ Q[j - 1] = c
      BY <1>5, <2>2, <3>1
    <3>3. c \in Range(queue'[n])
      BY <1>16, <3>2 DEF Range
    <3> QED BY <2>1, <3>3 DEF Kept
  <2> QED BY <2>3, <2>4
<1>18. HandshakePending(n)'
  BY <1>8, <1>16 DEF HandshakePending
<1> QED BY <1>15, <1>16, <1>17, <1>18, StepKeepsInv

(***************************************************************************)
(* Receiving and sending.                                                  *)
(***************************************************************************)
Boxes == [Node -> [ConnId -> Seq(Msg)]]

\* From A to B, n has sent: the inboxes of others have grown, on connections of n.
Grown(n, A, B) ==
    \A y \in Node : \A d \in ConnId :
        /\ A[y][d] # << >> => B[y][d] # << >>
        /\ y = n \/ (d[1] # n /\ d[3] # n) => B[y][d] = A[y][d]

LEMMA ReadFacts ==
    ASSUME Typed, NEW n \in Node, NEW c \in ConnId, NEW k \in Chunks(n, c)
    PROVE  /\ Read(n, c, k) \in Boxes
           /\ \A y \in Node : \A d \in ConnId : y # n \/ d # c => Read(n, c, k)[y][d] = inbox[y][d]
<1>1. inbox \in Boxes /\ inbox[n] \in [ConnId -> Seq(Msg)] /\ inbox[n][c] \in Seq(Msg)
  BY DEF Typed, Boxes
<1>2. k \in 1..Len(inbox[n][c])
  BY DEF Chunks
<1> DEFINE v == IF inbox[n][c][1] = "rst" THEN <<"hup">>
                ELSE SubSeq(inbox[n][c], k + 1, Len(inbox[n][c]))
<1>3. v \in Seq(Msg)
  <2>1. <<"hup">> \in Seq(Msg)
    BY DEF Msg
  <2>2. SubSeq(inbox[n][c], k + 1, Len(inbox[n][c])) \in Seq(Msg)
    BY <1>1, <1>2
  <2> QED BY <2>1, <2>2
<1>4. Read(n, c, k) = [inbox EXCEPT ![n][c] = v]
  BY Zenon DEF Read
<1> HIDE DEF v
<1> QED BY <1>1, <1>3, <1>4 DEF Boxes

LEMMA DeliverFacts ==
    ASSUME NEW box \in Boxes, NEW n \in Node, NEW c \in ConnId, c[1] = n \/ c[3] = n,
           NEW msg \in Msg
    PROVE  /\ Deliver(box, n, c, msg) \in Boxes /\ Grown(n, box, Deliver(box, n, c, msg))
           /\ c \in open[Other(c, n)] => Deliver(box, n, c, msg)[Other(c, n)][c] # << >>
<1> DEFINE o == Other(c, n)
<1>1. o \in Node /\ o # n
  BY OtherEnd
<1>2. CASE c \notin open[o]
  <2>1. Deliver(box, n, c, msg) = box
    BY <1>2 DEF Deliver
  <2> QED BY <1>2, <2>1 DEF Grown
<1>3. CASE c \in open[o]
  <2> DEFINE v == Append(box[o][c], msg)
  <2>1. Deliver(box, n, c, msg) = [box EXCEPT ![o][c] = v]
    BY <1>3, Zenon DEF Deliver
  <2>2. box[o] \in [ConnId -> Seq(Msg)] /\ box[o][c] \in Seq(Msg)
    BY <1>1 DEF Boxes
  <2>3. v \in Seq(Msg) /\ v # << >>
    BY <2>2, AppendFacts
  <2> HIDE DEF v, o
  <2> DEFINE D == [box EXCEPT ![o][c] = v]
  <2>4. D \in Boxes /\ D[o][c] = v
    BY <1>1, <2>3 DEF Boxes
  <2>5. \A y \in Node : \A d \in ConnId : y # o \/ d # c => D[y][d] = box[y][d]
    BY <1>1 DEF Boxes
  <2> HIDE DEF D
  <2>6. Grown(n, box, D)
    <3> SUFFICES ASSUME NEW y \in Node, NEW d \in ConnId
                 PROVE  /\ box[y][d] # << >> => D[y][d] # << >>
                        /\ y = n \/ (d[1] # n /\ d[3] # n) => D[y][d] = box[y][d]
      BY DEF Grown
    <3>1. CASE y = o /\ d = c
      BY <1>1, <2>3, <2>4, <3>1
    <3>2. CASE ~(y = o /\ d = c)
      BY <2>5, <3>2
    <3> QED BY <3>1, <3>2
  <2> QED BY <2>1, <2>3, <2>4, <2>6 DEF D, o
<1> QED BY <1>2, <1>3

LEMMA GrownTwice ==
    ASSUME NEW n \in Node, NEW A, NEW B, NEW C, Grown(n, A, B), Grown(n, B, C)
    PROVE  Grown(n, A, C)
BY DEF Grown

\* A client that reads from one of its sockets and sends on its sockets disturbs nobody.
LEMMA ReadAndSend ==
    ASSUME Typed, NEW n \in Node, NEW c \in ConnId, c[1] = n \/ c[3] = n, NEW k \in Chunks(n, c),
           Grown(n, Read(n, c, k), inbox'),
           NEW p, proc' = [proc EXCEPT ![n] = p], UNCHANGED <<run, queue, open>>
    PROVE  /\ Undisturbed(n)
           /\ \A d \in ConnId : d # c => inbox'[n][d] = inbox[n][d]
<1> DEFINE A == Read(n, c, k)
<1>1. \A y \in Node : \A d \in ConnId : y # n \/ d # c => A[y][d] = inbox[y][d]
  BY ReadFacts
<1> HIDE DEF A
<1>2. \A d \in ConnId : d # c => inbox'[n][d] = inbox[n][d]
  BY <1>1 DEF Grown, A
<1>3. ASSUME NEW y \in Node, y # n, NEW d \in ConnId
      PROVE  /\ inbox[y][d] # << >> => inbox'[y][d] # << >>
             /\ d[1] # n /\ d[3] # n => inbox'[y][d] = inbox[y][d]
  BY <1>1, <1>3 DEF Grown, A
<1>4. \A y \in Node : y # n => proc'[y] = proc[y] /\ run'[y] = run[y] /\ open'[y] = open[y]
                               /\ queue'[y] = queue[y]
  BY DEF Typed
<1> QED BY <1>2, <1>3, <1>4 DEF Undisturbed

LEMMA HandshakeReplyKeepsInv ==
    ASSUME SwarmInv, NEW n \in Node, HandshakeReply(n)
    PROVE  SwarmInv'
<1>1. Typed /\ ClientOK(n) /\ HandshakePending(n)
  BY Parts
<1>2. proc[n] \in Locals /\ proc[n].todo \in Seq(Node) /\ proc[n].out \in Nat
  BY <1>1, TypedFacts, LocalsFacts
<1>3. /\ proc[n].pc = "waiting" /\ UNCHANGED <<members, run, queue, open>>
      /\ proc' = [proc EXCEPT ![n].pc = "connecting", ![n].todo = Tail(@)]
  BY DEF HandshakeReply
<1> DEFINE c == Awaited(n)
<1>4. c \in ConnId /\ c[1] = n
  BY <1>1, <1>3, TypedFacts DEF HandshakePending, Awaited, client_socket
<1>5. PICK k \in Chunks(n, c) :
         inbox' = IF Received(n, c, k) = <<"hsbf">>
                  THEN Deliver(Read(n, c, k), n, c, "pwp") ELSE Read(n, c, k)
  BY Zenon DEF HandshakeReply
<1> HIDE DEF c
<1>6. inbox' \in Boxes /\ Grown(n, Read(n, c, k), inbox')
  <2>1. Read(n, c, k) \in Boxes
    BY <1>1, <1>4, ReadFacts
  <2>2. "pwp" \in Msg
    BY DEF Msg
  <2>3. /\ Deliver(Read(n, c, k), n, c, "pwp") \in Boxes
        /\ Grown(n, Read(n, c, k), Deliver(Read(n, c, k), n, c, "pwp"))
    BY <1>4, <2>1, <2>2, DeliverFacts
  <2>4. Grown(n, Read(n, c, k), Read(n, c, k))
    BY DEF Grown
  <2> QED BY <1>5, <2>1, <2>3, <2>4
<1> DEFINE t == Tail(proc[n].todo)
           p == [proc[n] EXCEPT !.pc = "connecting", !.todo = t]
<1>7. proc' = [proc EXCEPT ![n] = p]
  BY <1>1, <1>3 DEF Typed
<1>8. LocalsOK(n, proc[n], run[n], open[n], queue[n])
  BY <1>1 DEF ClientOK
<1>9. /\ t \in Seq(Node) /\ Len(t) = Len(proc[n].todo) - 1 /\ Len(proc[n].todo) \in Nat
      /\ Len(proc[n].todo) >= 1
      /\ DOMAIN proc[n].todo = 1..Len(proc[n].todo) /\ DOMAIN t = 1..(Len(proc[n].todo) - 1)
      /\ \A j \in 1..(Len(proc[n].todo) - 1) :
            t[j] = proc[n].todo[j + 1] /\ j + 1 \in DOMAIN proc[n].todo
  <2>1. proc[n].todo # << >>
    BY <1>3, <1>8 DEF LocalsOK
  <2> QED BY <1>2, <2>1, TailFacts
<1> HIDE DEF t
<1>10. /\ p \in Locals /\ p.pc = "connecting" /\ p.todo = t /\ p.slot = proc[n].slot
       /\ p.out = proc[n].out /\ p.max = proc[n].max
  BY <1>2, <1>9 DEF Locals
<1> HIDE DEF p
<1>11. LocalsOK(n, p, run[n], open[n], queue[n])
  <2>1. run[n] # 0
    BY <1>3, <1>8 DEF LocalsOK
  <2>2. ASSUME NEW j \in DOMAIN t, NEW k1 \in DOMAIN t
        PROVE  t[j] # n /\ (t[j] = t[k1] => j = k1)
    <3>1. /\ t[j] = proc[n].todo[j + 1] /\ j + 1 \in DOMAIN proc[n].todo /\ j \in Int
          /\ t[k1] = proc[n].todo[k1 + 1] /\ k1 + 1 \in DOMAIN proc[n].todo /\ k1 \in Int
      BY <1>9
    <3>2. /\ proc[n].todo[j + 1] # n
          /\ proc[n].todo[j + 1] = proc[n].todo[k1 + 1] => j + 1 = k1 + 1
      BY <1>8, <3>1, Zenon DEF LocalsOK
    <3> QED BY <3>1, <3>2
  <2> QED BY <1>10, <2>1, <2>2 DEF LocalsOK
<1>12. /\ Greets(p) \subseteq Greets(proc[n])
       /\ \A j \in DOMAIN p.todo : \E i \in DOMAIN proc[n].todo : p.todo[j] = proc[n].todo[i]
  <2>1. \A j \in 1..Len(t) : j + 1 \in 2..Len(proc[n].todo) /\ t[j] = proc[n].todo[j + 1]
    BY <1>9
  <2>2. Greets(p) = {t[j] : j \in 1..Len(t)} /\ Greets(proc[n]) = {proc[n].todo[j] : j \in 2..Len(proc[n].todo)}
    BY <1>3, <1>10 DEF Greets
  <2>3. Greets(p) \subseteq Greets(proc[n])
    BY <2>1, <2>2
  <2> QED BY <1>9, <1>10, <2>3
<1>13. Typed' /\ RegisteredEarlier' /\ \A x \in Node : ClientOK(x)'
  BY <1>3, <1>6, <1>7, <1>10, <1>11, <1>12, LocalStep DEF Boxes
<1>14. Undisturbed(n) /\ \A d \in ConnId : d # c => inbox'[n][d] = inbox[n][d]
  <2>1. UNCHANGED <<run, queue, open>> /\ (c[1] = n \/ c[3] = n)
    BY <1>3, <1>4
  <2> QED BY <1>1, <1>4, <1>6, <1>7, <2>1, ReadAndSend, Zenon
<1>15. AnswersOrKeeps(n)
  <2> SUFFICES ASSUME NEW d \in ConnId, d[3] = n, Kept(d, inbox[n], queue[n], proc[n])
               PROVE  Kept(d, inbox'[n], queue'[n], proc'[n])
    BY Zenon DEF AnswersOrKeeps
  <2>1. inbox'[n][d] = inbox[n][d]
    BY <1>4, <1>14, ConnFacts
  <2> QED BY <1>3, <2>1 DEF Kept
<1>16. HandshakePending(n)'
  <2>1. proc'[n].pc = "connecting"
    BY <1>1, <1>7, <1>10 DEF Typed
  <2> QED BY <2>1 DEF HandshakePending
<1> QED BY <1>13, <1>14, <1>15, <1>16, StepKeepsInv

(***************************************************************************)
(* An entry is served.                                                     *)
(***************************************************************************)
\* The entry the loop is at is in use, and a socket in it is one of the client's own,
\* is in no other entry, and is not in the listen queue.
LEMMA CurrentFacts ==
    ASSUME Typed, NEW n \in Node, ClientOK(n), proc[n].pc = "serving", Current(n) \in ConnId
    PROVE  /\ proc[n].i \in Slots /\ proc[n].i \in Nat /\ proc[n].i >= 1
           /\ Current(n) = proc[n].slot[proc[n].i]
           /\ Current(n) \in open[n] /\ (Current(n)[1] = n \/ Current(n)[3] = n)
           /\ \A j \in Slots : proc[n].slot[j] = Current(n) => j = proc[n].i
           /\ Current(n) \notin Range(queue[n])
<1> DEFINE c == Current(n)
<1>1. /\ proc[n].i \in {0} \cup Slots /\ proc[n].max \in Nat /\ proc[n].i \in Nat
      /\ queue[n] \in Seq(ConnId)
  BY TypedFacts, LocalsFacts
<1>2. proc[n].i \in 1..proc[n].max
  BY DEF ClientOK, LocalsOK
<1>3. proc[n].i \in Slots
  BY <1>1, <1>2
<1>4. c = proc[n].slot[proc[n].i]
  BY DEF Current
<1> HIDE DEF c
<1>5. OpenOK(proc[n], open[n], queue[n]) /\ PlacesOK(n, proc[n], run[n], open[n], queue[n])
  BY DEF ClientOK
<1>6. c \in ConnId
  BY DEF c
<1>7. c \in open[n]
  BY <1>3, <1>4, <1>5, <1>6, SlotAssumption DEF OpenOK
<1>8. c[1] = n \/ (c[3] = n /\ c \notin Range(queue[n]))
  BY <1>3, <1>4, <1>5, <1>6, Zenon DEF PlacesOK
<1>9. c \notin Range(queue[n])
  <2> SUFFICES ASSUME NEW j \in DOMAIN queue[n], queue[n][j] = c PROVE FALSE
    BY DEF Range
  <2>1. c[3] = n
    BY <1>5, Zenon DEF PlacesOK
  <2>2. c[1] # n
    BY <1>6, <2>1, ConnFacts
  <2> QED BY <1>8, <2>2 DEF Range
<1>10. \A j \in Slots : proc[n].slot[j] = c => j = proc[n].i
  BY <1>3, <1>4, <1>5, <1>6, Zenon DEF PlacesOK
<1> QED BY <1>1, <1>2, <1>3, <1>4, <1>7, <1>8, <1>9, <1>10 DEF c

\* What the POLLOUT branch may have done.
LEMMA BranchFacts ==
    ASSUME Typed, NEW n \in Node, ClientOK(n), proc[n].i \in Nat, proc[n].i >= 1,
           NEW box \in Boxes, NEW r \in PolloutBranch(n, box)
    PROVE  r.box \in Boxes /\ Grown(n, box, r.box) /\ r.i \in Nat /\ r.i >= 1
<1>1. CASE r = [box |-> box, i |-> proc[n].i]
  BY <1>1 DEF Grown
<1>2. CASE r # [box |-> box, i |-> proc[n].i]
  <2>1. PICK j \in Slots : /\ proc[n].slot[j] \in ConnId
                           /\ r = [box |-> Deliver(box, n, proc[n].slot[j], "pwp"), i |-> j]
    BY <1>2 DEF PolloutBranch
  <2>2. proc[n].slot[j][1] = n \/ proc[n].slot[j][3] = n
    BY <2>1, Zenon DEF ClientOK, PlacesOK
  <2>3. "pwp" \in Msg
    BY DEF Msg
  <2> DEFINE D == Deliver(box, n, proc[n].slot[j], "pwp")
  <2>4. D \in Boxes /\ Grown(n, box, D)
    BY <2>1, <2>2, <2>3, DeliverFacts
  <2>5. r.box = D /\ r.i = j
    BY <2>1
  <2>6. j \in Nat /\ j >= 1
    BY SlotFacts
  <2> QED BY <2>4, <2>5, <2>6
<1> QED BY <1>1, <1>2

LEMMA ServeReceiveKeepsInv ==
    ASSUME SwarmInv, NEW n \in Node, ServeReceive(n)
    PROVE  SwarmInv'
<1>1. Typed /\ ClientOK(n)
  BY Parts
<1> DEFINE c == Current(n)
<1>2. proc[n].pc = "serving" /\ c \in ConnId /\ UNCHANGED <<members, run, queue, open>>
  BY DEF ServeReceive
<1>3. /\ proc[n].i \in Nat /\ proc[n].i >= 1 /\ proc[n].slot[proc[n].i] = c
      /\ (c[1] = n \/ c[3] = n) /\ c \notin Range(queue[n])
  BY <1>1, <1>2, CurrentFacts
<1> DEFINE first(k) == IF Received(n, c, k) = <<"hs">>
                       THEN Deliver(Read(n, c, k), n, c, "hsbf") ELSE Read(n, c, k)
<1>4. PICK k \in Chunks(n, c) : \E r \in PolloutBranch(n, first(k)) :
         inbox' = r.box /\ proc' = [proc EXCEPT ![n] = ContinueAt(proc[n], r.i + 1)]
  BY Zenon DEF ServeReceive
<1> DEFINE A == first(k)
<1>5. PICK r \in PolloutBranch(n, A) :
         inbox' = r.box /\ proc' = [proc EXCEPT ![n] = ContinueAt(proc[n], r.i + 1)]
  BY <1>4, Zenon
<1> HIDE DEF c
<1>6. Read(n, c, k) \in Boxes
  BY <1>1, <1>2, ReadFacts
<1>7. /\ A \in Boxes /\ Grown(n, Read(n, c, k), A)
      /\ Received(n, c, k) = <<"hs">> /\ c \in open[Other(c, n)] => A[Other(c, n)][c] # << >>
  <2>1. "hsbf" \in Msg
    BY DEF Msg
  <2> DEFINE D == Deliver(Read(n, c, k), n, c, "hsbf")
  <2>2. /\ D \in Boxes /\ Grown(n, Read(n, c, k), D)
        /\ c \in open[Other(c, n)] => D[Other(c, n)][c] # << >>
    BY <1>2, <1>3, <1>6, <2>1, DeliverFacts
  <2>3. Grown(n, Read(n, c, k), Read(n, c, k))
    BY DEF Grown
  <2> HIDE DEF D
  <2>4. A = IF Received(n, c, k) = <<"hs">> THEN D ELSE Read(n, c, k)
    BY DEF D
  <2> HIDE DEF A
  <2> QED BY <1>6, <2>2, <2>3, <2>4
<1> HIDE DEF A
<1>8. r.box \in Boxes /\ Grown(n, A, r.box) /\ r.i \in Nat /\ r.i >= 1
  BY <1>1, <1>3, <1>5, <1>7, BranchFacts
<1>9. inbox' \in Boxes /\ Grown(n, A, inbox') /\ Grown(n, Read(n, c, k), inbox')
  <2>1. Grown(n, Read(n, c, k), r.box)
    BY <1>7, <1>8, GrownTwice
  <2> QED BY <1>5, <1>8, <2>1
<1> DEFINE p == ContinueAt(proc[n], r.i + 1)
<1>10. /\ p \in Locals /\ SameEntries(proc[n], p) /\ p.pc \in {"poll", "serving", "overrun"}
       /\ p.pc = "serving" => p.i \in 1..p.max
       /\ p.pc = "overrun" => p.max >= MaxPeers
  <2>1. proc[n] \in Locals /\ r.i + 1 \in Nat /\ r.i + 1 >= 1
    BY <1>1, <1>8, TypedFacts
  <2> QED BY <1>2, <2>1, ContinueFacts
<1>11. proc' = [proc EXCEPT ![n] = p]
  BY <1>5
<1> HIDE DEF p
<1>12. /\ Typed' /\ RegisteredEarlier' /\ \A x \in Node : ClientOK(x)'
       /\ HandshakePending(n)' /\ proc'[n] = p
  BY <1>2, <1>9, <1>10, <1>11, LoopStep DEF Boxes
<1>13. Undisturbed(n) /\ \A d \in ConnId : d # c => inbox'[n][d] = inbox[n][d]
  <2>1. UNCHANGED <<run, queue, open>>
    BY <1>2
  <2> QED BY <1>1, <1>2, <1>3, <1>9, <1>11, <2>1, ReadAndSend, Zenon
<1>14. AnswersOrKeeps(n)
  <2> SUFFICES ASSUME NEW d \in ConnId, d[3] = n, d \in open[d[1]],
                      Kept(d, inbox[n], queue[n], proc[n])
               PROVE  inbox'[d[1]][d] # << >> \/ Kept(d, inbox'[n], queue'[n], proc'[n])
    BY Zenon DEF AnswersOrKeeps
  <2>1. CASE d \in Range(queue[n])
    <3>1. inbox'[n][d] = inbox[n][d] /\ queue'[n] = queue[n]
      BY <1>2, <1>3, <1>13, <2>1
    <3> QED BY <2>1, <3>1 DEF Kept
  <2>2. CASE d = c
    <3>1. inbox[n][c] = <<"hs">>
      BY <2>2 DEF Kept
    <3>2. Received(n, c, k) = <<"hs">>
      <4>1. k \in 1..Len(inbox[n][c]) /\ Len(<<"hs">>) = 1
        BY <1>4 DEF Chunks
      <4>2. k = 1
        BY <3>1, <4>1
      <4>3. inbox[n][c] \in Seq(Msg)
        BY <1>1, <1>2, TypedFacts
      <4>4. SubSeq(inbox[n][c], 1, Len(inbox[n][c])) = inbox[n][c]
        BY <4>3, SubSeqFull, Zenon
      <4> QED BY <3>1, <4>1, <4>2, <4>4 DEF Received
    <3>3. Other(c, n) = d[1] /\ d[1] \in Node
      BY <2>2, OtherEnd, ConnFacts
    <3>4. A[d[1]][d] # << >>
      BY <1>7, <2>2, <3>2, <3>3
    <3> QED BY <1>9, <3>3, <3>4 DEF Grown
  <2> QED BY <1>3, <2>1, <2>2 DEF Kept
<1> QED BY <1>12, <1>13, <1>14, StepKeepsInv

LEMMA ServeEofKeepsInv ==
    ASSUME SwarmInv, NEW n \in Node, ServeEof(n)
    PROVE  SwarmInv'
<1>1. Typed /\ ClientOK(n)
  BY Parts
<1> DEFINE c == Current(n)
           i == proc[n].i
           O == open[n] \ {c}
           q == [proc[n] EXCEPT !.slot[i] = Closed]
           p == ContinueAt(q, i + 1)
<1>2. proc[n].pc = "serving" /\ c \in ConnId /\ UNCHANGED <<members, run, queue>>
  BY DEF ServeEof
<1>3. /\ proc' = [proc EXCEPT ![n] = p] /\ open' = [open EXCEPT ![n] = O]
      /\ inbox' = [inbox EXCEPT ![n][c] = << >>]
  BY Zenon DEF ServeEof
<1>4. /\ i \in Slots /\ i \in Nat /\ i >= 1 /\ c \notin Range(queue[n])
      /\ \A j \in Slots : proc[n].slot[j] = c => j = i
  BY <1>1, <1>2, CurrentFacts
<1>5. /\ proc[n] \in Locals /\ proc[n].slot \in [Slots -> ConnId \cup {Stdin, Closed}]
      /\ queue[n] \in Seq(ConnId)
  BY <1>1, TypedFacts, LocalsFacts
<1> HIDE DEF c, i
<1>6. /\ q \in Locals /\ q.pc = "serving" /\ q.todo = proc[n].todo /\ q.out = proc[n].out
      /\ q.max = proc[n].max /\ q.slot = [proc[n].slot EXCEPT ![i] = Closed]
  <2>1. [proc[n].slot EXCEPT ![i] = Closed] \in [Slots -> ConnId \cup {Stdin, Closed}]
    BY <1>5
  <2> QED BY <1>2, <1>5, <2>1 DEF Locals
<1> HIDE DEF q
<1>7. /\ p \in Locals /\ SameEntries(q, p) /\ p.pc \in {"poll", "serving", "overrun"}
      /\ p.pc = "serving" => p.i \in 1..p.max
      /\ p.pc = "overrun" => p.max >= MaxPeers
  <2>1. i + 1 \in Nat /\ i + 1 >= 1
    BY <1>4
  <2> QED BY <1>6, <2>1, ContinueFacts
<1> HIDE DEF p
<1>8. /\ p.slot[i] = Closed /\ \A j \in Slots : j # i => p.slot[j] = proc[n].slot[j]
      /\ p.out = proc[n].out /\ p.max = proc[n].max /\ p.todo = proc[n].todo
  BY <1>4, <1>5, <1>6, <1>7 DEF SameEntries
<1>9. /\ LocalsOK(n, proc[n], run[n], open[n], queue[n])
      /\ PlacesOK(n, proc[n], run[n], open[n], queue[n])
      /\ OpenOK(proc[n], open[n], queue[n])
  BY <1>1 DEF ClientOK
<1>10. LocalsOK(n, p, run[n], O, queue[n])
  <2>1. proc[n].todo = << >> /\ run[n] # 0
    BY <1>2, <1>9 DEF LocalsOK
  <2> QED BY <1>7, <1>8, <2>1 DEF LocalsOK
<1>11. PlacesOK(n, p, run[n], O, queue[n])
  <2>1. \A d \in O : d[3] = n \/ (d[1] = n /\ d[2] = run[n])
    BY <1>9 DEF PlacesOK
  <2>2. \A j \in Slots : p.slot[j] \in ConnId => j # i /\ p.slot[j] = proc[n].slot[j]
    BY <1>8, SlotAssumption
  <2>3. \A j \in Slots : p.slot[j] \in ConnId =>
           \/ p.slot[j][1] = n /\ j <= p.out
           \/ p.slot[j][3] = n /\ j = 1 /\ p.slot[j] \notin Range(queue[n])
    BY <1>8, <1>9, <2>2, Zenon DEF PlacesOK
  <2>4. \A j, k \in Slots : p.slot[j] \in ConnId /\ p.slot[j] = p.slot[k] => j = k
    BY <1>9, <2>2, Zenon DEF PlacesOK
  <2>5. \A j, k \in DOMAIN queue[n] :
           queue[n][j][3] = n /\ (queue[n][j] = queue[n][k] => j = k)
    BY <1>9, Zenon DEF PlacesOK
  <2> QED BY <2>1, <2>3, <2>4, <2>5, Zenon DEF PlacesOK
<1>12. OpenOK(p, O, queue[n])
  <2>1. \A j \in Slots : p.slot[j] \in O \cup {Stdin, Closed}
    BY <1>4, <1>8, <1>9 DEF OpenOK
  <2>2. \A j \in DOMAIN queue[n] : queue[n][j] \in O
    BY <1>4, <1>9 DEF OpenOK, Range
  <2> QED BY <2>1, <2>2 DEF OpenOK
<1>13. /\ inbox' \in [Node -> [ConnId -> Seq(Msg)]]
       /\ \A y \in Node : \A d \in ConnId : y # n \/ d # c => inbox'[y][d] = inbox[y][d]
  BY <1>1, <1>2, <1>3 DEF Typed
<1>14. Typed' /\ RegisteredEarlier' /\ \A x \in Node : ClientOK(x)'
  <2>1. Owned(n, p, O, queue[n])
    BY <1>1, <1>2, <1>3 DEF Owned, Typed
  <2>3. /\ Greets(p) \subseteq Greets(proc[n])
        /\ \A j \in DOMAIN p.todo : \E k \in DOMAIN proc[n].todo : p.todo[j] = proc[n].todo[k]
    BY <1>2, <1>7, <1>8 DEF Greets
  <2>4. O \in SUBSET open[n]
    OBVIOUS
  <2> HIDE DEF O
  <2> QED BY <1>5, <1>7, <1>10, <1>11, <1>12, <1>13, <2>1, <2>3, <2>4, OwnStep
<1>15. Undisturbed(n) /\ proc'[n] = p /\ open'[n] = O
  <2>1. \A y \in Node : y # n => proc'[y] = proc[y] /\ run'[y] = run[y] /\ open'[y] = open[y]
                                 /\ queue'[y] = queue[y]
    BY <1>1, <1>2, <1>3 DEF Typed
  <2>2. proc'[n] = p /\ open'[n] = O
    BY <1>1, <1>3 DEF Typed
  <2> QED BY <1>13, <2>1, <2>2 DEF Undisturbed
<1>16. AnswersOrKeeps(n)
  <2> SUFFICES ASSUME NEW d \in ConnId, Kept(d, inbox[n], queue[n], proc[n])
               PROVE  d \notin open'[n] \/ Kept(d, inbox'[n], queue'[n], proc'[n])
    BY Zenon DEF AnswersOrKeeps
  <2>1. CASE d = c
    BY <1>15, <2>1
  <2>2. CASE d # c
    <3>1. inbox'[n][d] = inbox[n][d] /\ queue'[n] = queue[n]
      BY <1>2, <1>13, <2>2
    <3>2. c = proc[n].slot[proc[n].i]
      BY DEF c, Current
    <3> QED BY <2>2, <3>1, <3>2 DEF Kept
  <2> QED BY <2>1, <2>2
<1>17. HandshakePending(n)'
  BY <1>7, <1>15 DEF HandshakePending
<1> QED BY <1>14, <1>15, <1>16, <1>17, StepKeepsInv

(***************************************************************************)
(* A client connects, and a client is started.                             *)
(***************************************************************************)
LEMMA ConnectPeerKeepsInv ==
    ASSUME SwarmInv, NEW n \in Node, ConnectPeer(n), proc[n].out + 1 \in Slots
    PROVE  SwarmInv'
<1>1. Typed /\ RegisteredEarlier /\ \A x \in Node : ClientOK(x)
  BY Parts
<1>2. /\ proc[n] \in Locals /\ proc[n].todo \in Seq(Node) /\ proc[n].out \in Nat
      /\ proc[n].slot \in [Slots -> ConnId \cup {Stdin, Closed}] /\ run[n] \in 0..MaxRuns
  BY <1>1, TypedFacts, LocalsFacts
<1>3. proc[n].pc = "connecting" /\ proc[n].todo # << >> /\ UNCHANGED <<members, run>>
  BY DEF ConnectPeer
<1> DEFINE m == Head(proc[n].todo)
           c == <<n, run[n], m>>
           j == proc[n].out + 1
           p == [proc[n] EXCEPT !.slot[j] = c, !.out = j, !.pc = "waiting"]
<1>4. LocalsOK(n, proc[n], run[n], open[n], queue[n])
  BY <1>1 DEF ClientOK
<1>5. /\ m \in Node /\ m = proc[n].todo[1] /\ 1 \in DOMAIN proc[n].todo /\ Len(proc[n].todo) \in Nat
      /\ Len(proc[n].todo) >= 1 /\ DOMAIN proc[n].todo = 1..Len(proc[n].todo)
  BY <1>2, <1>3, TailFacts
<1>6. m # n /\ \A k \in 2..Len(proc[n].todo) : proc[n].todo[k] # m
  <2>1. m # n
    BY <1>4, <1>5, Zenon DEF LocalsOK
  <2>2. ASSUME NEW k \in 2..Len(proc[n].todo), proc[n].todo[k] = m PROVE FALSE
    <3>1. k \in DOMAIN proc[n].todo /\ k # 1
      BY <1>5
    <3>2. k = 1
      BY <1>4, <1>5, <2>2, <3>1, Zenon DEF LocalsOK
    <3> QED BY <3>1, <3>2
  <2> QED BY <2>1, <2>2
<1>7. Listening(m)
  BY DEF ConnectPeer
<1>8. /\ queue' = [queue EXCEPT ![m] = Append(@, c)]
      /\ open' = [open EXCEPT ![n] = @ \cup {c}, ![m] = @ \cup {c}]
      /\ inbox' = [inbox EXCEPT ![m][c] = <<"hs">>]
      /\ proc' = [proc EXCEPT ![n].slot[j] = c, ![n].out = j, ![n].pc = "waiting"]
  BY Zenon DEF ConnectPeer, Greet, client_socket
<1>9. /\ c \in ConnId /\ c[1] = n /\ c[2] = run[n] /\ c[3] = m /\ run[n] # 0
  <2>1. run[n] # 0
    BY <1>3, <1>4 DEF LocalsOK
  <2>2. run[n] \in 1..MaxRuns
    BY <1>2, <2>1, BoundsAssumption
  <2> HIDE DEF m
  <2> QED BY <1>5, <1>6, <2>1, <2>2, NewConn
<1> HIDE DEF m, c
<1>10. j \in Slots
  OBVIOUS
<1>11. ~Made(c)
  <2>1. ToGreet(n) = {proc[n].todo[k] : k \in 1..Len(proc[n].todo)}
    BY <1>3 DEF ToGreet
  <2>2. m \in ToGreet(n)
    BY <1>5, <2>1
  <2> QED BY <1>2, <1>9, <2>2 DEF Made
<1>12. ASSUME NEW x \in Node
       PROVE  /\ c \notin open[x] /\ \A k \in Slots : proc[x].slot[k] # c
              /\ c \notin Range(queue[x])
  <2>1. c \notin open[x]
    BY <1>1, <1>11 DEF ClientOK, AllMade
  <2>2. OpenOK(proc[x], open[x], queue[x])
    BY <1>1 DEF ClientOK
  <2>3. c # Stdin /\ c # Closed
    BY <1>9, SlotAssumption
  <2>4. \A k \in Slots : proc[x].slot[k] # c
    BY <2>1, <2>2, <2>3, Zenon DEF OpenOK
  <2> QED BY <2>1, <2>2, <2>4, Zenon DEF OpenOK, Range
<1>13. proc' = [proc EXCEPT ![n] = p]
  BY <1>1, <1>2, <1>8 DEF Typed
<1>14. /\ p \in Locals /\ p.pc = "waiting" /\ p.todo = proc[n].todo /\ p.out = j
       /\ p.max = proc[n].max /\ p.slot = [proc[n].slot EXCEPT ![j] = c]
  <2>1. [proc[n].slot EXCEPT ![j] = c] \in [Slots -> ConnId \cup {Stdin, Closed}]
    BY <1>2, <1>9
  <2> HIDE DEF j
  <2> QED BY <1>2, <1>10, <2>1 DEF Locals
<1> HIDE DEF p
<1>15. p.slot[j] = c /\ \A k \in Slots : k # j => p.slot[k] = proc[n].slot[k]
  BY <1>2, <1>10, <1>14
<1>16. queue[m] \in Seq(ConnId) /\ open[m] \subseteq ConnId /\ open[n] \subseteq ConnId
  BY <1>1, <1>5, TypedFacts
<1> DEFINE Q == Append(queue[m], c)
<1>17. /\ Q \in Seq(ConnId) /\ Len(Q) = Len(queue[m]) + 1 /\ Len(queue[m]) \in Nat
       /\ DOMAIN Q = 1..(Len(queue[m]) + 1) /\ DOMAIN queue[m] = 1..Len(queue[m])
       /\ \A k \in 1..Len(queue[m]) : Q[k] = queue[m][k]
       /\ Q[Len(queue[m]) + 1] = c
  BY <1>9, <1>16, AppendFacts
<1>18. Range(Q) = Range(queue[m]) \cup {c}
  <2>1. ASSUME NEW d \in Range(Q) PROVE d \in Range(queue[m]) \cup {c}
    <3>1. PICK k \in DOMAIN Q : d = Q[k]
      BY DEF Range
    <3>2. k = Len(queue[m]) + 1 \/ k \in 1..Len(queue[m])
      BY <1>17
    <3> QED BY <1>17, <3>1, <3>2 DEF Range
  <2>2. ASSUME NEW d \in Range(queue[m]) \cup {c} PROVE d \in Range(Q)
    <3>1. CASE d = c
      <4>1. Len(queue[m]) + 1 \in DOMAIN Q
        BY <1>17
      <4> QED BY <1>17, <3>1, <4>1 DEF Range
    <3>2. CASE d \in Range(queue[m])
      <4>1. PICK k \in DOMAIN queue[m] : d = queue[m][k]
        BY <3>2 DEF Range
      <4>2. k \in DOMAIN Q /\ Q[k] = d
        BY <1>17, <4>1
      <4> QED BY <4>2 DEF Range
    <3> QED BY <3>1, <3>2
  <2> QED BY <2>1, <2>2
<1> HIDE DEF Q
<1>19. /\ proc'[n] = p /\ open'[n] = open[n] \cup {c} /\ queue'[n] = queue[n] /\ run' = run
       /\ proc'[m] = proc[m] /\ open'[m] = open[m] \cup {c} /\ queue'[m] = Q
       /\ \A x \in Node : x # n /\ x # m =>
             proc'[x] = proc[x] /\ open'[x] = open[x] /\ queue'[x] = queue[x]
  BY <1>1, <1>3, <1>5, <1>6, <1>8, <1>13 DEF Typed, Q
<1>20. /\ inbox' \in [Node -> [ConnId -> Seq(Msg)]] /\ inbox'[m][c] = <<"hs">>
       /\ \A y \in Node : \A d \in ConnId : y # m \/ d # c => inbox'[y][d] = inbox[y][d]
  <2>1. <<"hs">> \in Seq(Msg)
    BY DEF Msg
  <2> QED BY <1>1, <1>5, <1>8, <1>9, <2>1 DEF Typed
<1>21. Typed'
  <2>1. proc' \in [Node -> Locals]
    BY <1>1, <1>13, <1>14 DEF Typed
  <2>2. queue' \in [Node -> Seq(ConnId)]
    BY <1>1, <1>5, <1>8, <1>17 DEF Typed, Q
  <2>3. open' \in [Node -> SUBSET ConnId]
    BY <1>1, <1>8, <1>9 DEF Typed
  <2> QED BY <1>1, <1>3, <1>20, <2>1, <2>2, <2>3 DEF Typed
<1>22. \A x \in Node : Greets(proc'[x]) \subseteq Greets(proc[x])
  <2>1. Greets(p) = {proc[n].todo[k] : k \in 2..Len(proc[n].todo)}
    BY <1>14 DEF Greets
  <2>2. Greets(proc[n]) = {proc[n].todo[k] : k \in 1..Len(proc[n].todo)}
    BY <1>3 DEF Greets
  <2>3. \A k \in 2..Len(proc[n].todo) : k \in 1..Len(proc[n].todo)
    BY <1>5
  <2>4. Greets(p) \subseteq Greets(proc[n])
    BY <2>1, <2>2, <2>3
  <2> QED BY <1>19, <2>4
<1>23. (\A d \in ConnId : Made(d) => Made(d)') /\ c \in AllMade'
  <2>1. \A d \in ConnId : Made(d) => Made(d)'
    BY <1>19, <1>22, FewerToGreet
  <2>2. ToGreet(n)' = {proc[n].todo[k] : k \in 2..Len(proc[n].todo)}
    BY <1>14, <1>19 DEF ToGreet
  <2>3. ASSUME NEW d \in ConnId, d[1] = n, d[2] = run[n],
               \A k \in 2..Len(proc[n].todo) : proc[n].todo[k] # d[3]
        PROVE  d \in AllMade'
    <3>1. d[2] = run'[n] /\ d[3] \notin ToGreet(n)'
      BY <1>19, <2>2, <2>3
    <3>2. ToGreet(d[1])' = ToGreet(n)'
      BY <2>3
    <3> QED BY <2>3, <3>1, <3>2 DEF AllMade, Made
  <2>4. c \in AllMade'
    BY <1>6, <1>9, <2>3
  <2> QED BY <2>1, <2>4
<1>24. RegisteredEarlier'
  <2>1. \A x \in Node : \A i \in DOMAIN proc'[x].todo :
           \E k \in DOMAIN proc[x].todo : proc'[x].todo[i] = proc[x].todo[k]
    <3> TAKE x \in Node
    <3>1. proc'[x].todo = proc[x].todo
      BY <1>14, <1>19
    <3> QED BY <3>1, Zenon
  <2> QED BY <1>1, <1>3, <2>1, RegistrationStays
<1>25. ClientOK(n)'
  <2>1. PlacesOK(n, proc[n], run[n], open[n], queue[n]) /\ OpenOK(proc[n], open[n], queue[n])
    BY <1>1 DEF ClientOK
  <2>2. LocalsOK(n, p, run[n], open[n] \cup {c}, queue[n])
    <3>1. \A i, k \in DOMAIN p.todo : p.todo[i] # n /\ (p.todo[i] = p.todo[k] => i = k)
      <4>1. \A i, k \in DOMAIN proc[n].todo :
               proc[n].todo[i] # n /\ (proc[n].todo[i] = proc[n].todo[k] => i = k)
        BY <1>4, Zenon DEF LocalsOK
      <4>2. p.todo = proc[n].todo
        BY <1>14
      <4> QED BY <4>1, <4>2, Zenon
    <3> QED BY <1>3, <1>9, <1>14, <3>1 DEF LocalsOK
  <2>3. PlacesOK(n, p, run[n], open[n] \cup {c}, queue[n])
    <3>1. \A d \in open[n] \cup {c} : d[3] = n \/ (d[1] = n /\ d[2] = run[n])
      BY <1>9, <2>1 DEF PlacesOK
    <3>2. ASSUME NEW k \in Slots, p.slot[k] \in ConnId
          PROVE  \/ p.slot[k][1] = n /\ k <= p.out
                 \/ p.slot[k][3] = n /\ k = 1 /\ p.slot[k] \notin Range(queue[n])
      <4>1. CASE k = j
        BY <1>2, <1>9, <1>14, <1>15, <4>1
      <4>2. CASE k # j
        <5>1. p.slot[k] = proc[n].slot[k]
          BY <1>15, <4>2
        <5>2. \/ p.slot[k][1] = n /\ k <= proc[n].out
              \/ p.slot[k][3] = n /\ k = 1 /\ p.slot[k] \notin Range(queue[n])
          BY <2>1, <3>2, <5>1, Zenon DEF PlacesOK
        <5>3. k \in Int /\ (k <= proc[n].out => k <= p.out)
          BY <1>2, <1>14, SlotFacts
        <5> QED BY <5>2, <5>3
      <4> QED BY <4>1, <4>2
    <3>3. ASSUME NEW i \in Slots, NEW k \in Slots, p.slot[i] \in ConnId, p.slot[i] = p.slot[k]
          PROVE  i = k
      <4>1. CASE i = j \/ k = j
        BY <1>12, <1>15, <3>3, <4>1, Zenon
      <4>2. CASE i # j /\ k # j
        BY <1>15, <2>1, <3>3, <4>2, Zenon DEF PlacesOK
      <4> QED BY <4>1, <4>2
    <3>4. \A i, k \in DOMAIN queue[n] :
             queue[n][i][3] = n /\ (queue[n][i] = queue[n][k] => i = k)
      BY <2>1, Zenon DEF PlacesOK
    <3> QED BY <3>1, <3>2, <3>3, <3>4, Zenon DEF PlacesOK
  <2>4. OpenOK(p, open[n] \cup {c}, queue[n])
    <3>1. \A k \in Slots : p.slot[k] \in (open[n] \cup {c}) \cup {Stdin, Closed}
      BY <1>15, <2>1, Zenon DEF OpenOK
    <3>2. \A k \in DOMAIN queue[n] : queue[n][k] \in open[n] \cup {c}
      BY <2>1, Zenon DEF OpenOK
    <3> QED BY <3>1, <3>2, Zenon DEF OpenOK
  <2>5. open'[n] \subseteq AllMade'
    BY <1>1, <1>19, <1>23, MadeGrows DEF ClientOK
  <2>7. /\ LocalsOK(n, proc'[n], run'[n], open'[n], queue'[n])
        /\ PlacesOK(n, proc'[n], run'[n], open'[n], queue'[n])
        /\ OpenOK(proc'[n], open'[n], queue'[n])
    BY <1>19, <2>2, <2>3, <2>4
  <2> QED BY <2>5, <2>7, Zenon DEF ClientOK
<1>26. ASSUME NEW x \in Node, x = m PROVE ClientOK(x)'
  <2>0. proc'[x] = proc[x] /\ open'[x] = open[x] \cup {c} /\ queue'[x] = Q /\ run' = run
    BY <1>19, <1>26
  <2>1. /\ LocalsOK(x, proc[x], run[x], open[x], queue[x])
        /\ PlacesOK(x, proc[x], run[x], open[x], queue[x])
        /\ OpenOK(proc[x], open[x], queue[x])
    BY <1>1 DEF ClientOK
  <2>2. LocalsOK(x, proc[x], run[x], open[x] \cup {c}, Q)
    <3>1. proc[x].pc \in {"connecting", "waiting", "poll", "serving", "overrun"}
      BY <1>7, <1>26 DEF Listening
    <3> QED BY <2>1, <3>1, Zenon DEF LocalsOK
  <2>3. PlacesOK(x, proc[x], run[x], open[x] \cup {c}, Q)
    <3>1. \A d \in open[x] \cup {c} : d[3] = x \/ (d[1] = x /\ d[2] = run[x])
      BY <1>9, <1>26, <2>1 DEF PlacesOK
    <3>2. \A k \in Slots : proc[x].slot[k] \in ConnId =>
             \/ proc[x].slot[k][1] = x /\ k <= proc[x].out
             \/ proc[x].slot[k][3] = x /\ k = 1 /\ proc[x].slot[k] \notin Range(Q)
      <4>1. \A k \in Slots : proc[x].slot[k] # c
        BY <1>12
      <4>2. Range(Q) = Range(queue[x]) \cup {c}
        BY <1>18, <1>26
      <4>3. \A k \in Slots : proc[x].slot[k] \notin Range(queue[x]) => proc[x].slot[k] \notin Range(Q)
        BY <4>1, <4>2
      <4> QED BY <2>1, <4>3, Zenon DEF PlacesOK
    <3>3. \A i, k \in Slots :
             proc[x].slot[i] \in ConnId /\ proc[x].slot[i] = proc[x].slot[k] => i = k
      BY <2>1, Zenon DEF PlacesOK
    <3>4. ASSUME NEW i \in DOMAIN Q, NEW k \in DOMAIN Q
          PROVE  Q[i][3] = x /\ (Q[i] = Q[k] => i = k)
      <4>1. \A l \in DOMAIN queue[x] : queue[x][l] # c
        BY <1>12 DEF Range
      <4>2. \A l1, l2 \in DOMAIN queue[x] :
               queue[x][l1][3] = x /\ (queue[x][l1] = queue[x][l2] => l1 = l2)
        BY <2>1, Zenon DEF PlacesOK
      <4>3. /\ (i \in DOMAIN queue[x] /\ Q[i] = queue[x][i]) \/ (i = Len(queue[x]) + 1 /\ Q[i] = c)
            /\ (k \in DOMAIN queue[x] /\ Q[k] = queue[x][k]) \/ (k = Len(queue[x]) + 1 /\ Q[k] = c)
        BY <1>17, <1>26
      <4>4. c[3] = x
        BY <1>9, <1>26
      <4>5. CASE i \in DOMAIN queue[x] /\ Q[i] = queue[x][i]
        BY <4>1, <4>2, <4>3, <4>5
      <4>6. CASE i = Len(queue[x]) + 1 /\ Q[i] = c
        BY <4>1, <4>3, <4>4, <4>6
      <4> QED BY <4>3, <4>5, <4>6
    <3> QED BY <3>1, <3>2, <3>3, <3>4, Zenon DEF PlacesOK
  <2>4. OpenOK(proc[x], open[x] \cup {c}, Q)
    <3>1. \A k \in Slots : proc[x].slot[k] \in (open[x] \cup {c}) \cup {Stdin, Closed}
      BY <2>1, Zenon DEF OpenOK
    <3>2. \A k \in DOMAIN Q : Q[k] \in Range(queue[x]) \cup {c}
      BY <1>18, <1>26 DEF Range
    <3>3. Range(queue[x]) \subseteq open[x]
      BY <2>1 DEF OpenOK, Range
    <3> QED BY <3>1, <3>2, <3>3 DEF OpenOK
  <2>5. open'[x] \subseteq AllMade'
    BY <1>1, <1>23, <2>0, MadeGrows DEF ClientOK
  <2>7. /\ LocalsOK(x, proc'[x], run'[x], open'[x], queue'[x])
        /\ PlacesOK(x, proc'[x], run'[x], open'[x], queue'[x])
        /\ OpenOK(proc'[x], open'[x], queue'[x])
    BY <2>0, <2>2, <2>3, <2>4
  <2> QED BY <2>5, <2>7, Zenon DEF ClientOK
<1>27. ASSUME NEW x \in Node, x # n, x # m PROVE ClientOK(x)'
  <2>1. proc'[x] = proc[x] /\ open'[x] = open[x] /\ queue'[x] = queue[x] /\ run'[x] = run[x]
    BY <1>19, <1>27
  <2>2. open'[x] \subseteq AllMade'
    BY <1>1, <1>23, <2>1, MadeGrows DEF ClientOK
  <2>4. /\ LocalsOK(x, proc'[x], run'[x], open'[x], queue'[x])
        /\ PlacesOK(x, proc'[x], run'[x], open'[x], queue'[x])
        /\ OpenOK(proc'[x], open'[x], queue'[x])
    BY <1>1, <2>1 DEF ClientOK
  <2> QED BY <2>2, <2>4, Zenon DEF ClientOK
<1>28. \A x \in Node : ClientOK(x)'
  BY <1>25, <1>26, <1>27
<1>29. Undisturbed(n)
  <2>1. ASSUME NEW y \in Node, y # n
        PROVE  /\ proc'[y] = proc[y] /\ run'[y] = run[y] /\ open[y] \subseteq open'[y]
               /\ Range(queue[y]) \subseteq Range(queue'[y])
    <3>1. CASE y = m
      BY <1>18, <1>19, <3>1
    <3>2. CASE y # m
      BY <1>19, <2>1, <3>2
    <3> QED BY <3>1, <3>2
  <2>2. ASSUME NEW y \in Node, NEW d \in ConnId
        PROVE  /\ inbox[y][d] # << >> => inbox'[y][d] # << >>
               /\ d[1] # n /\ d[3] # n => inbox'[y][d] = inbox[y][d]
    <3>1. CASE y = m /\ d = c
      <4>1. inbox'[y][d] = <<"hs">> /\ d[1] = n
        BY <1>9, <1>20, <3>1, Zenon
      <4>2. <<"hs">> # << >>
        OBVIOUS
      <4> QED BY <4>1, <4>2, Zenon
    <3>2. CASE ~(y = m /\ d = c)
      BY <1>20, <3>2
    <3> QED BY <3>1, <3>2
  <2>3. \A y \in Node : \A d \in open'[y] : d \in open[y] \/ d[1] = n
    <3> TAKE y \in Node
    <3>1. open'[y] \subseteq open[y] \cup {c}
      BY <1>19
    <3> QED BY <1>9, <3>1
  <2> QED BY <2>1, <2>2, <2>3 DEF Undisturbed
<1>30. AnswersOrKeeps(n)
  <2> SUFFICES ASSUME NEW d \in ConnId, Kept(d, inbox[n], queue[n], proc[n])
               PROVE  Kept(d, inbox'[n], queue'[n], proc'[n])
    BY Zenon DEF AnswersOrKeeps
  <2> QED BY <1>3, <1>6, <1>19, <1>20 DEF Kept
<1>31. HandshakePending(n)'
  <2>1. Head(proc[n].todo)' = m /\ Awaited(n)' = c
    <3>1. proc'[n].todo = proc[n].todo /\ run'[n] = run[n]
      BY <1>14, <1>19
    <3> QED BY <3>1, Zenon DEF Awaited, client_socket, m, c
  <2>2. c \in open'[n] /\ c \in Range(queue'[m])
    BY <1>18, <1>19
  <2> QED BY <1>20, <2>1, <2>2, Zenon DEF HandshakePending
<1> QED BY <1>21, <1>24, <1>28, <1>29, <1>30, <1>31, StepKeepsInv

\* The tracker's list after a client has registered.
LEMMA RegisterFacts ==
    ASSUME Typed, RegisteredEarlier, NEW n \in Node,
           members' = IF \E j \in DOMAIN members : members[j] = n
                      THEN members ELSE Append(members, n)
    PROVE  /\ members' \in Seq(Node) /\ NoTwice(members')
           /\ \A b \in DOMAIN members' :
                 (b \in DOMAIN members /\ members'[b] = members[b])
                    \/ (members'[b] = n /\ n \notin Range(members) /\ \A a \in DOMAIN members : a < b)
           /\ \A b \in DOMAIN members : b \in DOMAIN members' /\ members'[b] = members[b]
           /\ n \in Range(members')
<1>1. members \in Seq(Node) /\ Len(members) \in Nat /\ DOMAIN members = 1..Len(members)
  BY DEF Typed
<1>2. NoTwice(members)
  BY Zenon DEF RegisteredEarlier, NoTwice
<1>3. CASE \E j \in DOMAIN members : members[j] = n
  <2>1. members' = members
    BY <1>3
  <2>2. n \in Range(members')
    BY <1>3, <2>1 DEF Range
  <2> QED BY <1>1, <1>2, <2>1, <2>2
<1>4. CASE ~\E j \in DOMAIN members : members[j] = n
  <2> DEFINE l == Append(members, n)
  <2>1. members' = l
    BY <1>4
  <2>2. /\ l \in Seq(Node) /\ DOMAIN l = 1..(Len(members) + 1)
        /\ \A k \in 1..Len(members) : l[k] = members[k]
        /\ l[Len(members) + 1] = n
    BY <1>1, AppendFacts
  <2> HIDE DEF l
  <2>3. n \notin Range(members)
    BY <1>4 DEF Range
  <2>4. \A b \in DOMAIN l : \/ b \in DOMAIN members /\ l[b] = members[b]
                            \/ b = Len(members) + 1 /\ l[b] = n
    BY <1>1, <2>2
  <2>5. NoTwice(l)
    <3> SUFFICES ASSUME NEW a \in DOMAIN l, NEW b \in DOMAIN l, l[a] = l[b] PROVE a = b
      BY DEF NoTwice
    <3>1. CASE a \in DOMAIN members /\ l[a] = members[a]
      BY <1>2, <1>4, <2>4, <3>1 DEF NoTwice
    <3>2. CASE a = Len(members) + 1 /\ l[a] = n
      BY <1>4, <2>4, <3>2
    <3> QED BY <2>4, <3>1, <3>2
  <2>6. Len(members) + 1 \in DOMAIN l /\ \A a \in DOMAIN members : a < Len(members) + 1
    BY <1>1, <2>2
  <2>7. n \in Range(l)
    BY <2>2, <2>6 DEF Range
  <2>8. \A b \in DOMAIN members : b \in DOMAIN l /\ l[b] = members[b]
    BY <1>1, <2>2
  <2> QED BY <2>1, <2>2, <2>3, <2>4, <2>5, <2>6, <2>7, <2>8
<1> QED BY <1>3, <1>4

LEMMA RequestPeersKeepsInv ==
    ASSUME SwarmInv, NEW n \in Node, RequestPeers(n)
    PROVE  SwarmInv'
<1>1. Typed /\ RegisteredEarlier /\ \A x \in Node : ClientOK(x)
  BY Parts
<1>2. /\ proc[n].pc \in {"off", "exited"} /\ run[n] < MaxRuns /\ UNCHANGED <<queue, open, inbox>>
      /\ run' = [run EXCEPT ![n] = run[n] + 1]
      /\ members' = IF \E j \in DOMAIN members : members[j] = n
                    THEN members ELSE Append(members, n)
  BY Zenon DEF RequestPeers
<1>3. /\ members \in Seq(Node) /\ NoTwice(members) /\ run[n] \in Nat
  <2>1. NoTwice(members)
    BY <1>1, Zenon DEF RegisteredEarlier, NoTwice
  <2>2. run[n] \in Nat
    BY <1>1, TypedFacts, BoundsAssumption
  <2> QED BY <1>1, <2>1, <2>2 DEF Typed
<1>4. PICK p \in NewClient(n) : proc' = [proc EXCEPT ![n] = p]
  BY Zenon DEF RequestPeers
<1> DEFINE t == p.todo
<1>5. /\ p \in Locals /\ p.pc \in {"registered", "exited"} /\ p.slot = FreshProc.slot
      /\ p.out = 0 /\ p.max = 0 /\ \A j \in Slots : p.slot[j] = Stdin
      /\ p.pc = "exited" => t = << >>
      /\ t \in Seq(Node) /\ NoTwice(t)
      /\ \A j \in DOMAIN t : t[j] # n /\ \E k \in DOMAIN members : members[k] = t[j]
  <2>1. CASE p = [FreshProc EXCEPT !.pc = "exited"]
    <3>1. /\ p \in Locals /\ p.pc = "exited" /\ t = << >> /\ p.slot = FreshProc.slot
          /\ p.out = 0 /\ p.max = 0 /\ \A j \in Slots : p.slot[j] = Stdin
      BY <2>1, ExitedFacts, Zenon
    <3> QED BY <3>1 DEF NoTwice
  <2>2. CASE p = [FreshProc EXCEPT !.pc = "registered", !.todo = PeersToConnectTo(n)]
    <3> DEFINE u == PeersToConnectTo(n)
    <3>1. /\ u \in Seq(Node) /\ NoTwice(u)
          /\ \A j \in DOMAIN u : u[j] # n /\ \E k \in DOMAIN members : members[k] = u[j]
      BY <1>3, PeersFacts
    <3> HIDE DEF u
    <3>2. /\ p \in Locals /\ p.pc = "registered" /\ t = u /\ p.slot = FreshProc.slot
          /\ p.out = 0 /\ p.max = 0 /\ \A j \in Slots : p.slot[j] = Stdin
      <4> DEFINE q == [FreshProc EXCEPT !.pc = "registered", !.todo = u]
      <4>1. p = q
        BY <2>2, Zenon DEF u
      <4>2. /\ q \in Locals /\ q.pc = "registered" /\ q.todo = u /\ q.slot = FreshProc.slot
            /\ q.out = 0 /\ q.max = 0 /\ \A j \in Slots : q.slot[j] = Stdin
        BY <3>1, FreshFacts
      <4> HIDE DEF q
      <4> QED BY <4>1, <4>2, Zenon
    <3> QED BY <3>1, <3>2
  <2> QED BY <2>1, <2>2 DEF NewClient
<1> HIDE DEF t
<1>6. open[n] = {} /\ queue[n] = << >>
  BY <1>1, <1>2 DEF ClientOK, LocalsOK
<1>7. /\ proc'[n] = p /\ run'[n] = run[n] + 1 /\ open' = open /\ queue' = queue /\ inbox' = inbox
      /\ \A x \in Node : x # n => proc'[x] = proc[x] /\ run'[x] = run[x]
  BY <1>1, <1>2, <1>4 DEF Typed
<1>8. /\ members' \in Seq(Node) /\ NoTwice(members')
      /\ \A b \in DOMAIN members' :
            (b \in DOMAIN members /\ members'[b] = members[b])
               \/ (members'[b] = n /\ n \notin Range(members) /\ \A a \in DOMAIN members : a < b)
      /\ \A b \in DOMAIN members : b \in DOMAIN members' /\ members'[b] = members[b]
      /\ n \in Range(members')
  BY <1>1, <1>2, RegisterFacts
<1>9. Typed'
  <2>1. run' \in [Node -> 0..MaxRuns]
    BY <1>1, <1>2, <1>3, BoundsAssumption DEF Typed
  <2>2. proc' \in [Node -> Locals]
    BY <1>1, <1>4, <1>5 DEF Typed
  <2> QED BY <1>1, <1>7, <1>8, <2>1, <2>2 DEF Typed
<1>10. ASSUME NEW d \in ConnId, Made(d) PROVE Made(d)'
  <2>1. d[1] \in Node /\ d[2] \in Int
    BY ConnFacts
  <2>2. CASE d[1] = n
    BY <1>3, <1>7, <1>10, <2>1, <2>2 DEF Made
  <2>3. CASE d[1] # n
    <3>1. run'[d[1]] = run[d[1]] /\ ToGreet(d[1])' = ToGreet(d[1])
      BY <1>7, <2>1, <2>3 DEF ToGreet
    <3> QED BY <1>10, <3>1 DEF Made
  <2> QED BY <2>2, <2>3
<1>11. ASSUME NEW x \in Node PROVE ClientOK(x)'
  <2>1. AllMade \subseteq AllMade'
    BY <1>10, MadeGrows
  <2>2. open'[x] \subseteq AllMade'
    BY <1>1, <1>7, <2>1 DEF ClientOK
  <2>3. CASE x = n
    <3>1. LocalsOK(n, p, run[n] + 1, {}, << >>)
      <4>1. run[n] + 1 # 0
        BY <1>3
      <4>3. \A j, k \in DOMAIN p.todo : p.todo[j] # n /\ (p.todo[j] = p.todo[k] => j = k)
        BY <1>5 DEF NoTwice, t
      <4> QED BY <1>5, <4>1, <4>3 DEF LocalsOK, t
    <3>2. PlacesOK(n, p, run[n] + 1, {}, << >>) /\ OpenOK(p, {}, << >>)
      BY <1>5, SlotAssumption DEF PlacesOK, OpenOK, Range
    <3>4. /\ LocalsOK(x, proc'[x], run'[x], open'[x], queue'[x])
          /\ PlacesOK(x, proc'[x], run'[x], open'[x], queue'[x])
          /\ OpenOK(proc'[x], open'[x], queue'[x])
      BY <1>6, <1>7, <2>3, <3>1, <3>2
    <3> QED BY <2>2, <3>4, Zenon DEF ClientOK
  <2>4. CASE x # n
    <3>1. proc'[x] = proc[x] /\ run'[x] = run[x] /\ open'[x] = open[x] /\ queue'[x] = queue[x]
      BY <1>7, <2>4
    <3>5. /\ LocalsOK(x, proc'[x], run'[x], open'[x], queue'[x])
          /\ PlacesOK(x, proc'[x], run'[x], open'[x], queue'[x])
          /\ OpenOK(proc'[x], open'[x], queue'[x])
      BY <1>1, <3>1 DEF ClientOK
    <3> QED BY <2>2, <3>5, Zenon DEF ClientOK
  <2> QED BY <2>3, <2>4
<1>12. RegisteredEarlier'
  <2>1. \A a, b \in DOMAIN members' : members'[a] = members'[b] => a = b
    BY <1>8 DEF NoTwice
  <2>2. \A x \in Range(members) : x \in Range(members')
    BY <1>8 DEF Range
  <2>3. ASSUME NEW x \in Node PROVE x \in Range(members') <=> run'[x] > 0
    <3>1. CASE x = n
      BY <1>3, <1>7, <1>8, <3>1
    <3>2. CASE x # n
      <4>1. x \in Range(members') => x \in Range(members)
        BY <1>8, <3>2 DEF Range
      <4>2. x \in Range(members) <=> run[x] > 0
        BY <1>1, Zenon DEF RegisteredEarlier
      <4> QED BY <1>7, <2>2, <3>2, <4>1, <4>2
    <3> QED BY <3>1, <3>2
  <2>4. ASSUME NEW x \in Node, NEW j \in DOMAIN proc'[x].todo
        PROVE  /\ proc'[x].todo[j] \in Range(members)
               /\ \A a, b \in DOMAIN members' :
                     StartedOnce' /\ members'[a] = x /\ members'[b] = proc'[x].todo[j] => b < a
    <3>1. CASE x = n
      <4>1. proc'[x].todo = t
        BY <1>7, <3>1 DEF t
      <4>2. t[j] \in Range(members) /\ t[j] # n
        BY <1>5, <2>4, <4>1 DEF Range
      <4>3. ASSUME StartedOnce', NEW a \in DOMAIN members', NEW b \in DOMAIN members',
                   members'[a] = n, members'[b] = t[j]
            PROVE  b < a
        <5>1. n \notin Range(members)
          <6>1. ~(run[n] > 0)
            BY <1>3, <1>7, <4>3 DEF StartedOnce
          <6> QED BY <1>1, <6>1, Zenon DEF RegisteredEarlier
        <5>2. b \in DOMAIN members
          BY <1>8, <4>2, <4>3
        <5>3. \A k \in DOMAIN members : k < a
          BY <1>8, <4>3, <5>1 DEF Range
        <5> QED BY <5>2, <5>3
      <4> QED BY <3>1, <4>1, <4>2, <4>3
    <3>2. CASE x # n
      <4>1. proc'[x].todo = proc[x].todo
        BY <1>7, <3>2
      <4>2. /\ proc[x].todo[j] \in Range(members)
            /\ \A a, b \in DOMAIN members :
                  StartedOnce /\ members[a] = x /\ members[b] = proc[x].todo[j] => b < a
        BY <1>1, <2>4, <4>1, Zenon DEF RegisteredEarlier
      <4>3. ASSUME StartedOnce', NEW a \in DOMAIN members', NEW b \in DOMAIN members',
                   members'[a] = x, members'[b] = proc[x].todo[j]
            PROVE  b < a
        <5>1. a \in DOMAIN members /\ members[a] = x
          BY <1>8, <3>2, <4>3
        <5>2. b \in DOMAIN members /\ members[b] = proc[x].todo[j]
          BY <1>8, <4>2, <4>3
        <5>3. StartedOnce
          <6>1. run'[n] <= 1
            BY <4>3 DEF StartedOnce
          <6>2. run[n] <= 1
            BY <1>3, <1>7, <6>1
          <6> QED BY <1>7, <4>3, <6>2 DEF StartedOnce
        <5> QED BY <4>2, <4>3, <5>1, <5>2, <5>3, Zenon
      <4> QED BY <4>1, <4>2, <4>3
    <3> QED BY <3>1, <3>2
  <2>5. \A x \in Node : \A j \in DOMAIN proc'[x].todo :
           /\ proc'[x].todo[j] \in Range(members')
           /\ \A a, b \in DOMAIN members' :
                 StartedOnce' /\ members'[a] = x /\ members'[b] = proc'[x].todo[j] => b < a
    BY <2>2, <2>4, Zenon
  <2> QED BY <2>1, <2>3, <2>5, Zenon DEF RegisteredEarlier, Range
<1>13. Undisturbed(n)
  BY <1>7 DEF Undisturbed
<1>14. AnswersOrKeeps(n)
  BY <1>6 DEF AnswersOrKeeps
<1>15. HandshakePending(n)'
  BY <1>5, <1>7 DEF HandshakePending
<1> QED BY <1>9, <1>11, <1>12, <1>13, <1>14, <1>15, StepKeepsInv

(***************************************************************************)
(* The initial state, and every step.                                      *)
(***************************************************************************)
LEMMA InitialSwarm == Init => SwarmInv
<1> SUFFICES ASSUME Init PROVE SwarmInv
  OBVIOUS
<1>1. /\ FreshProc \in Locals /\ FreshProc.pc = "off" /\ FreshProc.todo = << >>
      /\ FreshProc.out = 0 /\ FreshProc.max = 0 /\ \A j \in Slots : FreshProc.slot[j] = Stdin
  BY DEF FreshProc, Locals
<1>2. EmptyBox \in [ConnId -> Seq(Msg)]
  BY DEF EmptyBox
<1>3. Typed
  BY <1>1, <1>2, BoundsAssumption DEF Init, Typed
<1>4. \A n \in Node : run[n] = 0 /\ proc[n] = FreshProc /\ queue[n] = << >> /\ open[n] = {}
  BY DEF Init
<1>5. RegisteredEarlier
  BY <1>1, <1>4 DEF Init, RegisteredEarlier, Range
<1>6. ASSUME NEW n \in Node PROVE ClientOK(n)
  <2>1. LocalsOK(n, FreshProc, 0, {}, << >>)
    BY <1>1, SlotFacts DEF LocalsOK
  <2>2. PlacesOK(n, FreshProc, 0, {}, << >>) /\ OpenOK(FreshProc, {}, << >>)
    BY <1>1, SlotAssumption DEF PlacesOK, OpenOK, Range
  <2>4. {} \subseteq AllMade
    OBVIOUS
  <2> QED BY <1>4, <2>1, <2>2, <2>4 DEF ClientOK
<1>7. \A n \in Node : HandshakePending(n)
  BY <1>1, <1>4 DEF HandshakePending
<1> QED BY <1>3, <1>5, <1>6, <1>7, Parts

LEMMA StutterKeepsSwarm ==
    ASSUME SwarmInv, UNCHANGED vars
    PROVE  SwarmInv'
<1>1. /\ members' = members /\ run' = run /\ proc' = proc
      /\ queue' = queue /\ open' = open /\ inbox' = inbox
  BY DEF vars
<1>2. Typed /\ RegisteredEarlier /\ \A n \in Node : ClientOK(n) /\ HandshakePending(n)
  BY Parts
<1>3. Typed'
  BY <1>1, <1>2 DEF Typed
<1>4. RegisteredEarlier'
  <2>1. \A x \in Node : \A j \in DOMAIN proc'[x].todo :
           \E k \in DOMAIN proc[x].todo : proc'[x].todo[j] = proc[x].todo[k]
    BY <1>1, Zenon
  <2> QED BY <1>1, <1>2, <2>1, RegistrationStays
<1>5. AllMade' = AllMade
  BY <1>1 DEF AllMade, Made, ToGreet
<1>6. ASSUME NEW n \in Node PROVE ClientOK(n)' /\ HandshakePending(n)'
  <2>1. ClientOK(n)'
    BY <1>1, <1>2, <1>5, Zenon DEF ClientOK
  <2>2. HandshakePending(n)'
    BY <1>1, <1>2, Zenon DEF HandshakePending, Awaited, client_socket, Current
  <2> QED BY <2>1, <2>2
<1> QED BY <1>3, <1>4, <1>6, NextParts

LEMMA NextKeepsSwarm ==
    ASSUME SwarmInv, [Next]_vars
    PROVE  SwarmInv'
<1>1. CASE UNCHANGED vars
  BY <1>1, StutterKeepsSwarm
<1>2. CASE Next
  <2>1. PICK n \in Node : RequestPeers(n) \/ ClientStep(n) \/ OverrunPasses(n) \/ Crash(n)
    BY <1>2 DEF Next
  <2>2. CASE RequestPeers(n)
    BY <2>2, RequestPeersKeepsInv
  <2>3. CASE \/ ConnectRefused(n) \/ HandshakeRejected(n) \/ HandshakeLost(n)
             \/ ServeEofWritable(n) \/ ServeDies(n) \/ Crash(n)
    <3>1. proc[n].pc # "off" /\ Exit(n)
      BY <2>3 DEF ConnectRefused, HandshakeRejected, HandshakeLost, ServeEofWritable, ServeDies,
                  Crash
    <3> QED BY <3>1, ExitKeepsInv
  <2>4. CASE ClientStep(n) \/ OverrunPasses(n)
    BY <2>3, <2>4, GotoKeepsInv, ConnectPeerKeepsInv, HandshakeReplyKeepsInv, PollAcceptKeepsInv,
       PollReadyKeepsInv, ServeNoSocketKeepsInv, ServeEofKeepsInv, ServeReceiveKeepsInv
       DEF ClientStep
  <2> QED BY <2>1, <2>2, <2>3, <2>4
<1> QED BY <1>1, <1>2

(***************************************************************************)
(* The theorems.                                                           *)
(***************************************************************************)
\* The invariants are inductive together.
THEOREM SwarmInvariant == Safety => []SwarmInv
<1>1. SwarmInv /\ [Next]_vars => SwarmInv'
  BY NextKeepsSwarm
<1> QED BY InitialSwarm, <1>1, PTL DEF Safety

\* The states of all clients are well formed: every socket in an entry of fds or in a
\* listen queue is open, however often clients end and are started again, and whether
\* or not they left fds.
THEOREM SwarmTypes == Safety => []TypeOK
<1>1. SwarmInv => TypeOK
  BY DEF SwarmInv
<1> QED BY <1>1, SwarmInvariant, PTL

\* No socket is made twice, is in two entries of fds, or is closed while it is in one.
THEOREM SocketsUndisturbed == Safety => []SocketsKept
<1>1. SwarmInv => SocketsKept
  BY DEF SwarmInv
<1> QED BY <1>1, SwarmInvariant, PTL

\* A client connects only to registered clients, and to those that registered before
\* it as long as no client was started twice.
THEOREM EarlierOnly == Safety => []RegisteredEarlier
<1>1. SwarmInv => RegisteredEarlier
  BY DEF SwarmInv
<1> QED BY <1>1, SwarmInvariant, PTL

\* The handshake a client waits for is never forgotten by its peer, whatever the peer
\* accepts, receives and sends in between, and whoever ends and is started again.
THEOREM HandshakesKept == Safety => []HandshakeKept
<1>1. SwarmInv => HandshakeKept
  <2> SUFFICES ASSUME SwarmInv, NEW n \in Waiting
               PROVE  LET c == Awaited(n)
                          m == Head(proc[n].todo)
                      IN  \/ \E j \in DOMAIN queue[m] : queue[m][j] = c
                          \/ proc[m].pc = "serving" /\ Current(m) = c
                          \/ inbox[n][c] # << >>
                          \/ c \notin open[m]
    BY Zenon DEF HandshakeKept
  <2>1. n \in Node /\ proc[n].pc = "waiting"
    BY DEF Waiting
  <2>2. HandshakePending(n)
    BY <2>1, Parts
  <2> QED BY <2>1, <2>2 DEF HandshakePending, Range
<1> QED BY <1>1, SwarmInvariant, PTL

\* As long as no client was started twice, clients never wait for each other in a circle:
\* of those that wait, the one that registered first waits for someone who does not.
THEOREM NoCircle == Safety => []NoCircularStart
<1>1. ASSUME SwarmInv PROVE NoCircularStart
  <2> SUFFICES ASSUME StartedOnce, NEW S \in SUBSET Waiting, S # {}
               PROVE  \E n \in S : Head(proc[n].todo) \notin S
    BY DEF NoCircularStart
  <2>0. Typed /\ RegisteredEarlier /\ \A x \in Node : ClientOK(x)
    BY <1>1, Parts
  <2>1. \A n \in S : n \in Node /\ proc[n].pc = "waiting"
    BY DEF Waiting
  <2> DEFINE P == {a \in DOMAIN members : members[a] \in S}
  <2>2. \A n \in S : \E a \in DOMAIN members : members[a] = n
    <3> TAKE n \in S
    <3>1. run[n] # 0 /\ run[n] \in Nat
      BY <2>0, <2>1, TypedFacts, BoundsAssumption DEF ClientOK, LocalsOK
    <3>2. n \in Range(members)
      <4>1. run[n] > 0
        BY <3>1
      <4> QED BY <2>0, <2>1, <4>1, Zenon DEF RegisteredEarlier
    <3> QED BY <3>2 DEF Range
  <2>3. P \in SUBSET Nat /\ P # {}
    <3>1. DOMAIN members \subseteq Nat
      BY <2>0 DEF Typed
    <3> QED BY <2>2, <3>1
  <2>4. PICK a \in P : \A b \in P : a <= b
    BY <2>3, LeastNumber
  <2> DEFINE n == members[a]
  <2>5. n \in S /\ a \in DOMAIN members /\ a \in Nat
    BY <2>3, <2>4
  <2>6. Head(proc[n].todo) \notin S
    <3> SUFFICES ASSUME Head(proc[n].todo) \in S PROVE FALSE
      OBVIOUS
    <3>1. proc[n].todo \in Seq(Node) /\ proc[n].todo # << >>
      BY <2>0, <2>1, <2>5, TypedFacts, LocalsFacts DEF ClientOK, LocalsOK
    <3>2. 1 \in DOMAIN proc[n].todo /\ Head(proc[n].todo) = proc[n].todo[1]
      BY <3>1
    <3>3. PICK b \in DOMAIN members : members[b] = proc[n].todo[1]
      BY <2>2, <3>2
    <3>4. b \in P /\ b \in Nat
      BY <2>3, <3>2, <3>3
    <3>5. b < a
      BY <2>0, <2>1, <2>5, <3>2, <3>3, Zenon DEF RegisteredEarlier
    <3> QED BY <2>4, <2>5, <3>4, <3>5
  <2> QED BY <2>5, <2>6
<1>2. SwarmInv => NoCircularStart
  BY <1>1
<1> QED BY <1>2, SwarmInvariant, PTL
=============================================================================
