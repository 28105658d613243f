----------------------- MODULE ThreadedTrackerProofs -----------------------
(***************************************************************************)
(* Proofs about ThreadedTracker, for every size of the list, number of     *)
(* connections and of descriptors.                                         *)
(***************************************************************************)
EXTENDS ThreadedTracker, TLAPS

\* The invariants together, which no step breaks.
ThreadedInv == TypeOK /\ SerialSafe /\ HandlersKept

LEMMA InitialHandlers == Init => ThreadedInv
<1> SUFFICES ASSUME Init PROVE ThreadedInv
  OBVIOUS
<1>1. NewThread("none") \in Local
  BY ThreadedAssumption DEF NewThread, Local
<1>2. TypeOK
  BY <1>1, ThreadedAssumption DEF TypeOK, Init, Entry, Nobody
<1>3. SerialSafe
  BY DEF SerialSafe, Init
<1>5. HandlersKept
  <2>1. \A t \in Thread : /\ thread[t] = NewThread("none") /\ thread[t].pc = "none"
                           /\ thread[t].data = << >> /\ thread[t].fd = 0
    BY DEF Init, NewThread
  <2>2. \A t \in Thread : ~Busy(t) /\ Steady(thread[t])
    BY <2>1 DEF Busy, Steady
  <2>3. 0 <= MaxClients /\ \A k \in Entry : ~(k < 0)
    BY ThreadedAssumption DEF Entry
  <2> QED BY <2>1, <2>2, <2>3 DEF HandlersKept, Init
<1> QED BY <1>2, <1>3, <1>5 DEF ThreadedInv

(***************************************************************************)
(* What the steps have in common.                                          *)
(***************************************************************************)
\* The parts of the invariant that are shown separately.
LaterSockets ==
    \A t \in Thread :
        thread[t].fd # 0 => sock[thread[t].fd] = Nobody \/ sock[thread[t].fd] >= t

SocketsOK ==
    /\ LaterSockets
    /\ args # 0 => sock[args] \in {Nobody, accepted}
    /\ \A t \in Thread : t > accepted => thread[t] = NewThread("none")

ListOK ==
    /\ life \in {"running", "ended"}
    /\ numClients <= MaxClients
    /\ \A k \in Entry : k < numClients => clients[k] # Nobody
    /\ \A u, v \in Thread : Busy(u) /\ Busy(v) => u = v
    /\ \A t \in Thread : Steady(thread[t])

LEMMA PartsOfThreadedInv ==
    ThreadedInv <=> TypeOK /\ SocketsOK /\ (~overlapped => ListOK)
BY DEF ThreadedInv, SocketsOK, LaterSockets, ListOK, SerialSafe, HandlersKept

LEMMA PartsOfNextThreadedInv ==
    TypeOK' /\ SocketsOK' /\ (~overlapped' => ListOK') => ThreadedInv'
BY PartsOfThreadedInv, PTL

\* What a sequence holds once an element is appended.
LEMMA AppendedElement ==
    ASSUME NEW S, NEW d \in Seq(S), NEW x \in S
    PROVE  /\ Append(d, x) \in Seq(S) /\ Len(Append(d, x)) = Len(d) + 1 /\ Len(d) \in Nat
           /\ \A k \in DOMAIN Append(d, x) :
                 Append(d, x)[k] = x \/ (k \in DOMAIN d /\ Append(d, x)[k] = d[k])
<1>1. /\ Append(d, x) \in Seq(S) /\ Len(Append(d, x)) = Len(d) + 1 /\ Len(d) \in Nat
      /\ DOMAIN Append(d, x) = 1..(Len(d) + 1) /\ DOMAIN d = 1..Len(d)
      /\ \A k \in 1..Len(d) : Append(d, x)[k] = d[k]
      /\ Append(d, x)[Len(d) + 1] = x
  OBVIOUS
<1>2. ASSUME NEW k \in DOMAIN Append(d, x), k # Len(d) + 1
      PROVE  k \in DOMAIN d /\ Append(d, x)[k] = d[k]
  BY <1>1, <1>2
<1> QED BY <1>1, <1>2

\* A step of one handler leaves the locals of the others alone, and is remembered if
\* it makes two of them overlap.
LEMMA GoFacts ==
    ASSUME TypeOK, NEW t \in Thread, NEW rec, Go(t, rec)
    PROVE  /\ \A u \in Thread : thread'[u] = IF u = t THEN rec ELSE thread[u]
           /\ rec \in Local => thread' \in [Thread -> Local]
           /\ ~overlapped' => ~overlapped /\ \A u, v \in Thread : Busy(u)' /\ Busy(v)' => u = v
<1>1. thread' = [thread EXCEPT ![t] = rec]
  BY DEF Go
<1>2. ~overlapped' => ~overlapped /\ \A u, v \in Thread : Busy(u)' /\ Busy(v)' => u = v
  BY Zenon DEF Go
<1> QED BY <1>1, <1>2 DEF TypeOK

\* A step of a handler that leaves the list alone.
LEMMA SameList ==
    ASSUME ThreadedInv, NEW t \in Thread, NEW rec, Go(t, rec), ~overlapped',
           clients' = clients, numClients' = numClients,
           ListOK => life' \in {"running", "ended"} /\ Steady(rec)
    PROVE  ListOK'
<1>1. ListOK /\ TypeOK
  BY PartsOfThreadedInv, GoFacts
<1>2. \A u \in Thread : Steady(thread'[u])
  BY <1>1, GoFacts DEF ListOK
<1>3. \A u \in Thread : Steady(thread[u])'
  BY <1>2 DEF Steady
<1>4. \A u, v \in Thread : Busy(u)' /\ Busy(v)' => u = v
  BY <1>1, GoFacts
<1> QED BY <1>1, <1>3, <1>4 DEF ListOK

\* A step of a handler keeps its descriptor, or takes the latest.
LEMMA SameSockets ==
    ASSUME ThreadedInv, NEW t \in Thread, NEW rec, Go(t, rec), thread[t].pc # "none",
           accepted' = accepted, args' = args, sock' = sock,
           rec.fd \in {thread[t].fd, args}
    PROVE  SocketsOK'
<1>0. TypeOK /\ SocketsOK
  BY PartsOfThreadedInv
<1>1. t <= accepted
  BY <1>0 DEF SocketsOK, NewThread, TypeOK, Thread
<1>2. \A u \in Thread : thread'[u] = IF u = t THEN rec ELSE thread[u]
  BY <1>0, GoFacts
<1>3. \A u \in Thread : u > accepted' => thread'[u] = NewThread("none")
  BY <1>0, <1>1, <1>2 DEF SocketsOK, TypeOK, Thread
<1>4. args # 0 => sock[args] = Nobody \/ sock[args] >= t
  BY <1>0, <1>1 DEF SocketsOK, TypeOK, Thread
<1>5. LaterSockets'
  BY <1>0, <1>2, <1>4 DEF SocketsOK, LaterSockets
<1>6. \A u \in Thread : (thread[u] = NewThread("none"))' <=> thread'[u] = NewThread("none")
  BY DEF NewThread
<1> QED BY <1>0, <1>3, <1>5, <1>6 DEF SocketsOK

\* A handler's step that touches only its own locals.
LEMMA LocalStep ==
    ASSUME ThreadedInv, NEW t \in Thread, NEW rec \in Local, Go(t, rec),
           life = "running", thread[t].pc # "none",
           UNCHANGED <<accepted, args, sock, clients, numClients, life>>,
           rec.fd \in {thread[t].fd, args},
           ListOK => Steady(rec)
    PROVE  ThreadedInv'
<1>0. TypeOK
  BY PartsOfThreadedInv
<1>1. TypeOK'
  <2>1. thread' \in [Thread -> Local]
    BY <1>0, GoFacts
  <2> QED BY <1>0, <2>1 DEF TypeOK
<1>2. SocketsOK'
  BY SameSockets
<1>3. ~overlapped' => ListOK'
  BY SameList
<1> QED BY <1>1, <1>2, <1>3, PartsOfNextThreadedInv

(***************************************************************************)
(* The steps.                                                              *)
(***************************************************************************)
\* A connection is accepted: the new handler has the highest number, and so has the
\* client at its descriptor.
LEMMA AcceptKeepsInv ==
    ASSUME ThreadedInv, Accept
    PROVE  ThreadedInv'
<1>0. TypeOK /\ SocketsOK /\ (~overlapped => ListOK)
  BY PartsOfThreadedInv
<1> DEFINE t == accepted + 1
<1>1. /\ accepted \in Nat /\ t \in Thread /\ t \in 0..Connections /\ accepted' = t
      /\ Go(t, NewThread("start"))
      /\ UNCHANGED <<clients, numClients, life>> /\ life = "running"
  BY <1>0, ThreadedAssumption DEF Accept, TypeOK, Thread
<1>2. PICK f \in Fd : sock' = [sock EXCEPT ![f] = t] /\ args' = f
  BY DEF Accept
<1>3. /\ NewThread("start") \in Local /\ NewThread("start").fd = 0 /\ NewThread("start").data = << >>
      /\ NewThread("start").pc = "start"
  BY ThreadedAssumption DEF NewThread, Local
<1>4. \A u \in Thread : thread'[u] = IF u = t THEN NewThread("start") ELSE thread[u]
  BY <1>0, <1>1, GoFacts
<1>5. TypeOK'
  <2>1. thread' \in [Thread -> Local]
    BY <1>0, <1>1, <1>3, GoFacts
  <2>2. sock' \in [Fd -> 0..t]
    BY <1>0, <1>1, <1>2 DEF TypeOK
  <2>3. f \in 0..MaxFd
    BY ThreadedAssumption DEF Fd
  <2> QED BY <1>0, <1>1, <1>2, <2>1, <2>2, <2>3 DEF TypeOK
<1>6. SocketsOK'
  <2>1. f # 0 /\ sock'[f] = t
    BY <1>0, <1>2 DEF TypeOK, Fd
  <2>2. ASSUME NEW u \in Thread, u > accepted'
        PROVE  thread'[u] = NewThread("none")
    <3>1. u # t /\ u > accepted
      BY <1>1, <2>2 DEF Thread
    <3> QED BY <1>0, <1>4, <3>1 DEF SocketsOK
  <2>3. ASSUME NEW u \in Thread, thread'[u].fd # 0
        PROVE  sock'[thread'[u].fd] = Nobody \/ sock'[thread'[u].fd] >= u
    <3>1. u # t /\ thread'[u] = thread[u]
      BY <1>3, <1>4, <2>3
    <3>2. u <= accepted
      BY <1>0, <2>3, <3>1, <1>1 DEF SocketsOK, NewThread, Thread
    <3>3. thread[u].fd \in Fd /\ u <= t
      <4>1. thread[u].fd \in 0..MaxFd /\ thread[u].fd # 0
        BY <1>0, <2>3, <3>1 DEF TypeOK, Local
      <4> QED BY <1>1, <3>2, <4>1, ThreadedAssumption DEF Fd, Thread
    <3>4. sock'[thread[u].fd] = t \/ sock'[thread[u].fd] = sock[thread[u].fd]
      BY <1>0, <1>2, <3>3 DEF TypeOK
    <3> QED BY <1>0, <2>3, <3>1, <3>3, <3>4 DEF SocketsOK, LaterSockets
  <2>5. \A u \in Thread : (thread[u] = NewThread("none"))' <=> thread'[u] = NewThread("none")
    BY DEF NewThread
  <2> QED BY <1>1, <1>2, <2>1, <2>2, <2>3, <2>5 DEF SocketsOK, LaterSockets
<1>7. ~overlapped' => ListOK'
  <2>1. Steady(NewThread("start"))
    BY <1>3 DEF Steady
  <2> HIDE DEF t
  <2> QED BY <1>1, <2>1, SameList
<1> QED BY <1>5, <1>6, <1>7, PartsOfNextThreadedInv

\* A handler starts, receives, checks the list, reads numClients, or makes room.
LEMMA LocalStepsKeepInv ==
    ASSUME ThreadedInv, NEW t \in Thread,
           \/ HandlerStarts(t) \/ RecvCommand(t, TRUE) \/ RecvCommand(t, FALSE)
           \/ AddCheck(t) \/ AddRead(t) \/ SendAlloc(t) \/ SendCount(t) \/ SendLength(t)
    PROVE  ThreadedInv'
<1>0. TypeOK /\ SocketsOK
  BY PartsOfThreadedInv
<1>1. thread[t] \in Local /\ args \in 0..MaxFd /\ numClients \in Nat
  BY <1>0 DEF TypeOK
<1>3. /\ life = "running" /\ thread[t].pc # "none"
      /\ UNCHANGED <<accepted, args, sock, clients, numClients, life>>
  BY DEF HandlerStarts, RecvCommand, AddCheck, AddRead, SendAlloc, SendCount, SendLength, At
<1>4. CASE HandlerStarts(t)
  <2> DEFINE rec == [thread[t] EXCEPT !.pc = "recv", !.fd = args]
  <2>1. rec \in Local /\ rec.fd = args /\ rec.data = thread[t].data /\ rec.pc = "recv"
    BY <1>1 DEF Local
  <2>2. Go(t, rec)
    BY <1>4 DEF HandlerStarts
  <2>4. thread[t].pc = "start"
    BY <1>4 DEF HandlerStarts, At
  <2> HIDE DEF rec
  <2>3. ListOK => Steady(rec)
    BY <2>1, <2>4 DEF Steady, ListOK
  <2> QED BY <1>3, <2>1, <2>2, <2>3, LocalStep
<1>5. ASSUME NEW list \in BOOLEAN, RecvCommand(t, list) PROVE ThreadedInv'
  <2> DEFINE rec == [thread[t] EXCEPT !.pc = "check", !.list = list]
  <2>1. rec \in Local /\ rec.fd = thread[t].fd /\ rec.data = thread[t].data /\ rec.pc = "check"
    BY <1>1 DEF Local
  <2>2. Go(t, rec)
    BY <1>5 DEF RecvCommand
  <2>4. thread[t].pc = "recv"
    BY <1>5 DEF RecvCommand, At
  <2> HIDE DEF rec
  <2>3. ListOK => Steady(rec)
    BY <2>1, <2>4 DEF Steady, ListOK
  <2> QED BY <1>3, <2>1, <2>2, <2>3, LocalStep
<1>6. Added(t) \in Local /\ Added(t).fd = thread[t].fd /\ Added(t).data = thread[t].data
      /\ Added(t).pc \in {"alloc", "recv"}
  BY <1>1 DEF Local, Added
<1>7. CASE AddCheck(t)
  <2> DEFINE rec == IF numClients < MaxClients THEN [thread[t] EXCEPT !.pc = "store"] ELSE Added(t)
  <2>1. /\ rec \in Local /\ rec.fd = thread[t].fd /\ rec.data = thread[t].data
        /\ (rec.pc = "store" /\ numClients < MaxClients) \/ rec.pc \in {"alloc", "recv"}
    BY <1>1, <1>6 DEF Local
  <2>2. Go(t, rec)
    BY <1>7 DEF AddCheck
  <2>4. thread[t].pc = "check"
    BY <1>7 DEF AddCheck, At
  <2> HIDE DEF rec
  <2>3. ListOK => Steady(rec)
    BY <2>1, <2>4 DEF Steady, ListOK
  <2> QED BY <1>3, <2>1, <2>2, <2>3, LocalStep
<1>8. CASE AddRead(t)
  <2> DEFINE rec == [thread[t] EXCEPT !.pc = "write", !.index = numClients]
  <2>1. /\ rec \in Local /\ rec.fd = thread[t].fd /\ rec.data = thread[t].data
        /\ rec.pc = "write" /\ rec.index = numClients
    BY <1>1 DEF Local
  <2>2. Go(t, rec) /\ thread[t].pc = "read"
    BY <1>8 DEF AddRead, At
  <2> HIDE DEF rec
  <2>3. ListOK => Steady(rec)
    BY <2>1, <2>2 DEF Steady, ListOK
  <2> QED BY <1>3, <2>1, <2>2, <2>3, LocalStep
<1>9. CASE SendAlloc(t)
  <2> DEFINE rec == [thread[t] EXCEPT !.pc = "count", !.room = numClients]
  <2>1. /\ rec \in Local /\ rec.fd = thread[t].fd /\ rec.data = thread[t].data
        /\ rec.pc = "count" /\ rec.room = numClients
    BY <1>1 DEF Local
  <2>2. Go(t, rec) /\ thread[t].pc = "alloc"
    BY <1>9 DEF SendAlloc, At
  <2> HIDE DEF rec
  <2>3. ListOK => Steady(rec)
    BY <2>1, <2>2 DEF Steady, ListOK
  <2> QED BY <1>3, <2>1, <2>2, <2>3, LocalStep
<1>10. CASE SendCount(t)
  <2> DEFINE rec == [thread[t] EXCEPT !.pc = "length", !.count = numClients]
  <2>1. /\ rec \in Local /\ rec.fd = thread[t].fd /\ rec.data = thread[t].data
        /\ rec.pc = "length" /\ rec.count = numClients /\ rec.room = thread[t].room
    BY <1>1 DEF Local
  <2>2. Go(t, rec) /\ thread[t].pc = "count"
    BY <1>10 DEF SendCount, At
  <2> HIDE DEF rec
  <2>3. ListOK => Steady(rec)
    BY <2>1, <2>2 DEF Steady, ListOK
  <2> QED BY <1>3, <2>1, <2>2, <2>3, LocalStep
<1>11. CASE SendLength(t)
  <2> DEFINE rec == [thread[t] EXCEPT !.pc = "copy", !.dl = numClients]
  <2>1. /\ rec \in Local /\ rec.fd = thread[t].fd /\ rec.data = thread[t].data
        /\ rec.pc = "copy" /\ rec.dl = numClients
        /\ rec.room = thread[t].room /\ rec.count = thread[t].count
    BY <1>1 DEF Local
  <2>2. Go(t, rec) /\ thread[t].pc = "length"
    BY <1>11 DEF SendLength, At
  <2> HIDE DEF rec
  <2>3. ListOK => Steady(rec)
    <3>1. ListOK => thread[t].data = << >>
      BY <2>2 DEF Steady, ListOK
    <3>2. Len(<< >>) = 0 /\ 0 <= numClients
      BY <1>1
    <3> QED BY <2>1, <2>2, <3>1, <3>2 DEF Steady, ListOK
  <2> QED BY <1>3, <2>1, <2>2, <2>3, LocalStep
<1> QED BY <1>4, <1>5, <1>7, <1>8, <1>9, <1>10, <1>11

\* The client has left, and the handler ends.
LEMMA RecvNothingKeepsInv ==
    ASSUME ThreadedInv, NEW t \in Thread, RecvNothing(t)
    PROVE  ThreadedInv'
<1>0. TypeOK /\ SocketsOK
  BY PartsOfThreadedInv
<1> DEFINE rec == NewThread("ended")
<1>1. /\ life = "running" /\ thread[t].pc = "recv" /\ Go(t, rec)
      /\ sock' = [sock EXCEPT ![thread[t].fd] = Nobody]
      /\ UNCHANGED <<accepted, args, clients, numClients, life>>
  BY DEF RecvNothing, At
<1>2. rec \in Local /\ rec.fd = 0 /\ rec.data = << >> /\ rec.pc = "ended"
  BY ThreadedAssumption DEF NewThread, Local
<1> HIDE DEF rec
<1>3. \A u \in Thread : thread'[u] = IF u = t THEN rec ELSE thread[u]
  BY <1>0, <1>1, GoFacts
<1>4. sock' \in [Fd -> 0..accepted] /\ \A f \in Fd : sock'[f] \in {sock[f], Nobody}
  <2>1. Nobody \in 0..accepted
    BY <1>0 DEF TypeOK, Nobody
  <2> QED BY <1>0, <1>1, <2>1 DEF TypeOK
<1>5. TypeOK'
  <2>1. thread' \in [Thread -> Local]
    BY <1>0, <1>1, <1>2, GoFacts
  <2> QED BY <1>0, <1>1, <1>4, <2>1 DEF TypeOK
<1>6. SocketsOK'
  <2>1. \A u \in Thread : thread[u].fd # 0 => thread[u].fd \in Fd
    BY <1>0, ThreadedAssumption DEF TypeOK, Local, Fd
  <2>2. args # 0 => args \in Fd
    BY <1>0, ThreadedAssumption DEF TypeOK, Fd
  <2>3. LaterSockets'
    BY <1>0, <1>2, <1>3, <1>4, <2>1 DEF SocketsOK, LaterSockets
  <2>4. t <= accepted
    BY <1>0, <1>1 DEF SocketsOK, NewThread, TypeOK, Thread
  <2>5. \A u \in Thread : u > accepted => thread'[u] = NewThread("none")
    BY <1>0, <1>3, <2>4 DEF SocketsOK, Thread, TypeOK
  <2>6. \A u \in Thread : (thread[u] = NewThread("none"))' <=> thread'[u] = NewThread("none")
    BY DEF NewThread
  <2>7. args # 0 => sock'[args] \in {Nobody, accepted}
    BY <1>0, <1>4, <2>2 DEF SocketsOK
  <2> QED BY <1>1, <2>3, <2>5, <2>6, <2>7 DEF SocketsOK
<1>7. ~overlapped' => ListOK'
  <2>1. Steady(rec)
    BY <1>2 DEF Steady
  <2> QED BY <1>1, <2>1, SameList
<1> QED BY <1>5, <1>6, <1>7, PartsOfNextThreadedInv

\* While no two handlers overlap, the others are not in addClient() or sendClients().
LEMMA OthersIdle ==
    ASSUME ListOK, NEW t \in Thread, Busy(t), NEW u \in Thread, u # t
    PROVE  ~Busy(u) /\ thread[u].data = << >>
<1>1. ~Busy(u)
  BY DEF ListOK
<1> QED BY <1>1 DEF ListOK, Steady, Busy

\* An entry of clients is filled.
LEMMA AddStoreKeepsInv ==
    ASSUME ThreadedInv, NEW t \in Thread, AddStore(t)
    PROVE  ThreadedInv'
<1>0. TypeOK /\ SocketsOK /\ (~overlapped => ListOK)
  BY PartsOfThreadedInv
<1> DEFINE rec == [thread[t] EXCEPT !.pc = "read"]
<1>1. /\ life = "running" /\ thread[t].pc = "store" /\ Go(t, rec)
      /\ UNCHANGED <<accepted, args, sock, numClients>>
      /\ \/ numClients < MaxClients /\ clients' = [clients EXCEPT ![numClients] = t] /\ life' = life
         \/ ~(numClients < MaxClients) /\ clients' = clients /\ life' = "overrun"
  BY DEF AddStore, At
<1>2. /\ rec \in Local /\ rec.fd = thread[t].fd /\ rec.data = thread[t].data /\ rec.pc = "read"
  BY <1>0 DEF TypeOK, Local
<1> HIDE DEF rec
<1>3. TypeOK'
  <2>1. thread' \in [Thread -> Local]
    BY <1>0, <1>1, <1>2, GoFacts
  <2>2. t \in 0..Connections
    BY ThreadedAssumption DEF Thread
  <2>3. clients' \in [Entry -> 0..Connections]
    BY <1>0, <1>1, <2>2 DEF TypeOK
  <2> QED BY <1>0, <1>1, <2>1, <2>3 DEF TypeOK
<1>4. SocketsOK'
  BY <1>1, <1>2, SameSockets
<1>5. ASSUME ~overlapped' PROVE ListOK'
  <2>1. ListOK /\ \A u, v \in Thread : Busy(u)' /\ Busy(v)' => u = v
    BY <1>0, <1>1, <1>5, GoFacts
  <2>2. numClients < MaxClients /\ numClients \in Entry
    BY <1>0, <1>1, <2>1, ThreadedAssumption DEF ListOK, Steady, Entry, TypeOK
  <2>3. \A k \in Entry : clients'[k] = IF k = numClients THEN t ELSE clients[k]
    BY <1>0, <1>1, <2>2 DEF TypeOK
  <2>4. t # Nobody
    BY DEF Thread, Nobody
  <2>5. \A u \in Thread : Steady(thread[u])'
    <3>1. ASSUME NEW u \in Thread, u # t PROVE Steady(thread[u])'
      <4>1. ~Busy(u) /\ thread[u].data = << >> /\ thread'[u] = thread[u]
        <5>1. Busy(t)
          BY <1>1 DEF Busy
        <5>2. thread'[u] = thread[u]
          BY <1>0, <1>1, <3>1, GoFacts
        <5> QED BY <2>1, <3>1, <5>1, <5>2, OthersIdle
      <4> QED BY <4>1 DEF Busy, Steady
    <3>2. Steady(thread[t])'
      <4>1. thread'[t] = rec /\ rec.data = << >>
        BY <1>0, <1>1, <1>2, <2>1, GoFacts DEF ListOK, Steady
      <4> QED BY <1>1, <1>2, <2>2, <2>3, <2>4, <4>1 DEF Steady
    <3> QED BY <3>1, <3>2
  <2>6. \A k \in Entry : k < numClients => clients'[k] # Nobody
    BY <2>1, <2>3, <2>4 DEF ListOK
  <2> QED BY <1>1, <2>1, <2>2, <2>5, <2>6 DEF ListOK
<1> QED BY <1>3, <1>4, <1>5, PartsOfNextThreadedInv

\* The new count is written.
LEMMA AddWriteKeepsInv ==
    ASSUME ThreadedInv, NEW t \in Thread, AddWrite(t)
    PROVE  ThreadedInv'
<1>0. TypeOK /\ SocketsOK /\ (~overlapped => ListOK)
  BY PartsOfThreadedInv
<1> DEFINE rec == Added(t)
<1>1. /\ life = "running" /\ thread[t].pc = "write" /\ Go(t, rec)
      /\ numClients' = thread[t].index + 1
      /\ UNCHANGED <<accepted, args, sock, clients, life>>
  BY DEF AddWrite, At
<1>2. /\ rec \in Local /\ rec.fd = thread[t].fd /\ rec.data = thread[t].data
      /\ rec.pc \in {"alloc", "recv"} /\ thread[t].index \in Nat
  BY <1>0 DEF TypeOK, Local, Added
<1> HIDE DEF rec
<1>3. TypeOK'
  <2>1. thread' \in [Thread -> Local]
    BY <1>0, <1>1, <1>2, GoFacts
  <2> QED BY <1>0, <1>1, <1>2, <2>1 DEF TypeOK
<1>4. SocketsOK'
  BY <1>1, <1>2, SameSockets
<1>5. ASSUME ~overlapped' PROVE ListOK'
  <2>1. ListOK /\ \A u, v \in Thread : Busy(u)' /\ Busy(v)' => u = v
    BY <1>0, <1>1, <1>5, GoFacts
  <2>2. numClients \in Nat /\ numClients < MaxClients /\ numClients' = numClients + 1
        /\ clients[numClients] # Nobody
    BY <1>0, <1>1, <2>1 DEF ListOK, Steady, TypeOK
  <2>3. \A u \in Thread : Steady(thread[u])'
    <3>1. ASSUME NEW u \in Thread, u # t PROVE Steady(thread[u])'
      <4>1. ~Busy(u) /\ thread[u].data = << >> /\ thread'[u] = thread[u]
        <5>1. Busy(t)
          BY <1>1 DEF Busy
        <5>2. thread'[u] = thread[u]
          BY <1>0, <1>1, <3>1, GoFacts
        <5> QED BY <2>1, <3>1, <5>1, <5>2, OthersIdle
      <4> QED BY <4>1 DEF Busy, Steady
    <3>2. Steady(thread[t])'
      <4>1. thread'[t] = rec /\ rec.data = << >>
        BY <1>0, <1>1, <1>2, <2>1, GoFacts DEF ListOK, Steady
      <4> QED BY <1>2, <4>1 DEF Steady
    <3> QED BY <3>1, <3>2
  <2>4. \A k \in Entry : k < numClients' => clients'[k] # Nobody
    BY <1>1, <2>1, <2>2, ThreadedAssumption DEF ListOK, Entry
  <2>5. numClients' <= MaxClients
    BY <2>2, ThreadedAssumption
  <2> QED BY <1>1, <2>1, <2>3, <2>4, <2>5 DEF ListOK
<1> QED BY <1>3, <1>4, <1>5, PartsOfNextThreadedInv

\* An address is copied: it is the latest client's, whoever the entry was for.
LEMMA SendCopyKeepsInv ==
    ASSUME ThreadedInv, NEW t \in Thread, SendCopy(t)
    PROVE  ThreadedInv'
<1>0. TypeOK /\ SocketsOK /\ (~overlapped => ListOK)
  BY PartsOfThreadedInv
<1> DEFINE rec == [thread[t] EXCEPT !.data = Append(@, buffer)]
           n == Len(thread[t].data)
<1>1. /\ life = "running" /\ thread[t].pc = "copy" /\ Go(t, rec) /\ n < numClients
      /\ UNCHANGED <<accepted, args, sock, clients, numClients>>
      /\ life' = IF NextEntry(t) = Nobody THEN "wild"
                 ELSE IF n >= thread[t].room THEN "overrun" ELSE life
  BY DEF SendCopy, At
<1>2. t <= accepted /\ accepted \in 1..Connections
  BY <1>0, <1>1 DEF SocketsOK, NewThread, TypeOK, Thread
<1>3. /\ thread[t].data \in Seq(1..Connections) /\ n \in Nat
      /\ Append(thread[t].data, buffer) \in Seq(1..Connections)
      /\ Len(Append(thread[t].data, buffer)) = n + 1
      /\ \A k \in DOMAIN Append(thread[t].data, buffer) :
            \/ Append(thread[t].data, buffer)[k] = buffer
            \/ k \in DOMAIN thread[t].data /\ Append(thread[t].data, buffer)[k] = thread[t].data[k]
  <2>1. thread[t].data \in Seq(1..Connections)
    BY <1>0 DEF TypeOK, Local
  <2>2. buffer \in 1..Connections
    BY <1>2 DEF buffer
  <2> QED BY <2>1, <2>2, AppendedElement
<1>4. /\ rec \in Local /\ rec.fd = thread[t].fd /\ rec.data = Append(thread[t].data, buffer)
      /\ rec.pc = "copy" /\ rec.room = thread[t].room
      /\ rec.count = thread[t].count /\ rec.dl = thread[t].dl
  BY <1>0, <1>1, <1>3 DEF TypeOK, Local
<1> HIDE DEF rec
<1>5. TypeOK'
  <2>1. thread' \in [Thread -> Local]
    BY <1>0, <1>1, <1>4, GoFacts
  <2> QED BY <1>0, <1>1, <2>1 DEF TypeOK
<1>6. SocketsOK'
  BY <1>1, <1>4, SameSockets
<1>7. ASSUME ListOK PROVE life' = "running" /\ Steady(rec)
  <2>1. /\ thread[t].room = numClients /\ thread[t].count = numClients /\ thread[t].dl = numClients
        /\ numClients \in Nat /\ numClients <= MaxClients
    BY <1>0, <1>1, <1>7 DEF ListOK, Steady, TypeOK
  <2>2. n \in Entry /\ NextEntry(t) # Nobody
    BY <1>1, <1>3, <1>7, <2>1, ThreadedAssumption DEF Entry, NextEntry, ListOK
  <2>3. life' = "running"
    BY <1>1, <1>3, <2>1, <2>2
  <2>4. Len(rec.data) <= numClients
    BY <1>1, <1>3, <1>4, <2>1
  <2> QED BY <1>1, <1>4, <2>1, <2>3, <2>4 DEF Steady
<1>8. ~overlapped' => ListOK'
  BY <1>1, <1>7, SameList
<1> QED BY <1>5, <1>6, <1>8, PartsOfNextThreadedInv

\* The reply goes out, and the handler receives again.
LEMMA SendDataKeepsInv ==
    ASSUME ThreadedInv, NEW t \in Thread, SendData(t)
    PROVE  ThreadedInv'
<1>0. TypeOK /\ SocketsOK /\ (~overlapped => ListOK)
  BY PartsOfThreadedInv
<1> DEFINE rec == [thread[t] EXCEPT !.pc = "recv", !.room = 0, !.count = 0, !.dl = 0, !.data = << >>]
<1>1. /\ life = "running" /\ thread[t].pc = "copy" /\ Go(t, rec)
      /\ UNCHANGED <<accepted, args, sock, clients, numClients>>
      /\ life' = IF thread[t].dl > thread[t].room THEN "overrun" ELSE life
  BY DEF SendData, At
<1>2. << >> \in Seq(1..Connections)
  OBVIOUS
<1>3. rec \in Local /\ rec.fd = thread[t].fd /\ rec.data = << >> /\ rec.pc = "recv"
  BY <1>0, <1>2 DEF TypeOK, Local
<1> HIDE DEF rec
<1>4. TypeOK'
  <2>1. thread' \in [Thread -> Local]
    BY <1>0, <1>1, <1>3, GoFacts
  <2> QED BY <1>0, <1>1, <2>1 DEF TypeOK
<1>5. SocketsOK'
  BY <1>1, <1>3, SameSockets
<1>6. ASSUME ListOK PROVE life' = "running" /\ Steady(rec)
  <2>1. thread[t].room = numClients /\ thread[t].dl = numClients /\ numClients \in Nat
    BY <1>0, <1>1, <1>6 DEF ListOK, Steady, TypeOK
  <2> QED BY <1>1, <1>3, <2>1 DEF Steady
<1>7. ~overlapped' => ListOK'
  BY <1>1, <1>6, SameList
<1> QED BY <1>4, <1>5, <1>7, PartsOfNextThreadedInv

\* The process ends.
LEMMA AcceptFailsKeepsInv ==
    ASSUME ThreadedInv, AcceptFails
    PROVE  ThreadedInv'
<1>1. UNCHANGED <<accepted, args, sock, clients, numClients, thread, overlapped>> /\ life' = "ended"
  BY DEF AcceptFails
<1>2. TypeOK' /\ SerialSafe'
  BY <1>1, Zenon DEF ThreadedInv, TypeOK, SerialSafe
<1>3. HandlersKept'
  BY <1>1, Zenon DEF ThreadedInv, HandlersKept, Steady, Busy, NewThread
<1> QED BY <1>2, <1>3 DEF ThreadedInv

LEMMA StutterKeepsHandlers ==
    ASSUME ThreadedInv, UNCHANGED vars
    PROVE  ThreadedInv'
<1>1. UNCHANGED <<accepted, args, sock, clients, numClients, thread, overlapped, life>>
  BY DEF vars
<1>2. TypeOK' /\ SerialSafe'
  BY <1>1, Zenon DEF ThreadedInv, TypeOK, SerialSafe
<1>3. HandlersKept'
  BY <1>1, Zenon DEF ThreadedInv, HandlersKept, Steady, Busy, NewThread
<1> QED BY <1>2, <1>3 DEF ThreadedInv

(***************************************************************************)
(* The theorems.                                                           *)
(***************************************************************************)
\* The invariants are inductive together.
THEOREM HandlersInvariant == Spec => []ThreadedInv
<1>1. ThreadedInv /\ [Next]_vars => ThreadedInv'
  BY AcceptKeepsInv, LocalStepsKeepInv, RecvNothingKeepsInv, AddStoreKeepsInv, AddWriteKeepsInv,
     SendCopyKeepsInv, SendDataKeepsInv, AcceptFailsKeepsInv, StutterKeepsHandlers DEF Next, Handler
<1> QED BY InitialHandlers, <1>1, PTL DEF Spec

\* The threads' locals and the variables they share stay well formed.
THEOREM ThreadedTypes == Spec => []TypeOK
<1>1. ThreadedInv => TypeOK
  BY DEF ThreadedInv
<1> QED BY <1>1, HandlersInvariant, PTL

\* Every memory error of the threaded tracker is a race between two handlers, however
\* long the list is and however many clients come.
THEOREM OnlyRacesCorrupt == Spec => []SerialSafe
<1>1. ThreadedInv => SerialSafe
  BY DEF ThreadedInv
<1> QED BY <1>1, HandlersInvariant, PTL

\* While no two handlers overlap, the counted entries of clients are filled, and a handler
\* between the check and the increment of addClient() finds numClients as it left it.
THEOREM HandlersUndisturbed == Spec => []HandlersKept
<1>1. ThreadedInv => HandlersKept
  BY DEF ThreadedInv
<1> QED BY <1>1, HandlersInvariant, PTL
=============================================================================
