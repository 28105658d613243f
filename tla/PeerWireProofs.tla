--------------------------- MODULE PeerWireProofs ---------------------------
(***************************************************************************)
(* Proofs about PeerWire: for every number of entries, of connections made *)
(* at start-up and accepted later, and whatever the stack held.            *)
(***************************************************************************)
EXTENDS PeerWire, TLAPS

\* The invariants together, which no step breaks.
WireInv ==
    TypeOK /\ LeftOnlyWhenFull /\ PieceWasRequested /\ ConnectionsKept

\* Its parts: the loop, the data it works on, and the message just sent.
LoopOK ==
    /\ pc \in {"poll", "recv", "write"}
    /\ pc # "poll" => i \in 1..arrived
    /\ pc # "poll" /\ life = "running" => i \in Slot
    /\ pollout \subseteq Slot
    /\ life \in {"running", "exited", "left", "undefined"}
    /\ LeftOnlyWhenFull

DataOK ==
    /\ fds \in [Slot -> -1..(Dialled + arrived)]
    /\ conn \in [Slot -> Connection]
    /\ arrived \in 0..MaxArrivals
    /\ gone \subseteq 1..(Dialled + arrived)
    /\ asked \subseteq Slot \X (1..(Dialled + arrived)) \X Piece
    /\ ConnectionsKept

OutOK == PieceWasRequested

LEMMA PartsOfWireInv == WireInv <=> (LoopOK /\ DataOK /\ OutOK /\ testFreed \in BOOLEAN)
BY Zenon DEF WireInv, LoopOK, DataOK, OutOK, TypeOK

LEMMA PartsOfNextWireInv == (LoopOK /\ DataOK /\ OutOK /\ testFreed \in BOOLEAN)' => WireInv'
BY PartsOfWireInv, PTL

\* The constants in the form the provers use.
LEMMA WireFacts ==
    /\ MaxPeers \in Int /\ MaxPeers > 1 /\ 0 \in Slot /\ 1 \in Slot
    /\ TotalPieces \in Int /\ TotalPieces > 0 /\ TotalPieces <= 8
    /\ Dialled \in Int /\ Dialled >= 0 /\ Dialled < MaxPeers
    /\ MaxArrivals \in Int /\ MaxArrivals >= 0
    /\ Slot \subseteq Int /\ Piece \subseteq 0..7
    /\ IntroByte \subseteq 0..7 /\ Default \subseteq Flag
BY WireAssumption DEF Slot, Piece, IntroByte, construct_bitfield_message, BitsOf, Default, Flag

\* Start-up.
LEMMA InitialWire == Init => WireInv
<1> SUFFICES ASSUME Init PROVE WireInv
  OBVIOUS
<1>1. \A k \in Slot : conn[k] \in Connection
  <2>1. ASSUME NEW g \in Garbage, NEW b \in BOOLEAN
        PROVE  initialize_connection(g, b) \in Connection
    <3>1. {f \in {"OWNINTERESTED"} : b} \subseteq Flag /\ g \subseteq Flag
      BY WireAssumption DEF Flag
    <3>2. (IF b THEN IntroByte ELSE {}) \in {Wild} \cup SUBSET (0..7)
      BY WireFacts
    <3> QED BY <3>1, <3>2, WireFacts DEF initialize_connection, Connection
  <2>2. Unprepared \subseteq Connection
    BY WireAssumption DEF Unprepared, Connection
  <2> QED BY <2>1, <2>2 DEF Prepared, Init
<1>2. out[1] = "none"
  BY DEF Init, Silent
<1>3. fds \in [Slot -> -1..Dialled] /\ fds[0] = 0
  BY WireFacts DEF Init, Slot
<1>6. \A k \in Slot : PreparedEntry(k) => conn[k].send = -1
  BY DEF PreparedEntry, Prepared, initialize_connection, Init
<1>4. DataOK
  <2>1. conn \in [Slot -> Connection]
    BY <1>1 DEF Init
  <2>2. fds \in [Slot -> -1..(Dialled + arrived)]
    BY <1>3, WireFacts DEF Init
  <2>3. ConnectionsKept
    BY <1>3, <1>6 DEF ConnectionsKept
  <2> QED BY <2>1, <2>2, <2>3, WireFacts DEF DataOK, Init
<1>5. LoopOK
  BY DEF LoopOK, LeftOnlyWhenFull, Init
<1>7. OutOK
  BY <1>2 DEF OutOK, PieceWasRequested
<1>8. testFreed \in BOOLEAN
  BY DEF Init
<1> QED BY <1>4, <1>5, <1>7, <1>8, PartsOfWireInv

(***************************************************************************)
(* What the steps have in common.                                          *)
(***************************************************************************)
\* On to the next entry, which is behind the arrays only if that many were accepted.
LEMMA GoOnKeepsLoop ==
    ASSUME NEW k \in Nat, k > 0, NEW n \in Nat, NEW ready \in SUBSET Slot, LoopOK,
           life = "running", arrived' = n, GoOn(k, n, ready)
    PROVE  LoopOK'
<1>1. CASE k > n
  BY <1>1 DEF LoopOK, GoOn, LeftOnlyWhenFull
<1>2. CASE ~(k > n)
  <2>1. k \in 1..n
    BY <1>2
  <2>2. k \notin Slot => n >= MaxPeers
    BY <2>1, WireFacts DEF Slot
  <2> QED BY <1>2, <2>1, <2>2 DEF LoopOK, GoOn, LeftOnlyWhenFull
<1> QED BY <1>1, <1>2

\* The loop stays at its entry.
LEMMA StayKeepsLoop ==
    ASSUME LoopOK, pc \in {"recv", "write"}, pc' \in {"recv", "write"}, i' = i,
           arrived' = arrived, pollout' = pollout, life' = life
    PROVE  LoopOK'
BY DEF LoopOK, LeftOnlyWhenFull

\* A message that carries no piece.
LEMMA OtherMessage ==
    ASSUME out'[1] # "PIECE"
    PROVE  OutOK'
BY DEF OutOK, PieceWasRequested

\* Nothing but the loop moves.
LEMMA SameData ==
    ASSUME DataOK, UNCHANGED <<fds, conn, arrived, gone, asked>>
    PROVE  DataOK'
BY DEF DataOK, ConnectionsKept

\* One entry of connections changes, and is given nothing to send.
LEMMA OneConnection ==
    ASSUME DataOK, NEW k \in Slot, NEW c \in Connection,
           conn' = [conn EXCEPT ![k] = c],
           c.send \in {conn[k].send, -1},
           UNCHANGED <<fds, arrived, gone, asked>>
    PROVE  DataOK'
<1>1. conn' \in [Slot -> Connection]
  BY DEF DataOK
<1>2. \A j \in Slot : conn'[j] = IF j = k THEN c ELSE conn[j]
  BY DEF DataOK
<1>3. ConnectionsKept'
  <2>2. ASSUME NEW j \in Slot, PreparedEntry(j), conn'[j].send >= 0
        PROVE  \E a \in asked' : /\ a[1] = j /\ a[3] = conn'[j].send
                                 /\ fds'[j] > 0 => a[2] <= fds'[j]
    <3>1. conn'[j].send = conn[j].send
      BY <1>2, <2>2
    <3> QED BY <2>2, <3>1 DEF DataOK, ConnectionsKept
  <2> QED BY <2>2 DEF DataOK, ConnectionsKept, PreparedEntry
<1> QED BY <1>1, <1>3 DEF DataOK

\* The client ends.
LEMMA EndingKeepsInv ==
    ASSUME WireInv, NEW how \in {"exited", "undefined"}, Ends(how)
    PROVE  WireInv'
<1>1. LoopOK'
  BY PartsOfWireInv DEF LoopOK, LeftOnlyWhenFull, Ends, loop
<1>2. DataOK'
  BY PartsOfWireInv, SameData DEF Ends
<1>3. OutOK'
  <2>1. out'[1] = "none"
    BY DEF Ends, Silent
  <2> QED BY <2>1, OtherMessage
<1>4. (testFreed \in BOOLEAN)'
  BY PartsOfWireInv DEF Ends
<1> QED BY <1>1, <1>2, <1>3, <1>4, PartsOfNextWireInv

(***************************************************************************)
(* The steps.                                                              *)
(***************************************************************************)
\* accept() takes a number that is larger than that of any request, so that the
\* requests the entry had remain those of earlier connections.
LEMMA PollKeepsInv ==
    ASSUME WireInv, PollAccept \/ PollReady \/ SkipEntry
    PROVE  WireInv'
<1>0. LoopOK /\ DataOK /\ testFreed \in BOOLEAN
  BY PartsOfWireInv
<1>1. arrived \in Nat /\ arrived <= MaxArrivals
  BY <1>0, WireFacts DEF DataOK
<1>2. OutOK'
  <2>1. out'[1] = "none"
    BY DEF PollAccept, PollReady, SkipEntry, Silent
  <2> QED BY <2>1, OtherMessage
<1>3. (testFreed \in BOOLEAN)'
  BY <1>0 DEF PollAccept, PollReady, SkipEntry
<1>4. Watched \subseteq Slot
  BY WireFacts DEF Watched, Slot
<1>5. CASE PollAccept
  <2>1. LoopOK'
    <3>1. arrived' = arrived + 1 /\ arrived + 1 \in Nat /\ life = "running"
      BY <1>1, <1>5 DEF PollAccept
    <3>2. PICK ready \in SUBSET Watched : GoOn(1, arrived', ready)
      BY <1>5 DEF PollAccept
    <3> QED BY <1>0, <1>4, <3>1, <3>2, GoOnKeepsLoop
  <2> DEFINE new == Dialled + arrived + 1
  <2>2. /\ fds' = [fds EXCEPT ![1] = new] /\ arrived' = arrived + 1 /\ arrived < MaxArrivals
        /\ conn' = conn /\ gone' = gone /\ asked' = asked
    BY <1>5 DEF PollAccept
  <2>3. /\ new \in Int /\ new > 0 /\ new = Dialled + arrived'
        /\ arrived' \in 0..MaxArrivals /\ -1..(Dialled + arrived) \subseteq -1..new
        /\ 1..(Dialled + arrived) \subseteq 1..new
    BY <1>1, <2>2, WireFacts
  <2> HIDE DEF new
  <2>4. fds' \in [Slot -> -1..new]
    BY <1>0, <2>2, <2>3, WireFacts DEF DataOK
  <2>5. asked' \subseteq Slot \X (1..new) \X Piece
    BY <1>0, <2>2, <2>3 DEF DataOK
  <2>6. ConnectionsKept'
    <3>2. ASSUME NEW j \in Slot, PreparedEntry(j), conn'[j].send >= 0
          PROVE  \E a \in asked' : /\ a[1] = j /\ a[3] = conn'[j].send
                                   /\ fds'[j] > 0 => a[2] <= fds'[j]
      <4>1. PICK a \in asked : /\ a[1] = j /\ a[3] = conn[j].send
                               /\ fds[j] > 0 => a[2] <= fds[j]
        BY <1>0, <2>2, <3>2 DEF DataOK, ConnectionsKept
      <4>2. a[2] \in 1..new
        BY <2>2, <2>5
      <4>3. fds'[j] = new \/ fds'[j] = fds[j]
        BY <1>0, <2>2 DEF DataOK
      <4> QED BY <2>2, <2>3, <4>1, <4>2, <4>3
    <3>3. fds'[0] = 0
      BY <1>0, <2>2, WireFacts DEF DataOK, ConnectionsKept
    <3> QED BY <3>2, <3>3 DEF ConnectionsKept, PreparedEntry
  <2>7. DataOK'
    BY <1>0, <2>2, <2>3, <2>4, <2>5, <2>6 DEF DataOK
  <2> QED BY <1>2, <1>3, <2>1, <2>7, PartsOfNextWireInv
<1>6. CASE PollReady
  <2>1. LoopOK'
    <3>1. PICK ready \in SUBSET Watched : GoOn(1, arrived, ready)
      BY <1>6 DEF PollReady
    <3> QED BY <1>0, <1>1, <1>4, <1>6, <3>1, GoOnKeepsLoop DEF PollReady
  <2>2. DataOK'
    BY <1>0, <1>6, SameData DEF PollReady
  <2> QED BY <1>2, <1>3, <2>1, <2>2, PartsOfNextWireInv
<1>7. CASE SkipEntry
  <2>1. LoopOK'
    <3>1. i + 1 \in Nat /\ i + 1 > 0 /\ pollout \in SUBSET Slot
      BY <1>0, <1>1, <1>7 DEF SkipEntry, LoopOK
    <3> QED BY <1>0, <1>1, <1>7, <3>1, GoOnKeepsLoop DEF SkipEntry
  <2>2. DataOK'
    BY <1>0, <1>7, SameData DEF SkipEntry
  <2> QED BY <1>2, <1>3, <2>1, <2>2, PartsOfNextWireInv
<1> QED BY <1>5, <1>6, <1>7

\* A message is received and the loop stays at its entry.
LEMMA ReceivedKeepsInv ==
    ASSUME WireInv, life = "running", pc = "recv", pc' = "write", out'[1] # "PIECE",
           UNCHANGED <<arrived, i, pollout, life>>, DataOK', (testFreed \in BOOLEAN)'
    PROVE  WireInv'
<1>1. LoopOK'
  BY PartsOfWireInv, StayKeepsLoop
<1>2. OutOK'
  BY OtherMessage
<1> QED BY <1>1, <1>2, PartsOfNextWireInv

\* A descriptor is closed: its flags are cleared with it.
LEMMA ClosedKeepsInv ==
    ASSUME WireInv, RecvClosed
    PROVE  WireInv'
<1>0. LoopOK /\ DataOK /\ testFreed \in BOOLEAN
  BY PartsOfWireInv
<1>1. i \in Slot /\ i # 0
  BY <1>0, WireFacts DEF LoopOK, RecvClosed, DataOK
<1>2. /\ fds' = [fds EXCEPT ![i] = -1] /\ conn' = [conn EXCEPT ![i].flags = {}]
      /\ asked' = asked /\ arrived' = arrived /\ gone' = gone
  BY DEF RecvClosed, Set_Flag
<1>3. conn' \in [Slot -> Connection] /\ \A j \in Slot : conn'[j].send = conn[j].send
  BY <1>0, <1>1, <1>2 DEF DataOK, Connection
<1>4. fds' \in [Slot -> -1..(Dialled + arrived)] /\ fds'[0] = 0
  BY <1>0, <1>1, <1>2, WireFacts DEF DataOK, ConnectionsKept
<1>5. ConnectionsKept'
  <2>2. ASSUME NEW j \in Slot, PreparedEntry(j), conn'[j].send >= 0
        PROVE  \E a \in asked' : /\ a[1] = j /\ a[3] = conn'[j].send
                                 /\ fds'[j] > 0 => a[2] <= fds'[j]
    <3>1. PICK a \in asked : /\ a[1] = j /\ a[3] = conn[j].send
                             /\ fds[j] > 0 => a[2] <= fds[j]
      BY <1>0, <1>3, <2>2 DEF DataOK, ConnectionsKept
    <3>2. fds'[j] = -1 \/ fds'[j] = fds[j]
      BY <1>0, <1>2 DEF DataOK
    <3> QED BY <1>2, <1>3, <3>1, <3>2
  <2> QED BY <1>4, <2>2 DEF ConnectionsKept, PreparedEntry
<1>6. DataOK'
  BY <1>0, <1>1, <1>2, <1>3, <1>4, <1>5 DEF DataOK
<1>7. out'[1] = "none"
  BY DEF RecvClosed, Silent
<1>8. (testFreed \in BOOLEAN)'
  BY <1>0 DEF RecvClosed
<1> QED BY <1>6, <1>7, <1>8, ReceivedKeepsInv DEF RecvClosed

\* A REQUEST is recorded with what it asks for.
LEMMA RequestKeepsInv ==
    ASSUME WireInv, NEW p \in Wanted, RecvRequest(p)
    PROVE  WireInv'
<1>0. LoopOK /\ DataOK /\ testFreed \in BOOLEAN
  BY PartsOfWireInv
<1>1. i \in Slot /\ fds[i] \in 1..(Dialled + arrived)
  BY <1>0, WireFacts DEF LoopOK, RecvRequest, Receiving, DataOK
<1>2. /\ conn' = [conn EXCEPT ![i].send = p] /\ asked' = asked \cup {<<i, fds[i], p>>}
      /\ fds' = fds /\ arrived' = arrived /\ gone' = gone
  BY DEF RecvRequest
<1>3. p \in Piece
  BY WireAssumption
<1>4. /\ conn' \in [Slot -> Connection]
      /\ \A j \in Slot : /\ conn'[j].send = IF j = i THEN p ELSE conn[j].send
                         /\ conn'[j].flags = conn[j].flags
  BY <1>0, <1>1, <1>2, <1>3 DEF DataOK, Connection
<1>5. asked' \subseteq Slot \X (1..(Dialled + arrived)) \X Piece
  BY <1>0, <1>1, <1>2, <1>3 DEF DataOK
<1>6. ConnectionsKept'
  <2>2. ASSUME NEW j \in Slot, PreparedEntry(j), conn'[j].send >= 0
        PROVE  \E a \in asked' : /\ a[1] = j /\ a[3] = conn'[j].send
                                 /\ fds'[j] > 0 => a[2] <= fds'[j]
    <3>1. CASE j = i
      <4>1. <<i, fds[i], p>> \in asked' /\ fds[i] <= fds[i]
        BY <1>1, <1>2
      <4> QED BY <1>2, <1>4, <3>1, <4>1
    <3>2. CASE j # i
      <4>1. PICK a \in asked : /\ a[1] = j /\ a[3] = conn[j].send
                               /\ fds[j] > 0 => a[2] <= fds[j]
        BY <1>0, <1>4, <2>2, <3>2 DEF DataOK, ConnectionsKept
      <4> QED BY <1>2, <1>4, <3>2, <4>1
    <3> QED BY <3>1, <3>2
  <2> QED BY <1>0, <1>2, <2>2 DEF ConnectionsKept, PreparedEntry, DataOK
<1>7. DataOK'
  BY <1>0, <1>2, <1>4, <1>5, <1>6 DEF DataOK
<1>8. out'[1] = "none"
  BY DEF RecvRequest, Silent
<1>9. (testFreed \in BOOLEAN)'
  BY <1>0 DEF RecvRequest
<1> QED BY <1>7, <1>8, <1>9, ReceivedKeepsInv DEF RecvRequest, Receiving

\* A status message sets a flag, or clears them all.
LEMMA StateKeepsInv ==
    ASSUME WireInv, RecvState
    PROVE  WireInv'
<1>0. LoopOK /\ DataOK /\ testFreed \in BOOLEAN
  BY PartsOfWireInv
<1>1. i \in Slot /\ conn[i] \in Connection
  BY <1>0 DEF LoopOK, RecvState, Receiving, DataOK
<1>2. UNCHANGED <<fds, arrived, gone, asked>>
  BY DEF RecvState
<1>3. DataOK'
  <2>1. ASSUME NEW flag \in Flag, Set_Flag(i, flag, 1)
        PROVE  DataOK'
    <3> DEFINE c == [conn[i] EXCEPT !.flags = @ \cup {flag}]
    <3>1. conn' = [conn EXCEPT ![i] = c]
      BY <1>0, <1>1, <2>1 DEF Set_Flag, DataOK
    <3>2. c \in Connection /\ c.flags = conn[i].flags \cup {flag} /\ c.send = conn[i].send
      BY <1>1 DEF Connection
    <3> HIDE DEF c
    <3> QED BY <1>0, <1>1, <1>2, <2>1, <3>1, <3>2, OneConnection 
  <2>2. ASSUME NEW flag, Set_Flag(i, flag, 0)
        PROVE  DataOK'
    <3>1. conn' = [conn EXCEPT ![i].flags = {}]
      BY <2>2 DEF Set_Flag
    <3>2. /\ conn' \in [Slot -> Connection]
          /\ \A j \in Slot : /\ conn'[j].send = conn[j].send
                             /\ j # i => conn'[j].flags = conn[j].flags
      BY <1>0, <1>1, <3>1 DEF DataOK, Connection
    <3>3. ConnectionsKept'
      <4>2. ASSUME NEW j \in Slot, PreparedEntry(j), conn'[j].send >= 0
            PROVE  \E a \in asked' : /\ a[1] = j /\ a[3] = conn'[j].send
                                     /\ fds'[j] > 0 => a[2] <= fds'[j]
        BY <1>0, <1>2, <3>2, <4>2 DEF DataOK, ConnectionsKept
      <4> QED BY <1>0, <1>2, <4>2 DEF ConnectionsKept, PreparedEntry, DataOK
    <3> QED BY <1>0, <1>1, <1>2, <2>2, <3>2, <3>3 DEF DataOK
  <2>3. "OWNCHOKE" \in Flag /\ "PEERINTERESTED" \in Flag
    BY DEF Flag
  <2> QED BY <2>1, <2>2, <2>3 DEF RecvState
<1>4. out'[1] = "none"
  BY DEF RecvState, Silent
<1>5. (testFreed \in BOOLEAN)'
  BY <1>0 DEF RecvState
<1> QED BY <1>3, <1>4, <1>5, ReceivedKeepsInv DEF RecvState, Receiving

\* The messages that change one entry of connections.
LEMMA EntryMessageKeepsInv ==
    ASSUME WireInv,
           \/ RecvIntro \/ RecvCancel
           \/ \E p \in Offered : RecvHave(p)
           \/ \E P \in SUBSET Offered : RecvBitfield(P)
    PROVE  WireInv'
<1>0. LoopOK /\ DataOK /\ testFreed \in BOOLEAN
  BY PartsOfWireInv
<1>1. /\ i \in Slot /\ conn[i] \in Connection /\ life = "running" /\ pc = "recv" /\ pc' = "write"
      /\ UNCHANGED <<fds, arrived, gone, asked>> /\ UNCHANGED <<arrived, i, pollout, life>>
  BY <1>0 DEF LoopOK, RecvIntro, RecvCancel, RecvHave, RecvBitfield, Receiving, DataOK
<1>2. CASE RecvIntro
  <2>1. PICK contains \in Contains(IntroByte) :
          /\ conn' = [conn EXCEPT ![i].bits = IntroByte,
                                  ![i].flags = @ \cup {f \in {"OWNINTERESTED"} : contains}]
          /\ out' = construct_state_message(IF contains THEN "INTERESTED" ELSE "UNINTERESTED", i)
    BY <1>2 DEF RecvIntro
  <2> DEFINE more == {f \in {"OWNINTERESTED"} : contains}
  <2>2. more \subseteq Flag
    BY DEF Flag
  <2> HIDE DEF more
  <2> DEFINE c == [conn[i] EXCEPT !.bits = IntroByte, !.flags = @ \cup more]
  <2>3. conn' = [conn EXCEPT ![i] = c]
    BY <1>0, <1>1, <2>1 DEF DataOK, more
  <2>4. c \in Connection /\ c.flags = conn[i].flags \cup more /\ c.send = conn[i].send
    BY <1>1, <2>2, WireFacts DEF Connection
  <2> HIDE DEF c
  <2>5. DataOK'
    BY <1>0, <1>1, <2>3, <2>4, OneConnection
  <2>6. out'[1] \in {"INTERESTED", "UNINTERESTED"}
    BY <2>1 DEF construct_state_message
  <2>7. (testFreed \in BOOLEAN)'
    BY <1>0, <1>2 DEF RecvIntro
  <2> QED BY <1>1, <2>5, <2>6, <2>7, ReceivedKeepsInv
<1>3. CASE RecvCancel
  <2> DEFINE c == [conn[i] EXCEPT !.send = -1]
  <2>1. conn' = [conn EXCEPT ![i] = c]
    BY <1>0, <1>1, <1>3 DEF DataOK, RecvCancel
  <2>2. c \in Connection /\ c.flags = conn[i].flags /\ c.send = -1
    BY <1>1 DEF Connection
  <2> HIDE DEF c
  <2>3. DataOK'
    BY <1>0, <1>1, <2>1, <2>2, OneConnection
  <2>4. out'[1] = "none"
    BY <1>3 DEF RecvCancel, Silent
  <2>5. (testFreed \in BOOLEAN)'
    BY <1>0, <1>3 DEF RecvCancel
  <2> QED BY <1>1, <2>3, <2>4, <2>5, ReceivedKeepsInv
<1>4. ASSUME NEW p \in Offered, RecvHave(p) PROVE WireInv'
  <2> DEFINE c == [conn[i] EXCEPT !.bits = @ \cup {7 - p}]
  <2>1. conn' = [conn EXCEPT ![i] = c] /\ conn[i].bits # Wild
    BY <1>0, <1>1, <1>4 DEF DataOK, RecvHave
  <2>2. 7 - p \in 0..7
    BY WireAssumption, WireFacts
  <2>3. c \in Connection /\ c.flags = conn[i].flags /\ c.send = conn[i].send
    BY <1>1, <2>1, <2>2 DEF Connection
  <2> HIDE DEF c
  <2>4. DataOK'
    BY <1>0, <1>1, <2>1, <2>3, OneConnection
  <2>5. out'[1] = "none"
    BY <1>4 DEF RecvHave, Silent
  <2>6. (testFreed \in BOOLEAN)'
    BY <1>4 DEF RecvHave
  <2> QED BY <1>1, <2>4, <2>5, <2>6, ReceivedKeepsInv
<1>5. ASSUME NEW P \in SUBSET Offered, RecvBitfield(P) PROVE WireInv'
  <2> DEFINE c == [conn[i] EXCEPT !.bits = {7 - p : p \in P}]
  <2>1. conn' = [conn EXCEPT ![i] = c]
    BY <1>0, <1>1, <1>5 DEF DataOK, RecvBitfield
  <2>2. {7 - p : p \in P} \subseteq 0..7
    BY WireAssumption, WireFacts
  <2>3. c \in Connection /\ c.flags = conn[i].flags /\ c.send = conn[i].send
    BY <1>1, <2>2 DEF Connection
  <2> HIDE DEF c
  <2>4. DataOK'
    BY <1>0, <1>1, <2>1, <2>3, OneConnection
  <2>5. out'[1] = "none"
    BY <1>5 DEF RecvBitfield, Silent
  <2>6. (testFreed \in BOOLEAN)'
    BY <1>0, <1>5 DEF RecvBitfield
  <2> QED BY <1>1, <2>4, <2>5, <2>6, ReceivedKeepsInv
<1> QED BY <1>2, <1>3, <1>4, <1>5

\* The messages that change no entry.
LEMMA QuietMessageKeepsInv ==
    ASSUME WireInv, RecvError \/ RecvHandshake \/ RecvIgnored
    PROVE  WireInv'
<1>0. LoopOK /\ DataOK /\ testFreed \in BOOLEAN
  BY PartsOfWireInv
<1>1. DataOK'
  <2>1. CASE RecvError
    <3>1. i \in Slot /\ fds[i] \in 1..(Dialled + arrived)
      BY <1>0, <2>1, WireFacts DEF LoopOK, RecvError, Receiving, DataOK
    <3> QED BY <1>0, <2>1, <3>1 DEF RecvError, DataOK, ConnectionsKept
  <2>2. CASE RecvHandshake \/ RecvIgnored
    BY <1>0, <2>2, SameData DEF RecvHandshake, RecvIgnored
  <2> QED BY <2>1, <2>2
<1>2. out'[1] \in {"none", "HANDSHAKE"}
  BY DEF RecvError, RecvHandshake, RecvIgnored, Silent, construct_state_message
<1>3. (testFreed \in BOOLEAN)'
  BY <1>0 DEF RecvError, RecvHandshake, RecvIgnored
<1> QED BY <1>1, <1>2, <1>3, ReceivedKeepsInv DEF RecvError, RecvHandshake, RecvIgnored, Receiving

\* Whatever the peer sends.
LEMMA ReceiveKeepsInv ==
    ASSUME WireInv, Receive
    PROVE  WireInv'
<1>1. CASE Verify_handshake \/ AnswerFails \/ RecvOverrun
  BY <1>1, EndingKeepsInv DEF Verify_handshake, AnswerFails, RecvOverrun
<1>2. CASE RecvPiece
  BY <1>2, EndingKeepsInv, QuietMessageKeepsInv DEF RecvPiece, write_piece
<1>3. CASE RecvClosed
  BY <1>3, ClosedKeepsInv
<1>4. CASE RecvState
  BY <1>4, StateKeepsInv
<1>5. CASE \E p \in Wanted : RecvRequest(p)
  BY <1>5, RequestKeepsInv
<1>6. CASE RecvError \/ RecvHandshake \/ RecvIgnored
  BY <1>6, QuietMessageKeepsInv
<1>7. CASE \/ RecvIntro \/ RecvCancel
           \/ \E p \in Offered : RecvHave(p)
           \/ \E P \in SUBSET Offered : RecvBitfield(P)
  BY <1>7, EntryMessageKeepsInv
<1> QED BY <1>1, <1>2, <1>3, <1>4, <1>5, <1>6, <1>7 DEF Receive

\* A step of the POLLOUT branch goes on from some entry.
LEMMA SentKeepsInv ==
    ASSUME WireInv, life = "running", pc = "write", NEW k \in Slot, GoOn(k + 1, arrived, pollout),
           arrived' = arrived, testFreed' = testFreed, DataOK', OutOK'
    PROVE  WireInv'
<1>1. k + 1 \in Nat /\ k + 1 > 0 /\ arrived \in Nat /\ pollout \in SUBSET Slot
  BY PartsOfWireInv, WireFacts DEF Slot, DataOK, LoopOK
<1>2. LoopOK'
  BY <1>1, PartsOfWireInv, GoOnKeepsLoop
<1>3. (testFreed \in BOOLEAN)'
  BY PartsOfWireInv
<1> QED BY <1>2, <1>3, PartsOfNextWireInv

\* An entry gains a flag.
LEMMA FlagGained ==
    ASSUME DataOK, NEW k \in Slot, NEW flag \in Flag,
           conn' = [conn EXCEPT ![k].flags = @ \cup {flag}],
           UNCHANGED <<fds, arrived, gone, asked>>
    PROVE  DataOK'
<1> DEFINE c == [conn[k] EXCEPT !.flags = @ \cup {flag}]
<1>1. conn' = [conn EXCEPT ![k] = c] /\ conn[k] \in Connection
  BY DEF DataOK
<1>2. c \in Connection /\ c.flags = conn[k].flags \cup {flag} /\ c.send = conn[k].send
  BY <1>1 DEF Connection
<1> HIDE DEF c
<1> QED BY <1>1, <1>2, OneConnection

\* A piece leaves on a prepared entry only if that entry was asked for it.
LEMMA SendPieceKeepsInv ==
    ASSUME WireInv, Send_piece
    PROVE  WireInv'
<1>0. LoopOK /\ DataOK
  BY PartsOfWireInv
<1>1. CASE ReadFails
  BY <1>1, EndingKeepsInv DEF ReadFails
<1>2. CASE ~ReadFails
  <2>1. /\ life = "running" /\ pc = "write" /\ conn[i].send >= 0
        /\ fds[i] > 0 /\ out' = <<"PIECE", i, fds[i], conn[i].send>>
        /\ conn' = [conn EXCEPT ![i].flags = @ \cup {"PENDINGREQUEST"}]
        /\ GoOn(i + 1, arrived, pollout)
        /\ UNCHANGED <<fds, arrived, testFreed, gone, asked>>
    BY <1>2 DEF Send_piece, Writing, Has, CanSend, construct_piece_message
  <2>2. i \in Slot /\ "PENDINGREQUEST" \in Flag
    BY <1>0, <2>1 DEF LoopOK, Flag
  <2>3. DataOK'
    BY <1>0, <2>1, <2>2, FlagGained
  <2>4. out'[1] = "PIECE" /\ out'[2] = i /\ out'[3] = fds[i] /\ out'[4] = conn[i].send
    BY <2>1
  <2>6. PieceWasRequested'
    <3>1. PreparedEntry(i) => \E a \in asked : a[1] = i /\ a[3] = conn[i].send /\ a[2] <= fds[i]
      BY <1>0, <2>1, <2>2 DEF DataOK, ConnectionsKept
    <3> QED BY <2>1, <2>4, <3>1 DEF PieceWasRequested, PreparedEntry
  <2> QED BY <2>1, <2>2, <2>3, <2>6, SentKeepsInv DEF OutOK
<1> QED BY <1>1, <1>2

\* The request goes to the entry the search stopped at, and the pass goes on there.
LEMMA SendRequestKeepsInv ==
    ASSUME WireInv, Send_request
    PROVE  WireInv'
<1>0. LoopOK /\ DataOK
  BY PartsOfWireInv
<1>1. PICK k \in 0..TotalPieces :
          /\ FoundAt(k) /\ CanSend(k)
          /\ \E p \in IF k = TotalPieces THEN Piece ELSE {k} :
                out' = construct_request_message(k, p)
          /\ conn' = [conn EXCEPT ![k].flags = @ \cup {"PENDINGREQUEST"}]
          /\ GoOn(k + 1, arrived, pollout)
  BY DEF Send_request
<1>2. PICK p \in IF k = TotalPieces THEN Piece ELSE {k} : out' = <<"REQUEST", k, fds[k], p>>
  BY <1>1 DEF construct_request_message
<1>3. k \in Slot /\ fds[k] > 0
  BY <1>1 DEF FoundAt, CanSend
<1>4. /\ life = "running" /\ pc = "write" /\ "PENDINGREQUEST" \in Flag
      /\ UNCHANGED <<fds, arrived, testFreed, gone, asked>>
  BY DEF Send_request, Asking, Writing, Flag
<1>5. DataOK'
  BY <1>0, <1>1, <1>3, <1>4, FlagGained
<1>8. OutOK'
  <2>1. out'[1] = "REQUEST"
    BY <1>2
  <2> QED BY <2>1, OtherMessage
<1> QED BY <1>1, <1>3, <1>4, <1>5, <1>8, SentKeepsInv

\* The POLLOUT branch.
LEMMA WriteKeepsInv ==
    ASSUME WireInv, Write
    PROVE  WireInv'
<1>0. LoopOK /\ DataOK
  BY PartsOfWireInv
<1>1. CASE SendNothing \/ Send_unchoked \/ Send_uninterested
  <2>1. /\ life = "running" /\ pc = "write" /\ GoOn(i + 1, arrived, pollout)
        /\ UNCHANGED <<fds, conn, arrived, testFreed, gone, asked>>
    BY <1>1 DEF SendNothing, Send_unchoked, Send_uninterested, Writing
  <2>2. out'[1] \in {"none", "UNCHOKE", "UNINTERESTED"}
    <3>1. SendNothing => out'[1] = "none"
      BY DEF SendNothing, Silent
    <3>2. Send_unchoked => out'[1] = "UNCHOKE"
      BY DEF Send_unchoked, construct_state_message
    <3>3. Send_uninterested => out'[1] = "UNINTERESTED"
      BY DEF Send_uninterested, construct_state_message
    <3> QED BY <1>1, <3>1, <3>2, <3>3
  <2>3. OutOK'
    BY <2>2, OtherMessage
  <2>4. DataOK'
    BY <1>0, <2>1, SameData
  <2>5. i \in Slot
    BY <1>0, <2>1 DEF LoopOK
  <2> QED BY <2>1, <2>3, <2>4, <2>5, SentKeepsInv
<1>2. CASE Send_interested
  <2>1. /\ life = "running" /\ pc = "write" /\ GoOn(i + 1, arrived, pollout)
        /\ conn' = [conn EXCEPT ![i].flags = @ \cup {"OWNINTERESTED"}]
        /\ UNCHANGED <<fds, arrived, testFreed, gone, asked>>
    BY <1>2 DEF Send_interested, Writing
  <2>2. out'[1] = "INTERESTED"
    BY <1>2 DEF Send_interested, construct_state_message
  <2>3. OutOK'
    BY <2>2, OtherMessage
  <2>4. i \in Slot /\ "OWNINTERESTED" \in Flag
    BY <1>0, <2>1 DEF LoopOK, Flag
  <2>5. DataOK'
    BY <1>0, <2>1, <2>4, FlagGained
  <2> QED BY <2>1, <2>3, <2>4, <2>5, SentKeepsInv
<1>3. CASE Send_piece
  BY <1>3, SendPieceKeepsInv
<1>4. CASE Send_request
  BY <1>4, SendRequestKeepsInv
<1>5. CASE SendFails \/ RequestFails
  BY <1>5, EndingKeepsInv DEF SendFails, RequestFails
<1> QED BY <1>1, <1>2, <1>3, <1>4, <1>5 DEF Write

\* A step that changes nothing.
LEMMA StutterKeepsInv ==
    ASSUME WireInv, UNCHANGED vars
    PROVE  WireInv'
BY Zenon DEF WireInv, TypeOK, LeftOnlyWhenFull, PieceWasRequested, ConnectionsKept,
    PreparedEntry, vars, loop

(***************************************************************************)
(* The theorems.                                                           *)
(***************************************************************************)
\* The invariants are inductive together.
THEOREM WireInvariant == Spec => []WireInv
<1>1. WireInv /\ [Next]_vars => WireInv'
  BY PollKeepsInv, ReceiveKeepsInv, WriteKeepsInv, StutterKeepsInv DEF Next
<1> QED BY InitialWire, <1>1, PTL DEF Spec

\* The poll() loop's states are well formed: whatever the peers send and however often
\* the search for a piece moves its index, the loop is at an entry it counts as in use.
THEOREM WireTypes == Spec => []TypeOK
<1>1. WireInv => TypeOK
  BY DEF WireInv
<1> QED BY <1>1, WireInvariant, PTL

\* The pass leaves fds and connections only once MAX_PEERS connections were accepted,
\* although the search for a piece uses its index.
THEOREM PassStaysInside == Spec => []LeftOnlyWhenFull
<1>1. WireInv => LeftOnlyWhenFull
  BY DEF WireInv
<1> QED BY <1>1, WireInvariant, PTL

\* What the entries hold: a prepared one is to send only what it was asked for.
THEOREM EntriesKept == Spec => []ConnectionsKept
<1>1. WireInv => ConnectionsKept
  BY DEF WireInv
<1> QED BY <1>1, WireInvariant, PTL

\* A piece that leaves on a prepared entry was requested there, by its connection or by
\* one that had the entry before.
THEOREM PiecesWereRequested == Spec => []PieceWasRequested
<1>1. WireInv => PieceWasRequested
  BY DEF WireInv
<1> QED BY <1>1, WireInvariant, PTL

=============================================================================
