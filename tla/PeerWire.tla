------------------------------ MODULE PeerWire ------------------------------
(***************************************************************************)
(* What one torrent client says to its peers: the status flags, requests   *)
(* and pieces of the poll() loop (src/src/torrent.c) and of the functions  *)
(* of btp.c it calls.  Swarm models how the clients connect; here the      *)
(* peers are the environment, and send whatever the protocol has.          *)
(*                                                                         *)
(* Connections are numbered: 1..Dialled are those start-up made, the later *)
(* ones were accepted.  Start-up filled connections[k - 1] for the socket  *)
(* in fds[k], and the loop uses connections[k]; what start-up did not fill *)
(* is whatever the stack held.                                             *)
(*                                                                         *)
(* Of a peer's bitfield the first byte is kept.  requested_piece and the   *)
(* connection status flag are never read, and left out.                    *)
(***************************************************************************)
EXTENDS Integers, FiniteSets

CONSTANTS
    MaxPeers,      \* MAX_PEERS: entries of fds and of connections
    TotalPieces,   \* total_pieces_in_file
    Dialled,       \* connections made at start-up
    MaxArrivals,   \* connections accepted (a bound)
    Garbage,       \* what uninitialised status flags may be
    MayReset,      \* connections the peer may reset
    Wanted,        \* pieces the peers ask for
    Offered        \* pieces the peers say they have

Flag == {"OWNINTERESTED", "OWNCHOKE", "PEERINTERESTED", "PEERCHOKE", "PENDINGREQUEST"}
Piece == 0..(TotalPieces - 1)
Slot == 0..(MaxPeers - 1)

ASSUME WireAssumption ==
    /\ MaxPeers \in Nat /\ MaxPeers > 1
    /\ TotalPieces \in 1..8
    /\ Dialled \in 0..(MaxPeers - 1)
    /\ MaxArrivals \in Nat
    /\ Garbage \subseteq SUBSET Flag
    /\ MayReset \subseteq Nat
    /\ Wanted \subseteq Piece /\ Offered \subseteq Piece

VARIABLES
    fds,        \* the connection in each entry; 0: not a peer, -1: closed
    conn,       \* connections: status_flags, piece_to_send and peerBitfield
    arrived,    \* max_peer_index: it counts the accepted connections
    pc, i,      \* where the loop is, and its i
    pollout,    \* the entries poll() reported as writable
    testFreed,  \* the buffer `test' was freed
    gone,       \* connections the peer has reset
    life,       \* "running", "exited", "left" (the arrays), or "undefined"
    out,        \* what the latest step sent: message, entry, connection, piece
    asked       \* history: the requests received: entry, connection, piece

loop == <<pc, i, pollout>>
vars == <<fds, conn, arrived, loop, testFreed, gone, life, out, asked>>

Silent == <<"none">>

Wild == {-1}   \* what stands for the byte behind an uninitialised pointer
Default == {"OWNCHOKE", "PEERCHOKE"}

\* The bits that are set in a byte.
BitsOf(n) == {b \in 0..7 : (n \div 2^b) % 2 = 1}

\* The client's own bitfield, and the bytes of it.  It stays empty: the only write
\* to it is behind a wild pointer.
set_initial_bitfield == {}
OwnBytes == (TotalPieces + 7) \div 8

\* The bytes main() believes a bitfield has.
bitfieldLen == TotalPieces + (IF TotalPieces % 8 = 0 THEN 1 ELSE 0)

\* The low byte of a BITFIELD message's length, which is its first byte.
construct_bitfield_message(len) == BitsOf((len + 1) % 256)

\* Set_peerBitfield() copies the message with its header.
IntroByte == construct_bitfield_message(TotalPieces \div 8)

\* peerContainsUndownloadedPieces() may find a byte that differs behind the end of
\* the bitfield.
Contains(bits) ==
    IF bits \ set_initial_bitfield # {} THEN {TRUE}
    ELSE IF bitfieldLen > OwnBytes THEN BOOLEAN ELSE {FALSE}

\* What is sent on entry k: the message, and the connection that gets it.
construct_state_message(msgID, k) == <<msgID, k, fds[k]>>
construct_request_message(k, piece_index) == <<"REQUEST", k, fds[k], piece_index>>
construct_piece_message(k, piece_index) == <<"PIECE", k, fds[k], piece_index>>

(***************************************************************************)
(* Steps of the loop.                                                      *)
(***************************************************************************)
\* Mutant: the loop runs one entry too far.
GoOnTooFar(k, n, ready) ==
    /\ pollout' = ready
    /\ pc' = IF k > n + 1 THEN "poll" ELSE "recv"
    /\ i' = k
    /\ life' = IF k \in Slot THEN life ELSE "left"

\* On to entry k, when n connections have been accepted.  The loop runs to
\* max_peer_index, however many entries there are: behind the last one it uses
\* memory that is not part of the arrays.
GoOn(k, n, ready) ==
    /\ pollout' = IF k > n THEN {} ELSE ready
    /\ pc' = IF k > n THEN "poll" ELSE "recv"
    /\ i' = IF k > n THEN 0 ELSE k
    /\ life' = IF k > n \/ k \in Slot THEN life ELSE "left"

Ends(how) ==
    /\ life' = how
    /\ out' = Silent
    /\ UNCHANGED <<fds, conn, arrived, loop, testFreed, gone, asked>>

\* send() on entry k succeeds; otherwise the client exits.
CanSend(k) == fds[k] > 0 /\ fds[k] \notin gone

Watched == {k \in 1..Dialled : fds[k] > 0}

\* accept(): always into fds[1], without initialize_connection().
PollAccept ==
    /\ life = "running" /\ pc = "poll"
    /\ arrived < MaxArrivals
    /\ fds' = [fds EXCEPT ![1] = Dialled + arrived + 1]
    /\ arrived' = arrived + 1
    /\ \E ready \in SUBSET Watched : GoOn(1, arrived', ready)
    /\ out' = Silent
    /\ UNCHANGED <<conn, testFreed, gone, asked>>

\* Mutant: the pass starts at the listener's entry.
PollReadyFromZero ==
    /\ life = "running" /\ pc = "poll"
    /\ arrived > 0
    /\ \E ready \in SUBSET Watched : GoOn(0, arrived, ready)
    /\ out' = Silent
    /\ UNCHANGED <<fds, conn, arrived, testFreed, gone, asked>>

PollReady ==
    /\ life = "running" /\ pc = "poll"
    /\ arrived > 0
    /\ \E ready \in SUBSET Watched : GoOn(1, arrived, ready)
    /\ out' = Silent
    /\ UNCHANGED <<fds, conn, arrived, testFreed, gone, asked>>

\* A closed entry is passed over, and recv() on a descriptor that is no socket
\* fails.  Either has no POLLOUT.
SkipEntry ==
    /\ life = "running" /\ pc = "recv"
    /\ fds[i] <= 0
    /\ out' = Silent
    /\ GoOn(i + 1, arrived, pollout)
    /\ UNCHANGED <<fds, conn, arrived, testFreed, gone, asked>>

\* recv() blocks until the peer has sent something, whatever poll() said.  A
\* connection that was reset has nothing left but the end of file.
Receiving == life = "running" /\ pc = "recv" /\ fds[i] > 0 /\ fds[i] \notin gone

RecvError ==
    /\ Receiving
    /\ fds[i] \in MayReset
    /\ gone' = gone \cup {fds[i]}
    /\ pc' = "write" /\ out' = Silent
    /\ UNCHANGED <<fds, conn, arrived, i, pollout, testFreed, life, asked>>

\* Set_Flag(): setting sets one flag, clearing clears all of them.
Set_Flag(k, flag, state) ==
    conn' = [conn EXCEPT ![k].flags = IF state = 1 THEN @ \cup {flag} ELSE {}]

RecvClosed ==
    /\ life = "running" /\ pc = "recv"
    /\ fds[i] > 0
    /\ fds' = [fds EXCEPT ![i] = -1]
    /\ Set_Flag(i, "CONNECTIONSTATUS", 0)
    /\ pc' = "write" /\ out' = Silent
    /\ UNCHANGED <<arrived, i, pollout, testFreed, gone, life, asked>>

\* 68 bytes: a handshake, answered by one and the bitfield.
RecvHandshake ==
    /\ Receiving
    /\ pc' = "write" /\ out' = construct_state_message("HANDSHAKE", i)
    /\ UNCHANGED <<fds, conn, arrived, i, pollout, testFreed, gone, life, asked>>

\* Verify_handshake() fails: another torrent, messages that happen to be as long
\* together, or the byte after the name that was never set.
Verify_handshake ==
    /\ Receiving
    /\ Ends("exited")

\* A handshake with a bitfield, answered by INTERESTED or UNINTERESTED.
RecvIntro ==
    /\ Receiving
    /\ \E contains \in Contains(IntroByte) :
          /\ conn' = [conn EXCEPT ![i].bits = IntroByte,
                                  ![i].flags = @ \cup {f \in {"OWNINTERESTED"} : contains}]
          /\ out' = construct_state_message(IF contains THEN "INTERESTED" ELSE "UNINTERESTED", i)
    /\ pc' = "write"
    /\ UNCHANGED <<fds, arrived, i, pollout, testFreed, gone, life, asked>>

\* Of other data the first message is handled, the rest is forgotten.
RecvState ==
    /\ Receiving
    /\ \/ Set_Flag(i, "OWNCHOKE", 1)          \* CHOKE
       \/ Set_Flag(i, "PEERINTERESTED", 1)    \* INTERESTED
       \/ Set_Flag(i, "OWNCHOKE", 0)          \* UNCHOKE
       \/ Set_Flag(i, "PEERINTERESTED", 0)    \* UNINTERESTED
    /\ pc' = "write" /\ out' = Silent
    /\ UNCHANGED <<fds, arrived, i, pollout, testFreed, gone, life, asked>>

\* HAVE.  The first one frees `test', which the next one uses and frees again.
RecvHave(p) ==
    /\ Receiving
    /\ conn[i].bits # Wild /\ ~testFreed
    /\ conn' = [conn EXCEPT ![i].bits = @ \cup {7 - p}]
    /\ testFreed' = TRUE
    /\ pc' = "write" /\ out' = Silent
    /\ UNCHANGED <<fds, arrived, i, pollout, gone, life, asked>>

\* BITFIELD: total_pieces_in_file bytes are copied.
RecvBitfield(P) ==
    /\ Receiving
    /\ conn[i].bits # Wild
    /\ conn' = [conn EXCEPT ![i].bits = {7 - p : p \in P}]
    /\ pc' = "write" /\ out' = Silent
    /\ UNCHANGED <<fds, arrived, i, pollout, testFreed, gone, life, asked>>

\* A HAVE or BITFIELD through a wild pointer, a second HAVE, or a BITFIELD larger
\* than the buffer.
RecvOverrun ==
    /\ Receiving
    /\ Ends("undefined")

\* Mutant: the index start-up uses.
RecvRequestShifted(p) ==
    /\ Receiving
    /\ conn' = [conn EXCEPT ![i - 1].send = p]
    /\ asked' = asked \cup {<<i, fds[i], p>>}
    /\ pc' = "write" /\ out' = Silent
    /\ UNCHANGED <<fds, arrived, i, pollout, testFreed, gone, life>>

\* REQUEST: the peer's last one replaces the one before.
RecvRequest(p) ==
    /\ Receiving
    /\ conn' = [conn EXCEPT ![i].send = p]
    /\ asked' = asked \cup {<<i, fds[i], p>>}
    /\ pc' = "write" /\ out' = Silent
    /\ UNCHANGED <<fds, arrived, i, pollout, testFreed, gone, life>>

\* CANCEL, whichever piece it names.
RecvCancel ==
    /\ Receiving
    /\ conn' = [conn EXCEPT ![i].send = -1]
    /\ pc' = "write" /\ out' = Silent
    /\ UNCHANGED <<fds, arrived, i, pollout, testFreed, gone, life, asked>>

\* The answer to a handshake cannot be sent.
AnswerFails ==
    /\ Receiving
    /\ fds[i] \in MayReset
    /\ Ends("exited")

\* Nothing is changed by a PIECE whose hash differs, or by an unknown message.
RecvIgnored ==
    /\ Receiving
    /\ pc' = "write" /\ out' = Silent
    /\ UNCHANGED <<fds, conn, arrived, i, pollout, testFreed, gone, life, asked>>

\* verify_piece() is given another piece's hash and no length, and may say anything;
\* write_piece() exits if it cannot seek, since the descriptor was never set.
verify_piece == BOOLEAN
write_piece == Ends("exited")

\* PIECE: one that is verified is written, and recorded through a wild pointer.
RecvPiece ==
    /\ Receiving
    /\ \/ FALSE \in verify_piece /\ RecvIgnored
       \/ TRUE \in verify_piece /\ (write_piece \/ Ends("undefined"))

(***************************************************************************)
(* The POLLOUT branch.                                                     *)
(***************************************************************************)
Writing == life = "running" /\ pc = "write" /\ i \in pollout
Has(flag) == flag \in conn[i].flags

MayServe == Has("PEERINTERESTED") /\ (~Has("OWNINTERESTED") \/ Has("PENDINGREQUEST"))
MayAsk == ~MayServe /\ ~Has("PENDINGREQUEST")

\* Nothing to send: not writable, the peer asked for nothing, our own request is
\* out, or the peer chokes us.
SendNothing ==
    /\ life = "running" /\ pc = "write"
    /\ \/ i \notin pollout
       \/ MayServe /\ ~Has("PEERCHOKE") /\ conn[i].send < 0
       \/ ~MayServe /\ Has("PENDINGREQUEST")
       \/ /\ MayAsk /\ Has("OWNINTERESTED") /\ Has("OWNCHOKE")
          /\ conn[i].bits # Wild /\ TRUE \in Contains(conn[i].bits)
    /\ out' = Silent
    /\ GoOn(i + 1, arrived, pollout)
    /\ UNCHANGED <<fds, conn, arrived, testFreed, gone, asked>>

\* get_piece_from_file() reads from a descriptor that was never set.
ReadFails == Ends("exited")

\* Or the descriptor happens to be a file's.
Send_piece ==
    /\ Writing /\ MayServe /\ ~Has("PEERCHOKE")
    /\ conn[i].send >= 0
    /\ \/ ReadFails
       \/ /\ CanSend(i)
          /\ out' = construct_piece_message(i, conn[i].send)
          /\ conn' = [conn EXCEPT ![i].flags = @ \cup {"PENDINGREQUEST"}]
          /\ GoOn(i + 1, arrived, pollout)
          /\ UNCHANGED <<fds, arrived, testFreed, gone, asked>>

\* UNCHOKE.  `|= 0<<PEERCHOKE' leaves the flag set.
Send_unchoked ==
    /\ Writing /\ MayServe /\ Has("PEERCHOKE")
    /\ CanSend(i)
    /\ out' = construct_state_message("UNCHOKE", i)
    /\ GoOn(i + 1, arrived, pollout)
    /\ UNCHANGED <<fds, conn, arrived, testFreed, gone, asked>>

Send_interested ==
    /\ Writing /\ MayAsk /\ conn[i].bits # Wild
    /\ TRUE \in Contains(conn[i].bits) /\ ~Has("OWNINTERESTED")
    /\ CanSend(i)
    /\ conn' = [conn EXCEPT ![i].flags = @ \cup {"OWNINTERESTED"}]
    /\ out' = construct_state_message("INTERESTED", i)
    /\ GoOn(i + 1, arrived, pollout)
    /\ UNCHANGED <<fds, arrived, testFreed, gone, asked>>

\* UNINTERESTED.  The flag stays as it is here too.
Send_uninterested ==
    /\ Writing /\ MayAsk /\ conn[i].bits # Wild
    /\ FALSE \in Contains(conn[i].bits)
    /\ CanSend(i)
    /\ out' = construct_state_message("UNINTERESTED", i)
    /\ GoOn(i + 1, arrived, pollout)
    /\ UNCHANGED <<fds, conn, arrived, testFreed, gone, asked>>

\* The branch cannot send, or reads a wild bitfield.
SendFails ==
    /\ Writing
    /\ \/ /\ (MayServe /\ Has("PEERCHOKE")) \/ (MayAsk /\ conn[i].bits # Wild)
          /\ ~CanSend(i)
          /\ Ends("exited")
       \/ MayAsk /\ conn[i].bits = Wild /\ Ends("undefined")

\* Where the search for a piece stops.  It uses i for the piece, and so looks for
\* piece k in the bitfield of entry k.
FoundAt(k) ==
    /\ k \in Slot
    /\ \A j \in 0..(k - 1) : conn[j].bits # Wild /\ j \notin conn[j].bits \ set_initial_bitfield
    /\ k = TotalPieces \/ (conn[k].bits # Wild /\ k \in conn[k].bits \ set_initial_bitfield)

Asking ==
    /\ Writing /\ MayAsk /\ conn[i].bits # Wild
    /\ TRUE \in Contains(conn[i].bits)
    /\ Has("OWNINTERESTED") /\ ~Has("OWNCHOKE")

\* The REQUEST goes to the entry the search stopped at, and the loop goes on from
\* there.  When it found nothing, piece_index was never set.
Send_request ==
    /\ Asking
    /\ \E k \in 0..TotalPieces :
          /\ FoundAt(k) /\ CanSend(k)
          /\ \E p \in IF k = TotalPieces THEN Piece ELSE {k} :
                out' = construct_request_message(k, p)
          /\ conn' = [conn EXCEPT ![k].flags = @ \cup {"PENDINGREQUEST"}]
          /\ GoOn(k + 1, arrived, pollout)
    /\ UNCHANGED <<fds, arrived, testFreed, gone, asked>>

\* It stops at the listener or at a closed entry, or leaves the arrays.
RequestFails ==
    /\ Asking
    /\ \/ \E k \in 0..TotalPieces : FoundAt(k) /\ ~CanSend(k) /\ Ends("exited")
       \/ (\A k \in 0..TotalPieces : ~FoundAt(k)) /\ Ends("undefined")

(***************************************************************************)
(* The specification.                                                      *)
(***************************************************************************)
\* Mutant: piece_to_send starts at 0, which is a piece.
initialize_connectionFromZero(g, hadBitfield) ==
    [flags |-> g \cup Default \cup {f \in {"OWNINTERESTED"} : hadBitfield},
     send |-> 0, bits |-> IF hadBitfield THEN IntroByte ELSE {}]

\* initialize_connection() ORs the defaults into what the memory held; the peer's
\* answer at start-up had a bitfield or not.
initialize_connection(g, hadBitfield) ==
    [flags |-> g \cup Default \cup {f \in {"OWNINTERESTED"} : hadBitfield},
     send |-> -1, bits |-> IF hadBitfield THEN IntroByte ELSE {}]

Prepared == {initialize_connection(g, b) : g \in Garbage, b \in BOOLEAN}
Unprepared == [flags : Garbage, send : {-1} \cup Wanted, bits : {Wild}]

Init ==
    /\ fds = [k \in Slot |-> IF k \in 1..Dialled THEN k ELSE 0]
    /\ conn \in [Slot -> Prepared \cup Unprepared]
    /\ \A k \in Slot : conn[k] \in IF k < Dialled THEN Prepared ELSE Unprepared
    /\ arrived = 0
    /\ pc = "poll" /\ i = 0 /\ pollout = {}
    /\ testFreed = FALSE /\ gone = {} /\ life = "running"
    /\ out = Silent /\ asked = {}

Receive ==
    \/ RecvError \/ RecvClosed \/ RecvHandshake \/ Verify_handshake \/ RecvIntro
    \/ AnswerFails \/ RecvState \/ RecvOverrun \/ RecvCancel \/ RecvPiece \/ RecvIgnored
    \/ \E p \in Offered : RecvHave(p)
    \/ \E P \in SUBSET Offered : RecvBitfield(P)
    \/ \E p \in Wanted : RecvRequest(p)

Write ==
    \/ SendNothing \/ Send_piece \/ Send_unchoked \/ Send_interested
    \/ Send_uninterested \/ SendFails \/ Send_request \/ RequestFails

Next == PollAccept \/ PollReady \/ SkipEntry \/ Receive \/ Write

Spec == Init /\ [][Next]_vars

(***************************************************************************)
(* Properties.                                                             *)
(***************************************************************************)
\* An entry of connections.
Connection == [flags : SUBSET Flag, send : {-1} \cup Piece, bits : {Wild} \cup SUBSET (0..7)]

\* The states are well formed, and the loop is at an entry it counts as in use.
\* (A step that takes it out of the arrays ends as "left".)
TypeOK ==
    /\ fds \in [Slot -> -1..(Dialled + arrived)]
    /\ conn \in [Slot -> Connection]
    /\ arrived \in 0..MaxArrivals
    /\ pc \in {"poll", "recv", "write"}
    /\ pc # "poll" => i \in 1..arrived
    /\ pc # "poll" /\ life = "running" => i \in Slot
    /\ pollout \subseteq Slot
    /\ testFreed \in BOOLEAN
    /\ gone \subseteq 1..(Dialled + arrived)
    /\ life \in {"running", "exited", "left", "undefined"}
    /\ asked \subseteq Slot \X (1..(Dialled + arrived)) \X Piece

\* Entry k was filled by start-up.
PreparedEntry(k) == k < Dialled

\* The pass over the entries leaves the arrays only once MAX_PEERS connections were
\* accepted: the search for a piece reuses the index of the pass, which may go back
\* and repeat entries or skip some, but not beyond the last one in use.
LeftOnlyWhenFull == life = "left" => arrived >= MaxPeers

\* A piece that leaves on an entry that start-up prepared was asked for there, by
\* this connection or by one that had the entry before it.
PieceWasRequested ==
    out[1] = "PIECE" /\ PreparedEntry(out[2]) =>
        \E a \in asked : a[1] = out[2] /\ a[2] <= out[3] /\ a[3] = out[4]

\* Why, whichever steps came before: the piece such an entry is to send was asked for
\* there, by this connection or by an earlier one (accept() always comes with a
\* number that no request has had); and fds[0] is never a peer's, so that no piece
\* goes out on the listener's entry and no request finds one there.
ConnectionsKept ==
    /\ \A k \in Slot : PreparedEntry(k) /\ conn[k].send >= 0 =>
          \E a \in asked : /\ a[1] = k /\ a[3] = conn[k].send
                           /\ fds[k] > 0 => a[2] <= fds[k]
    /\ fds[0] = 0

\* What protocol.md says: a piece goes only to a peer that requested it.  (On an
\* entry that start-up prepared; what the others hold is not defined.)
PieceToRequester ==
    out[1] = "PIECE" /\ PreparedEntry(out[2]) => <<out[2], out[3], out[4]>> \in asked

\* What the loop's comments say of a peer that is interested but choked: it is
\* unchoked, and from then on its requests are answered.
UnchokeUnchokes ==
    out[1] = "UNCHOKE" => "PEERCHOKE" \notin conn[out[2]].flags

\* What they say of a peer that has a piece we lack: the request goes to that peer.
RequestToOfferer == [][out'[1] = "REQUEST" => out'[2] = i]_vars
=============================================================================
