-------------------------- MODULE ThreadedTracker --------------------------
(***************************************************************************)
(* The tracker with a thread per connection (src/examples/tracker/         *)
(* tracker2.c).  Nothing is locked: the threads share clients and          *)
(* numClients, and each gets a pointer to main()'s args, whose ip is       *)
(* always inet_ntoa()'s one buffer.                                        *)
(*                                                                         *)
(* Clients are numbered in the order they are accepted, each with an       *)
(* address of its own; handler thread t is the one created for client t.   *)
(* A step reads or writes one shared variable.  The clients send any       *)
(* command at any time, and leave.                                         *)
(***************************************************************************)
EXTENDS Integers, Sequences, FiniteSets

CONSTANTS
    MaxClients,     \* MAXCLIENTS
    Connections,    \* clients that connect (a bound)
    MaxFd           \* descriptors

ASSUME ThreadedAssumption ==
    MaxClients \in Nat \ {0} /\ Connections \in Nat /\ MaxFd \in Nat \ {0}

Thread == 1..Connections
Fd == 1..MaxFd
Nobody == 0

VARIABLES
    accepted,     \* connections accepted; inet_ntoa()'s buffer names the latest
    args,         \* args.socket_filedef
    sock,         \* the client at each descriptor
    clients,      \* who filled each entry of clients
    numClients,
    thread,       \* the locals of each handler
    overlapped,   \* history: two handlers were inside addClient()/sendClients()
    life          \* "running", or how that ended

vars == <<accepted, args, sock, clients, numClients, thread, overlapped, life>>

buffer == accepted

\* index: what numClients++ has read; list: the command was "list"; room: the
\* entries malloc() made room for; count: the count byte; dl: the addresses to be
\* sent; data: the addresses copied.
NewThread(pc) ==
    [pc |-> pc, fd |-> 0, list |-> FALSE, index |-> 0,
     room |-> 0, count |-> 0, dl |-> 0, data |-> << >>]

Entry == 0..(MaxClients - 1)

Busy(t) ==
    thread[t].pc \in {"check", "store", "read", "write", "alloc", "count", "length", "copy"}

At(t, pc) == life = "running" /\ thread[t].pc = pc
Go(t, rec) ==
    /\ thread' = [thread EXCEPT ![t] = rec]
    /\ overlapped' = (overlapped \/ \E u, v \in Thread : u # v /\ Busy(u)' /\ Busy(v)')

(***************************************************************************)
(* The accept loop.                                                        *)
(***************************************************************************)
\* accept() returns the lowest free descriptor.
Accept ==
    /\ life = "running"
    /\ accepted < Connections
    /\ \E f \in Fd :
          /\ sock[f] = Nobody /\ \A g \in 1..(f - 1) : sock[g] # Nobody
          /\ sock' = [sock EXCEPT ![f] = accepted + 1]
          /\ args' = f
    /\ accepted' = accepted + 1
    /\ Go(accepted + 1, NewThread("start"))
    /\ UNCHANGED <<clients, numClients, life>>

\* accept() fails, for want of a descriptor or because the connection was aborted:
\* main() returns, and the process ends with all its threads.
AcceptFails ==
    /\ life = "running"
    /\ life' = "ended"
    /\ UNCHANGED <<accepted, args, sock, clients, numClients, thread, overlapped>>

(***************************************************************************)
(* handler().                                                              *)
(***************************************************************************)
\* The thread reads args, which may be the next connection's by now.
HandlerStarts(t) ==
    /\ At(t, "start")
    /\ Go(t, [thread[t] EXCEPT !.pc = "recv", !.fd = args])
    /\ UNCHANGED <<accepted, args, sock, clients, numClients, life>>

RecvCommand(t, list) ==
    /\ At(t, "recv")
    /\ sock[thread[t].fd] # Nobody
    /\ Go(t, [thread[t] EXCEPT !.pc = "check", !.list = list])
    /\ UNCHANGED <<accepted, args, sock, clients, numClients, life>>

\* The client has left, or another thread closed the descriptor.  Nothing was read
\* into the new buffer: it holds 0, and the thread ends.  (Or it holds something
\* else, and the thread receives again.)
RecvNothing(t) ==
    /\ At(t, "recv")
    /\ sock' = [sock EXCEPT ![thread[t].fd] = Nobody]
    /\ Go(t, NewThread("ended"))
    /\ UNCHANGED <<accepted, args, clients, numClients, life>>

\* addClient() is done: "joined" or an error goes out, or the list follows.
Added(t) ==
    [thread[t] EXCEPT !.pc = IF thread[t].list THEN "alloc" ELSE "recv",
                      !.list = FALSE, !.index = 0]

(***************************************************************************)
(* addClient().                                                            *)
(***************************************************************************)
AddCheck(t) ==
    /\ At(t, "check")
    /\ Go(t, IF numClients < MaxClients THEN [thread[t] EXCEPT !.pc = "store"] ELSE Added(t))
    /\ UNCHANGED <<accepted, args, sock, clients, numClients, life>>

AddStore(t) ==
    /\ At(t, "store")
    /\ IF numClients < MaxClients
       THEN clients' = [clients EXCEPT ![numClients] = t] /\ life' = life
       ELSE clients' = clients /\ life' = "overrun"
    /\ Go(t, [thread[t] EXCEPT !.pc = "read"])
    /\ UNCHANGED <<accepted, args, sock, numClients>>

\* Mutant: the count is increased twice.
AddReadTwice(t) ==
    /\ At(t, "read")
    /\ Go(t, [thread[t] EXCEPT !.pc = "write", !.index = numClients + 1])
    /\ UNCHANGED <<accepted, args, sock, clients, numClients, life>>

\* numClients++ reads,
AddRead(t) ==
    /\ At(t, "read")
    /\ Go(t, [thread[t] EXCEPT !.pc = "write", !.index = numClients])
    /\ UNCHANGED <<accepted, args, sock, clients, numClients, life>>

\* and then writes.
AddWrite(t) ==
    /\ At(t, "write")
    /\ numClients' = thread[t].index + 1
    /\ Go(t, Added(t))
    /\ UNCHANGED <<accepted, args, sock, clients, life>>

(***************************************************************************)
(* sendClients().                                                          *)
(***************************************************************************)
\* numClients is read again for the size of the buffer,
SendAlloc(t) ==
    /\ At(t, "alloc")
    /\ Go(t, [thread[t] EXCEPT !.pc = "count", !.room = numClients])
    /\ UNCHANGED <<accepted, args, sock, clients, numClients, life>>

\* for the count byte,
SendCount(t) ==
    /\ At(t, "count")
    /\ Go(t, [thread[t] EXCEPT !.pc = "length", !.count = numClients])
    /\ UNCHANGED <<accepted, args, sock, clients, numClients, life>>

\* and for the number of bytes that will be sent.
SendLength(t) ==
    /\ At(t, "length")
    /\ Go(t, [thread[t] EXCEPT !.pc = "copy", !.dl = numClients])
    /\ UNCHANGED <<accepted, args, sock, clients, numClients, life>>

\* The entry of clients that is next; behind the array there is anything.
NextEntry(t) == IF Len(thread[t].data) \in Entry THEN clients[Len(thread[t].data)] ELSE Nobody

\* Mutant: a NULL entry is copied like any other.
SendCopyNull(t) ==
    /\ At(t, "copy")
    /\ Len(thread[t].data) < numClients
    /\ Go(t, [thread[t] EXCEPT !.data =
                  Append(@, IF NextEntry(t) = Nobody THEN Nobody ELSE buffer)])
    /\ UNCHANGED <<accepted, args, sock, clients, numClients, life>>

\* The next address: every entry that was filled points to the one buffer.  An
\* entry that was not filled is NULL or not in clients at all, and one past the
\* room overruns data.
SendCopy(t) ==
    /\ At(t, "copy")
    /\ Len(thread[t].data) < numClients
    /\ life' = IF NextEntry(t) = Nobody THEN "wild"
               ELSE IF Len(thread[t].data) >= thread[t].room THEN "overrun" ELSE life
    /\ Go(t, [thread[t] EXCEPT !.data = Append(@, buffer)])
    /\ UNCHANGED <<accepted, args, sock, clients, numClients>>

\* sendData() reads as far as dl says, past the buffer if others joined meanwhile.
SendData(t) ==
    /\ At(t, "copy")
    /\ Len(thread[t].data) >= numClients
    /\ life' = IF thread[t].dl > thread[t].room THEN "overrun" ELSE life
    /\ Go(t, [thread[t] EXCEPT !.pc = "recv", !.room = 0, !.count = 0, !.dl = 0, !.data = << >>])
    /\ UNCHANGED <<accepted, args, sock, clients, numClients>>

(***************************************************************************)
(* The specification.                                                      *)
(***************************************************************************)
Init ==
    /\ accepted = 0 /\ args = 0
    /\ sock = [f \in Fd |-> Nobody]
    /\ clients = [k \in Entry |-> Nobody] /\ numClients = 0
    /\ thread = [t \in Thread |-> NewThread("none")]
    /\ overlapped = FALSE
    /\ life = "running"

Handler(t) ==
    \/ HandlerStarts(t) \/ RecvCommand(t, TRUE) \/ RecvCommand(t, FALSE) \/ RecvNothing(t)
    \/ AddCheck(t) \/ AddStore(t) \/ AddRead(t) \/ AddWrite(t)
    \/ SendAlloc(t) \/ SendCount(t) \/ SendLength(t) \/ SendCopy(t) \/ SendData(t)

Next == Accept \/ AcceptFails \/ \E t \in Thread : Handler(t)

Spec == Init /\ [][Next]_vars

(***************************************************************************)
(* Properties.                                                             *)
(***************************************************************************)
Local ==
    [pc : {"none", "start", "recv", "check", "store", "read", "write",
           "alloc", "count", "length", "copy", "ended"},
     fd : 0..MaxFd, list : BOOLEAN, index : Nat,
     room : Nat, count : Nat, dl : Nat, data : Seq(1..Connections)]

\* The states are well formed.  numClients has no bound of its own: a handler that
\* writes back an old value lets the others add again, while one that read a large
\* value has yet to write it.
TypeOK ==
    /\ accepted \in 0..Connections /\ args \in 0..MaxFd
    /\ sock \in [Fd -> 0..accepted]
    /\ clients \in [Entry -> 0..Connections]
    /\ numClients \in Nat
    /\ thread \in [Thread -> Local]
    /\ life \in {"running", "ended", "wild", "overrun"}

\* Every memory error is a race: while no two handlers work on the list at the same
\* time, clients has no hole, neither it nor a reply is overrun, and no reply is
\* sent from beyond its buffer.
SerialSafe == ~overlapped => life \in {"running", "ended"}

\* A handler finds numClients and clients as it left them.
Steady(rec) ==
    /\ rec.pc \in {"store", "read", "write"} => numClients < MaxClients
    /\ rec.pc \in {"read", "write"} => clients[numClients] # Nobody
    /\ rec.pc = "write" => rec.index = numClients
    /\ rec.pc \in {"count", "length", "copy"} => rec.room = numClients
    /\ rec.pc \in {"length", "copy"} => rec.count = numClients
    /\ rec.pc = "copy" => rec.dl = numClients /\ Len(rec.data) <= numClients
    /\ rec.pc # "copy" => rec.data = << >>

\* A handler that takes its descriptor from args too late serves a later client, never
\* an earlier one, also after descriptors were closed and used again.  As long as no
\* two handlers overlap, the entries that are counted are filled, and the one handler
\* that is in addClient() or sendClients() finds the counter at every read as it was
\* at the first, so that the buffer, the count byte and the bytes sent agree.
HandlersKept ==
    /\ \A t \in Thread :
          thread[t].fd # 0 => sock[thread[t].fd] = Nobody \/ sock[thread[t].fd] >= t
    /\ args # 0 => sock[args] \in {Nobody, accepted}
    /\ \A t \in Thread : t > accepted => thread[t] = NewThread("none")
    /\ ~overlapped =>
          /\ numClients <= MaxClients
          /\ \A k \in Entry : k < numClients => clients[k] # Nobody
          /\ \A u, v \in Thread : Busy(u) /\ Busy(v) => u = v
          /\ \A t \in Thread : Steady(thread[t])
=============================================================================
