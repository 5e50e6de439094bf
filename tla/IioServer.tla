------------------------------ MODULE IioServer ------------------------------
(***************************************************************************)
(* The network side of the IIO server: the main loop of iio_app_run and    *)
(* iio_step (iio/iio.c), its pool and queue of iiod connections, the TCP   *)
(* descriptors of network/tcp_socket.c and the table of sockets over the   *)
(* raw lwIP interface (network/lwip_raw_socket/lwip_socket.c).  lwIP runs  *)
(* its callbacks only while iio_step polls it, between the acceptance of   *)
(* new clients and the service of one connection.                          *)
(*                                                                         *)
(* A client is a peer, numbered in the order of arrival; each connects at  *)
(* most once, so that a peer also names its lwIP control block (pcb).  A   *)
(* request is one command line; how it is read and answered is the subject *)
(* of module Iiod.                                                         *)
(***************************************************************************)
EXTENDS Integers, Sequences, FiniteSets, FiniteSetsExt

CONSTANTS
  NbSockets,  \* NO_OS_MAX_SOCKETS
  NbConns,    \* IIOD_MAX_CONNECTIONS
  NbPeers,    \* bound: clients in the life of the server
  MaxReqs,    \* bound: requests a client sends
  Setups      \* the environments that are considered

ASSUME ServerAssumption ==
  /\ NbSockets \in Nat \ {0} /\ NbConns \in Nat \ {0}
  /\ NbPeers \in Nat /\ MaxReqs \in Nat
  /\ Setups \subseteq
       [resets : BOOLEAN,   \* lwIP reports errors on established connections
        fails : BOOLEAN,    \* allocations, tcp_write and push_buffer may fail
        requests : SUBSET {"exit", "error", "cyclic"}]
                            \* what clients send besides plain requests

Slots == 0 .. NbSockets - 1
ConnIds == 0 .. NbConns - 1
Peers == 1 .. NbPeers
NoPcb == 0
ServerPcb == NbPeers + 1
Server == 0   \* sock_id of desc->server: the first slot that was free

VARIABLES
  setup,    \* member of Setups, fixed
  sockets,  \* lwip_network_desc.sockets: state, pcb and the received frames p
  pcbs,     \* lwIP: the control block of each peer
  conns,    \* iiod_desc.conns: used, conn->id, and its first peer (history)
  queue,    \* desc->conns: ids of the connections to serve; the one that is
            \* being served stays at the head until its step ends
  pc,       \* where iio_app_run is
  sent,     \* history: requests sent by each peer
  taken,    \* history: requests of a peer taken by the connection of a peer
  cause,    \* history: why iio_app_run has stopped
  reused,   \* history: a client was given a slot that was still in use
  dangling  \* history: lwIP was called with a pcb it had freed

net == <<sockets, pcbs, dangling>>
history == <<cause, reused>>
vars == <<setup, net, conns, queue, pc, sent, taken, history>>

Unused == [state |-> "CLOSED", pcb |-> NoPcb, p |-> <<>>]
NoConn == [used |-> FALSE, sock |-> 0, peer |-> NoPcb]

\* iio_init: the server socket has been opened, bound and set to listen.
Init ==
  /\ setup \in Setups
  /\ sockets = [s \in Slots |->
                  IF s = Server
                  THEN [state |-> "LISTENING", pcb |-> ServerPcb, p |-> <<>>]
                  ELSE Unused]
  /\ pcbs = [q \in Peers |-> "none"]
  /\ conns = [c \in ConnIds |-> NoConn]
  /\ queue = <<>>
  /\ pc = "accept"
  /\ sent = [q \in Peers |-> 0]
  /\ taken = [q \in Peers |-> [r \in Peers |-> 0]]
  /\ cause = "none"
  /\ reused = FALSE
  /\ dangling = FALSE

-----------------------------------------------------------------------------
(* The socket table *)

\* Mutant: the received frames are left in the slot.
Released_KeepsFrames(sock) == [sock EXCEPT !.state = "CLOSED", !.pcb = NoPcb]

\* The slot at the end of lwip_socket_close.
Released(sock) == [sock EXCEPT !.state = "CLOSED", !.pcb = NoPcb, !.p = <<>>]

\* lwip_socket_close of the slots S, in any order.
Close(S) ==
  LET open == {s \in S : sockets[s].pcb # NoPcb}
      held == {sockets[s].pcb : s \in open} \cap Peers
  IN /\ sockets' = [s \in Slots |-> IF s \in open THEN Released(sockets[s])
                                                  ELSE sockets[s]]
     /\ pcbs' = [q \in Peers |-> IF q \in held /\ pcbs[q] = "live"
                                 THEN "closed" ELSE pcbs[q]]
     /\ dangling' = (dangling \/ \E q \in held : pcbs[q] = "freed")

\* _get_closed_socket: the first of the slots in state CLOSED.
ClosedSlots == {s \in Slots : sockets[s].state = "CLOSED"}
Waiting == {s \in Slots : sockets[s].state = "WAITING_ACCEPT"}

-----------------------------------------------------------------------------
(* accept_network_clients *)

\* iio_step returns an error iio_app_run does not tolerate: any but -EAGAIN,
\* -ENOTCONN and an overrun.
Stop(why) == pc' = "stopped" /\ cause' = why /\ UNCHANGED reused

\* socket_accept finds no waiting client: -EAGAIN.  The first call has set the
\* accept callback.
AcceptNone ==
  /\ pc = "accept"
  /\ Waiting = {}
  /\ sockets' = [sockets EXCEPT ![Server].state = "ACCEPTING"]
  /\ pc' = "lwip"
  /\ UNCHANGED <<setup, pcbs, dangling, conns, queue, sent, taken, history>>

Accepting == pc = "accept" /\ Waiting # {}
Accepted == Min(Waiting)   \* the client_socket_id of lwip_socket_accept
Free == {c \in ConnIds : ~conns[c].used}

\* socket_accept, iiod_conn_add and _push_conn succeed.
AcceptClient ==
  /\ Accepting
  /\ Free # {}
  /\ LET c == Min(Free) IN
       /\ conns' = [conns EXCEPT ![c] =
                      [used |-> TRUE, sock |-> Accepted,
                       peer |-> sockets[Accepted].pcb]]
       /\ queue' = Append(queue, c)
  /\ sockets' = [sockets EXCEPT ![Accepted].state = "CONNECTED"]
  /\ UNCHANGED <<setup, pcbs, dangling, pc, sent, taken, history>>

\* No memory for the payload buffer, or -EBUSY from iiod_conn_add:
\* socket_remove of the new client.
AcceptUndone ==
  /\ Accepting
  /\ \/ setup.fails /\ Stop("memory")
     \/ Free = {} /\ Stop("busy")
  /\ Close({Accepted})
  /\ UNCHANGED <<setup, conns, queue, sent, taken>>

\* socket_accept has no memory for the descriptor of the client: it closes the
\* socket it was called with.
AcceptNoDesc ==
  /\ Accepting
  /\ setup.fails
  /\ sockets' = [sockets EXCEPT ![Accepted].state = "CONNECTED",
                                ![Server] = Released(@)]
  /\ Stop("memory")
  /\ UNCHANGED <<setup, pcbs, dangling, conns, queue, sent, taken>>

-----------------------------------------------------------------------------
(* no_os_lwip_step: lwIP runs the callbacks *)

\* The slot lwIP has been given with tcp_arg for the pcb of q.
SlotOf(q) == CHOOSE s \in Slots : sockets[s].pcb = q
Live(q) == pc = "lwip" /\ pcbs[q] = "live"

\* A slot nobody refers to: it has been given back with lwip_socket_close, and no
\* connection has it as its socket.
Available(s) ==
  sockets[s].pcb = NoPcb /\ \A c \in ConnIds : conns[c].used => conns[c].sock # s

\* lwip_accept_callback
ClientConnects(q) ==
  /\ pc = "lwip"
  /\ pcbs[q] = "none" /\ \A r \in 1 .. q - 1 : pcbs[r] # "none"
  /\ IF ClosedSlots = {}
     THEN /\ pcbs' = [pcbs EXCEPT ![q] = "closed"]
          /\ UNCHANGED <<sockets, reused>>
     ELSE /\ pcbs' = [pcbs EXCEPT ![q] = "live"]
          /\ sockets' = [sockets EXCEPT ![Min(ClosedSlots)].state = "WAITING_ACCEPT",
                                        ![Min(ClosedSlots)].pcb = q]
          /\ reused' = (reused \/ ~Available(Min(ClosedSlots)))
  /\ UNCHANGED <<setup, dangling, conns, queue, pc, sent, taken, cause>>

\* lwip_recv_callback with data
Receive(q) ==
  /\ Live(q)
  /\ sent[q] < MaxReqs
  /\ sent' = [sent EXCEPT ![q] = @ + 1]
  /\ sockets' = [sockets EXCEPT ![SlotOf(q)].p = Append(@, q)]
  /\ UNCHANGED <<setup, pcbs, dangling, conns, queue, pc, taken, history>>

\* lwip_recv_callback without: the remote side has closed the connection.
RemoteClose(q) ==
  /\ Live(q)
  /\ Close({SlotOf(q)})
  /\ UNCHANGED <<setup, conns, queue, pc, sent, taken, history>>

\* lwip_err_callback: lwIP has already freed the pcb.
Reset(q) ==
  /\ Live(q)
  /\ setup.resets
  /\ pcbs' = [pcbs EXCEPT ![q] = "freed"]
  /\ sockets' = [sockets EXCEPT ![SlotOf(q)].state = "CLOSED"]
  /\ UNCHANGED <<setup, dangling, conns, queue, pc, sent, taken, history>>

LwipDone ==
  /\ pc = "lwip"
  /\ pc' = "serve"
  /\ UNCHANGED <<setup, net, conns, queue, sent, taken, history>>

-----------------------------------------------------------------------------
(* The rest of iio_step *)

\* _pop_conn returns -EAGAIN.
ServeNobody ==
  /\ pc = "serve"
  /\ queue = <<>>
  /\ pc' = "accept"
  /\ UNCHANGED <<setup, net, conns, queue, sent, taken, history>>

Serving == pc = "serve" /\ queue # <<>>
Popped == Head(queue)
Socket == sockets[conns[Popped].sock]

\* Mutant: the entry stays in use.
RemoveConn_KeepsUsed(c) == conns' = [conns EXCEPT ![c].sock = 0]

\* iiod_conn_remove
RemoveConn(c) == conns' = [conns EXCEPT ![c] = NoConn]

\* Mutant: a connection that is removed is queued again.
ServeGone_Requeued ==
  /\ Serving
  /\ Socket.state # "CONNECTED"
  /\ RemoveConn(Popped)
  /\ Close({conns[Popped].sock})
  /\ queue' = Append(Tail(queue), Popped)
  /\ pc' = "accept"
  /\ UNCHANGED <<setup, sent, taken, history>>

\* lwip_socket_recv or _send returns -ENOTCONN: iiod_conn_remove and
\* socket_remove.
ServeGone ==
  /\ Serving
  /\ Socket.state # "CONNECTED"
  /\ RemoveConn(Popped)
  /\ Close({conns[Popped].sock})
  /\ queue' = Tail(queue)
  /\ pc' = "accept"
  /\ UNCHANGED <<setup, sent, taken, history>>

\* Mutant: the connection goes to the front of the queue.
Requeue_First == queue' = queue

\* _push_conn of the connection that has been served.
Requeue == queue' = Append(Tail(queue), Popped)

\* lwip_socket_recv returns 0 bytes, iiod_conn_step -EAGAIN.
ServeIdle ==
  /\ Serving
  /\ Socket.state = "CONNECTED"
  /\ Socket.p = <<>>
  /\ Requeue
  /\ pc' = "accept"
  /\ UNCHANGED <<setup, net, conns, sent, taken, history>>

Request == Serving /\ Socket.state = "CONNECTED" /\ Socket.p # <<>>

\* The connection Popped executes the first request of its socket ...
Execute == taken' = [taken EXCEPT ![Head(Socket.p)][conns[Popped].peer] = @ + 1]

\* ... and has read it.
TakeFrame ==
  /\ sockets' = [sockets EXCEPT ![conns[Popped].sock].p = Tail(@)]
  /\ UNCHANGED <<pcbs, dangling>>

\* One request is read, executed and answered.
ServeRequest ==
  /\ Request
  /\ Execute
  /\ TakeFrame
  /\ Requeue
  /\ pc' = "accept"
  /\ UNCHANGED <<setup, conns, sent, history>>

\* EXIT: iiod_conn_step returns -ENOTCONN and iio_step removes the connection.
ServeExit ==
  /\ Request
  /\ "exit" \in setup.requests
  /\ Execute
  /\ RemoveConn(Popped)
  /\ Close({conns[Popped].sock})
  /\ queue' = Tail(queue)
  /\ pc' = "accept"
  /\ UNCHANGED <<setup, sent, history>>

\* A line that is too long (-EIO), READBUF or WRITEBUF of a device that is not
\* open (-EINVAL), or a failed tcp_write: the error goes through iiod_conn_step
\* and iio_step to iio_app_run.
ServeError ==
  /\ Request
  /\ setup.fails \/ "error" \in setup.requests
  /\ Execute
  /\ TakeFrame
  /\ Requeue
  /\ Stop("request")
  /\ UNCHANGED <<setup, conns, sent>>

\* The request after which iiod_conn_step stays in IIOD_PUSH_CYCLIC_BUFFER: it
\* does not return, and lwIP is not polled.
StartCyclic ==
  /\ Request
  /\ "cyclic" \in setup.requests
  /\ Execute
  /\ TakeFrame
  /\ pc' = "cyclic"
  /\ UNCHANGED <<setup, conns, queue, sent, history>>

\* The connection reads a line that had already arrived; CLOSE ends the pushing,
\* the others are ignored.
CyclicLine ==
  /\ pc = "cyclic"
  /\ Socket.state = "CONNECTED" /\ Socket.p # <<>>
  /\ Execute
  /\ TakeFrame
  /\ \/ Requeue /\ pc' = "accept"
     \/ UNCHANGED <<queue, pc>>
  /\ UNCHANGED <<setup, conns, sent, history>>

\* push_buffer fails, which ends the pushing.
CyclicFails ==
  /\ pc = "cyclic"
  /\ setup.fails
  /\ Requeue
  /\ pc' = "accept"
  /\ UNCHANGED <<setup, net, conns, sent, taken, history>>

\* iio_remove: every connection in use, then the server.
Remove ==
  /\ pc = "stopped"
  /\ Close({conns[c].sock : c \in {d \in ConnIds : conns[d].used}} \union {Server})
  /\ conns' = [c \in ConnIds |-> NoConn]
  /\ queue' = <<>>
  /\ pc' = "removed"
  /\ UNCHANGED <<setup, sent, taken, history>>

-----------------------------------------------------------------------------
Main == \/ AcceptNone \/ AcceptClient \/ AcceptUndone \/ AcceptNoDesc
        \/ LwipDone
        \/ ServeNobody \/ ServeGone \/ ServeIdle
        \/ ServeRequest \/ ServeExit \/ ServeError \/ StartCyclic \/ CyclicLine
        \/ Remove

Network == \E q \in Peers :
             ClientConnects(q) \/ Receive(q) \/ RemoteClose(q) \/ Reset(q)

Next == Main \/ CyclicFails \/ Network

Spec == Init /\ [][Next]_vars

\* iio_app_run calls iio_step for ever, and each poll of lwIP ends.  Nothing
\* makes a push fail.
FairSpec == Spec /\ WF_vars(Main)
-----------------------------------------------------------------------------
(* Properties *)

\* Socket states, control blocks, connections and queue entries are in range.
TypeOK ==
  /\ setup \in Setups
  /\ sockets \in [Slots -> [state : {"CLOSED", "LISTENING", "ACCEPTING",
                                     "WAITING_ACCEPT", "CONNECTED"},
                             pcb : NoPcb .. ServerPcb, p : Seq(Peers)]]
  /\ pcbs \in [Peers -> {"none", "live", "closed", "freed"}]
  /\ conns \in [ConnIds -> [used : BOOLEAN, sock : Slots, peer : NoPcb .. ServerPcb]]
  /\ queue \in Seq(ConnIds) /\ (pc = "cyclic" => queue # <<>>)
  /\ pc \in {"accept", "lwip", "serve", "cyclic", "stopped", "removed"}
  /\ sent \in [Peers -> Nat]
  /\ taken \in [Peers -> [Peers -> Nat]]
  /\ cause \in {"none", "memory", "busy", "request"}
  /\ reused \in BOOLEAN
  /\ dangling \in BOOLEAN

\* As long as no client has been given a slot that is still referred to
\* (ClosedIsUnused), a request is executed by the connection that was made for
\* the client that sent it: nothing received from a client that has left or was
\* reset reaches the connection that has its socket slot now.
OwnRequests ==
  ~reused => \A q, r \in Peers : taken[q][r] > 0 => q = r

\* The queue of iio_step holds each connection of the pool exactly once, so
\* that none is served twice in a round, forgotten, or served after its
\* removal, whatever order clients connect, leave and fail in.
QueueIsPool ==
  /\ \A c \in ConnIds :
       Cardinality({i \in 1 .. Len(queue) : queue[i] = c})
         = IF conns[c].used THEN 1 ELSE 0
  /\ Len(queue) <= NbConns

\* Clients that come and go, in any number, never make iio_app_run return: it
\* stops because memory ran out or a request failed, but the pool has room for
\* every client the socket table can hold, unless a slot was given away too early.
ServerRuns ==
  pc \in {"stopped", "removed"} /\ ~reused => cause \in {"memory", "request"}

\* iiod_run_state: on an error "the connection must be cleaned up"; iio_step
\* does that for -ENOTCONN only, any other error of a request ends the server.
RequestNeverStops == cause # "request"

Sum(f) == MapThenSumSet(LAMBDA r : f[r], Peers)

\* Each request that lwIP has delivered is executed, unless its client goes away
\* or the server stops.
EveryRequestServed ==
  \A q \in Peers : \A n \in 1 .. MaxReqs :
    sent[q] >= n ~> \/ Sum(taken[q]) >= n
                   \/ pcbs[q] # "live"
                   \/ pc \in {"stopped", "removed"}

\* Round-robin service: the same, unless a connection pushes a cyclic buffer for
\* ever.  One that ends the pushing starves nobody.
RequestsServed == <>[](pc = "cyclic") \/ EveryRequestServed

\* SOCKET_CLOSED is documented as "Available to be used": a slot in that state
\* is not the socket of any connection when it is given to a new client.
ClosedIsUnused ==
  [][\A s \in Slots : sockets[s].state = "CLOSED" /\ sockets'[s].state = "WAITING_ACCEPT"
        => \A c \in ConnIds : conns[c].used => conns[c].sock # s]_vars

\* lwip_err_callback says "The pcb may have already been freed": it is not
\* used again.
NoFreedPcb == ~dangling
=============================================================================
