-------------------------- MODULE IioServerProofs --------------------------
(***************************************************************************)
(* Proofs about IioServer for any number of sockets, connections, clients  *)
(* and requests.                                                           *)
(***************************************************************************)
EXTENDS IioServer, FiniteSetTheorems, WellFoundedInduction, TLAPS

\* The pool is as large as the socket table without the listening socket:
\* IIOD_MAX_CONNECTIONS and NO_OS_MAX_SOCKETS are both 10.
RoomForAll == NbConns >= NbSockets - 1

-----------------------------------------------------------------------------
(* Inductive invariants *)

\* No connection is queued twice, and those in use are the queued ones.
QueueInv ==
  /\ \A i, j \in 1 .. Len(queue) : queue[i] = queue[j] => i = j
  /\ \A c \in ConnIds : conns[c].used <=> \E i \in 1 .. Len(queue) : queue[i] = c

Running == pc \notin {"stopped", "removed"}

\* The first slot listens.
ServerSlot ==
  sockets[Server].state \in {"LISTENING", "ACCEPTING"} /\ sockets[Server].pcb = ServerPcb

\* A slot that is not closed has a live control block, a closed one has none or
\* keeps the one lwIP freed.
ClientSlots ==
  \A s \in Slots \ {Server} :
    /\ sockets[s].state \in {"CLOSED", "WAITING_ACCEPT", "CONNECTED"}
    /\ sockets[s].state # "CLOSED" =>
         sockets[s].pcb \in Peers /\ pcbs[sockets[s].pcb] = "live"
    /\ sockets[s].state = "CLOSED" /\ sockets[s].pcb # NoPcb =>
         sockets[s].pcb \in Peers /\ pcbs[sockets[s].pcb] = "freed"

\* lwIP reaches a live client through exactly one slot.
OneSlot ==
  \A q \in Peers : pcbs[q] = "live" =>
    \E s \in Slots : /\ sockets[s].pcb = q
                     /\ \A r \in Slots : sockets[r].pcb = q => r = s

\* A connection has a slot to itself, with its client in it until the client goes.
Owned ==
  \A c \in ConnIds : conns[c].used =>
    /\ conns[c].sock # Server /\ conns[c].peer \in Peers
    /\ pcbs[conns[c].peer] # "none"
    /\ pcbs[conns[c].peer] = "live" =>
         /\ sockets[conns[c].sock].state = "CONNECTED"
         /\ sockets[conns[c].sock].pcb = conns[c].peer
    /\ pcbs[conns[c].peer] # "live" => sockets[conns[c].sock].state = "CLOSED"
    /\ \A d \in ConnIds : conns[d].used /\ conns[d].sock = conns[c].sock => d = c

Net == ServerSlot /\ ClientSlots /\ OneSlot /\ Owned

NetInv == ~reused /\ Running => Net

\* The frames in a slot are those of its client, also when it has been reset.
Frames ==
  ~reused /\ Running =>
    \A s \in Slots :
      /\ sockets[s].pcb = NoPcb => sockets[s].p = <<>>
      /\ \A i \in 1 .. Len(sockets[s].p) : sockets[s].p[i] = sockets[s].pcb

-----------------------------------------------------------------------------

\* The first of some slots or connections.
LEMMA FirstExists ==
  ASSUME NEW S \in SUBSET Nat, S # {}
  PROVE  Min(S) \in S /\ \A x \in S : Min(S) <= x
<1> DEFINE R == {ss \in Nat \X Nat : ss[1] < ss[2]}
<1>1. IsWellFoundedOn(R, Nat)
  BY NatLessThanWellFounded, Zenon DEF OpToRel
<1>2. \A x, y \in Nat : x < y => <<x, y>> \in R
  OBVIOUS
<1> HIDE DEF R
<1>3. PICK m \in S : \A y \in S : ~(<<y, m>> \in R)
  BY <1>1, WFMin
<1>4. ASSUME NEW y \in S PROVE m <= y
  <2>1. m \in Nat /\ y \in Nat
    OBVIOUS
  <2>2. ~(y < m)
    BY <1>2, <1>3, <2>1
  <2> QED
    BY <2>1, <2>2
<1> QED
  BY <1>4 DEF Min

\* The numbers that name slots, connections, clients and control blocks.
LEMMA Numbers ==
  /\ Slots \in SUBSET Nat /\ ConnIds \in SUBSET Nat /\ Server \in Slots
  /\ NoPcb \notin Peers /\ ServerPcb \notin Peers /\ ServerPcb # NoPcb
  /\ Peers \subseteq NoPcb .. ServerPcb /\ NoPcb \in NoPcb .. ServerPcb
  /\ ServerPcb \in NoPcb .. ServerPcb /\ 0 \in Slots
  BY ServerAssumption DEF Slots, ConnIds, Peers, NoPcb, ServerPcb, Server

\* _get_closed_socket, lwip_socket_accept and iiod_conn_add find one if there is one.
LEMMA FirstFound ==
  /\ Waiting # {} => Accepted \in Waiting
  /\ Free # {} => Min(Free) \in Free
  /\ ClosedSlots # {} => Min(ClosedSlots) \in ClosedSlots
<1>1. Waiting \in SUBSET Nat /\ Free \in SUBSET Nat /\ ClosedSlots \in SUBSET Nat
  BY Numbers DEF Waiting, Free, ClosedSlots
<1> QED
  BY <1>1, FirstExists DEF Accepted

\* The types of the entries of the tables.
SocketType == [state : {"CLOSED", "LISTENING", "ACCEPTING", "WAITING_ACCEPT", "CONNECTED"},
               pcb : NoPcb .. ServerPcb, p : Seq(Peers)]
ConnType == [used : BOOLEAN, sock : Slots, peer : NoPcb .. ServerPcb]

\* A slot that is given back.
LEMMA ReleasedType ==
  ASSUME NEW x \in SocketType PROVE Released(x) \in SocketType
<1>1. ASSUME NEW y \in SocketType
      PROVE  /\ [y EXCEPT !.state = "CLOSED"] \in SocketType
             /\ [y EXCEPT !.pcb = NoPcb] \in SocketType
             /\ [y EXCEPT !.p = <<>>] \in SocketType
  <2>1. [y EXCEPT !.state = "CLOSED"] \in SocketType
    BY DEF SocketType
  <2>2. [y EXCEPT !.pcb = NoPcb] \in SocketType
    BY Numbers DEF SocketType
  <2>3. PICK e \in Seq(Peers) : e = <<>>
    <3>1. <<>> \in Seq(Peers)
      OBVIOUS
    <3> QED
      BY <3>1, Zenon
  <2>4. [y EXCEPT !.p = e] \in SocketType
    BY DEF SocketType
  <2> QED
    BY <2>1, <2>2, <2>3, <2>4
<1>2. Released(x) = [[[x EXCEPT !.state = "CLOSED"] EXCEPT !.pcb = NoPcb] EXCEPT !.p = <<>>]
  BY DEF Released
<1> QED
  BY <1>1, <1>2

\* lwip_socket_close keeps slots and control blocks in their ranges.
LEMMA CloseType ==
  ASSUME TypeOK, NEW S, Close(S)
  PROVE  /\ sockets' \in [Slots -> SocketType]
         /\ pcbs' \in [Peers -> {"none", "live", "closed", "freed"}]
         /\ dangling' \in BOOLEAN
<1>1. sockets \in [Slots -> SocketType]
  BY DEF TypeOK, SocketType
<1>2. sockets' \in [Slots -> SocketType]
  BY <1>1, ReleasedType DEF Close
<1>3. pcbs' \in [Peers -> {"none", "live", "closed", "freed"}]
  BY DEF Close, TypeOK
<1>4. dangling' \in BOOLEAN
  BY Zenon DEF Close
<1> QED
  BY <1>2, <1>3, <1>4

\* Every step leaves every variable in its range.
LEMMA TypeStep == TypeOK /\ [Next]_vars => TypeOK'
<1> SUFFICES ASSUME TypeOK, [Next]_vars PROVE TypeOK'
  OBVIOUS
<1> USE DEF net, history
<1>0. /\ sockets \in [Slots -> SocketType] /\ conns \in [ConnIds -> ConnType]
      /\ queue \in Seq(ConnIds) /\ setup \in Setups
  BY DEF TypeOK, SocketType, ConnType
<1>p. ASSUME sockets' \in [Slots -> SocketType], conns' \in [ConnIds -> ConnType],
             pcbs' \in [Peers -> {"none", "live", "closed", "freed"}],
             queue' \in Seq(ConnIds), setup' = setup,
             pc' \in {"accept", "lwip", "serve", "cyclic", "stopped", "removed"},
             pc' = "cyclic" => queue' # <<>>,
             sent' \in [Peers -> Nat], taken' \in [Peers -> [Peers -> Nat]],
             cause' \in {"none", "memory", "busy", "request"}, reused' \in BOOLEAN,
             dangling' \in BOOLEAN
      PROVE  TypeOK'
  BY <1>0, <1>p DEF TypeOK, SocketType, ConnType
<1>t. /\ pcbs \in [Peers -> {"none", "live", "closed", "freed"}]
      /\ pc \in {"accept", "lwip", "serve", "cyclic", "stopped", "removed"}
      /\ pc = "cyclic" => queue # <<>>
      /\ sent \in [Peers -> Nat] /\ taken \in [Peers -> [Peers -> Nat]]
      /\ cause \in {"none", "memory", "busy", "request"} /\ reused \in BOOLEAN
      /\ dangling \in BOOLEAN
  BY DEF TypeOK
<1>1. CASE AcceptNone
  <2>1. sockets' \in [Slots -> SocketType]
    BY <1>0, <1>1 DEF AcceptNone, SocketType
  <2> QED
    BY <1>0, <1>p, <1>t, <1>1, <2>1 DEF AcceptNone
<1>2. CASE AcceptClient
  <2>1. Accepted \in Slots /\ Min(Free) \in ConnIds
    BY <1>2, FirstFound DEF AcceptClient, Accepting, Waiting, Free
  <2>2. sockets' \in [Slots -> SocketType]
    BY <1>0, <1>2, <2>1 DEF AcceptClient, SocketType
  <2>3. [used |-> TRUE, sock |-> Accepted, peer |-> sockets[Accepted].pcb] \in ConnType
    BY <1>0, <2>1 DEF ConnType, SocketType
  <2>4. conns' \in [ConnIds -> ConnType]
    BY <1>0, <1>2, <2>3 DEF AcceptClient
  <2>5. queue' \in Seq(ConnIds)
    BY <1>0, <1>2, <2>1 DEF AcceptClient
  <2> QED
    BY <1>0, <1>p, <1>t, <1>2, <2>2, <2>4, <2>5 DEF AcceptClient, Accepting
<1>3. CASE AcceptUndone
  BY <1>0, <1>p, <1>t, <1>3, CloseType DEF AcceptUndone, Stop
<1>4. CASE AcceptNoDesc
  <2> DEFINE half == [sockets EXCEPT ![Accepted].state = "CONNECTED"]
  <2>1. half \in [Slots -> SocketType]
    BY <1>0 DEF SocketType
  <2>2. sockets' = [half EXCEPT ![Server] = Released(sockets[Server])]
    BY <1>4 DEF AcceptNoDesc
  <2> HIDE DEF half
  <2>3. sockets' \in [Slots -> SocketType]
    BY <1>0, <2>1, <2>2, ReleasedType, Numbers
  <2> QED
    BY <1>0, <1>p, <1>t, <1>4, <2>3 DEF AcceptNoDesc, Stop
<1>5. CASE LwipDone \/ ServeNobody
  BY <1>0, <1>p, <1>t, <1>5 DEF LwipDone, ServeNobody
<1>6. ASSUME queue # <<>>
      PROVE  /\ Popped \in ConnIds /\ Tail(queue) \in Seq(ConnIds)
             /\ Append(Tail(queue), Popped) \in Seq(ConnIds)
  BY <1>0, <1>6 DEF Popped
<1>r. ASSUME NEW c, RemoveConn(c) PROVE conns' \in [ConnIds -> ConnType]
  <2>1. NoConn \in ConnType
    BY Numbers DEF NoConn, ConnType
  <2> QED
    BY <1>0, <1>r, <2>1 DEF RemoveConn
<1>7. CASE ServeGone
  <2>1. conns' \in [ConnIds -> ConnType]
    BY <1>7, <1>r DEF ServeGone
  <2> QED
    BY <1>0, <1>p, <1>t, <1>6, <1>7, <2>1, CloseType DEF ServeGone, Serving, history
<1>8. CASE ServeIdle \/ CyclicFails
  <2>1. queue' \in Seq(ConnIds)
    BY <1>6, <1>8, <1>t DEF ServeIdle, Serving, CyclicFails, Requeue
  <2> QED
    BY <1>0, <1>p, <1>t, <1>8, <2>1 DEF ServeIdle, CyclicFails, history
<1>9. ASSUME queue # <<>>, Socket.p # <<>>, Execute
      PROVE  /\ taken' \in [Peers -> [Peers -> Nat]]
             /\ TakeFrame => sockets' \in [Slots -> SocketType]
  <2>1. conns[Popped].sock \in Slots
    BY <1>0, <1>6, <1>9 DEF ConnType
  <2>2. Socket \in SocketType /\ Socket.p # <<>>
    BY <1>0, <1>9, <2>1 DEF Socket
  <2>3. Head(Socket.p) \in Peers /\ Tail(Socket.p) \in Seq(Peers)
    BY <2>2 DEF SocketType
  <2>4. TakeFrame => sockets' \in [Slots -> SocketType]
    <3>1. [Socket EXCEPT !.p = Tail(Socket.p)] \in SocketType
      BY <2>2, <2>3 DEF SocketType
    <3> QED
      BY <1>0, <2>1, <3>1 DEF TakeFrame, Socket
  <2>5. taken' \in [Peers -> [Peers -> Nat]]
    <3>1. ASSUME NEW f \in [Peers -> Nat], NEW r
          PROVE  [f EXCEPT ![r] = f[r] + 1] \in [Peers -> Nat]
      <4>1. CASE r \in Peers
        BY <4>1
      <4>2. CASE r \notin Peers
        BY <4>2
      <4> QED
        BY <4>1, <4>2
    <3> DEFINE q == Head(Socket.p)
               r == conns[Popped].peer
               row == [taken[q] EXCEPT ![r] = taken[q][r] + 1]
    <3>2. row \in [Peers -> Nat]
      BY <1>t, <2>3, <3>1
    <3>3. taken' = [taken EXCEPT ![q] = row]
      BY <1>9 DEF Execute
    <3> HIDE DEF row, q
    <3> QED
      BY <1>t, <3>2, <3>3
  <2> QED
    BY <2>4, <2>5
<1>16. CASE ServeRequest \/ ServeError \/ StartCyclic \/ CyclicLine
  <2>1. /\ queue # <<>> /\ Socket.p # <<>> /\ Execute /\ TakeFrame
        /\ UNCHANGED <<setup, conns, sent, reused>>
        /\ cause' \in {cause, "request"}
    BY <1>16, <1>t DEF ServeRequest, ServeError, StartCyclic, CyclicLine, Request, Serving,
                       Stop, history
  <2>2. pcbs' = pcbs /\ dangling' = dangling
    BY <2>1 DEF TakeFrame
  <2>3. taken' \in [Peers -> [Peers -> Nat]] /\ sockets' \in [Slots -> SocketType]
    BY <1>9, <2>1
  <2>4. /\ queue' \in Seq(ConnIds) /\ (pc' = "cyclic" => queue' # <<>>)
        /\ pc' \in {"accept", "lwip", "serve", "cyclic", "stopped", "removed"}
    <3>1. \/ queue' = Append(Tail(queue), Popped) /\ pc' \in {"accept", "stopped"}
          \/ queue' = queue /\ pc' = "cyclic"
      <4>1. CASE ServeRequest
        BY <4>1 DEF ServeRequest, Requeue
      <4>2. CASE ServeError
        BY <4>2 DEF ServeError, Requeue, Stop
      <4>3. CASE StartCyclic
        BY <4>3 DEF StartCyclic
      <4>4. CASE CyclicLine
        BY <4>4 DEF CyclicLine, Requeue
      <4> QED
        BY <1>16, <4>1, <4>2, <4>3, <4>4
    <3> QED
      BY <1>0, <1>6, <2>1, <3>1
  <2> QED
    BY <1>0, <1>p, <1>t, <2>1, <2>2, <2>3, <2>4
<1>17. CASE ServeExit
  <2>1. conns' \in [ConnIds -> ConnType]
    BY <1>17, <1>r DEF ServeExit
  <2>2. taken' \in [Peers -> [Peers -> Nat]] /\ Tail(queue) \in Seq(ConnIds)
    BY <1>6, <1>9, <1>17 DEF ServeExit, Request, Serving
  <2> QED
    BY <1>0, <1>p, <1>t, <1>17, <2>1, <2>2, CloseType DEF ServeExit, history
<1>10. CASE Remove
  <2>1. conns' \in [ConnIds -> ConnType]
    BY <1>10, Numbers DEF Remove, NoConn, ConnType
  <2>2. queue' \in Seq(ConnIds)
    BY <1>10 DEF Remove
  <2> QED
    BY <1>0, <1>p, <1>t, <1>10, <2>1, <2>2, CloseType DEF Remove
<1>11. ASSUME NEW q \in Peers, ClientConnects(q) PROVE TypeOK'
  <2>1. sockets' \in [Slots -> SocketType]
    <3>1. ASSUME NEW x \in SocketType
          PROVE  [[x EXCEPT !.state = "WAITING_ACCEPT"] EXCEPT !.pcb = q] \in SocketType
      BY Numbers DEF SocketType
    <3> DEFINE m == Min(ClosedSlots)
    <3>2. \/ sockets' = sockets
          \/ sockets' = [sockets EXCEPT ![m] = [[sockets[m] EXCEPT !.state = "WAITING_ACCEPT"]
                                                EXCEPT !.pcb = q]]
      BY <1>0, <1>11, FirstFound DEF ClientConnects, ClosedSlots
    <3> HIDE DEF m
    <3> QED
      BY <1>0, <3>1, <3>2
  <2>2. pcbs' \in [Peers -> {"none", "live", "closed", "freed"}]
    BY <1>t, <1>11 DEF ClientConnects
  <2> QED
    <3>1. reused' \in BOOLEAN
      BY <1>t, <1>11, Zenon DEF ClientConnects
    <3> QED
      BY <1>0, <1>p, <1>t, <1>11, <2>1, <2>2, <3>1 DEF ClientConnects
<1>12. ASSUME NEW q \in Peers, Receive(q) PROVE TypeOK'
  <2>1. sockets' \in [Slots -> SocketType]
    <3>1. ASSUME NEW x \in SocketType PROVE [x EXCEPT !.p = Append(x.p, q)] \in SocketType
      <4>1. Append(x.p, q) \in Seq(Peers)
        BY DEF SocketType
      <4> QED
        BY <4>1 DEF SocketType
    <3> QED
      BY <1>0, <1>12, <3>1 DEF Receive
  <2>2. sent' \in [Peers -> Nat]
    BY <1>t, <1>12 DEF Receive
  <2> QED
    BY <1>0, <1>p, <1>t, <1>12, <2>1, <2>2 DEF Receive
<1>13. ASSUME NEW q \in Peers, RemoteClose(q) PROVE TypeOK'
  BY <1>0, <1>p, <1>t, <1>13, CloseType DEF RemoteClose
<1>14. ASSUME NEW q \in Peers, Reset(q) PROVE TypeOK'
  <2>1. sockets' \in [Slots -> SocketType]
    BY <1>0, <1>14 DEF Reset, SocketType
  <2>2. pcbs' \in [Peers -> {"none", "live", "closed", "freed"}]
    BY <1>t, <1>14 DEF Reset
  <2> QED
    BY <1>0, <1>p, <1>t, <1>14, <2>1, <2>2 DEF Reset
<1>15. CASE UNCHANGED vars
  BY <1>15 DEF vars, TypeOK
<1> QED
  BY <1>1, <1>2, <1>3, <1>4, <1>5, <1>7, <1>8, <1>10, <1>11, <1>12, <1>13,
     <1>14, <1>15, <1>16, <1>17 DEF Next, Main, Network

\* The ranges hold after iio_init.
LEMMA TypeInit == Init => TypeOK
<1> SUFFICES ASSUME Init PROVE TypeOK
  OBVIOUS
<1>1. sockets \in [Slots -> SocketType]
  <2>1. /\ [state |-> "LISTENING", pcb |-> ServerPcb, p |-> <<>>] \in SocketType
        /\ Unused \in SocketType
    BY Numbers DEF SocketType, Unused
  <2> QED
    BY <2>1 DEF Init
<1>2. conns \in [ConnIds -> ConnType]
  <2>1. NoConn \in ConnType
    BY Numbers DEF ConnType, NoConn
  <2> QED
    BY <2>1 DEF Init
<1>3. /\ pcbs \in [Peers -> {"none", "live", "closed", "freed"}]
      /\ sent \in [Peers -> Nat] /\ taken \in [Peers -> [Peers -> Nat]]
  BY DEF Init
<1>4. queue \in Seq(ConnIds)
  BY DEF Init
<1> QED
  BY <1>1, <1>2, <1>3, <1>4 DEF Init, TypeOK, SocketType, ConnType

\* Slots, control blocks, connections and queue entries stay in range, whatever
\* order clients connect, send, leave and fail in.
THEOREM TypeCorrect == Spec => []TypeOK
  BY TypeInit, TypeStep, PTL DEF Spec

-----------------------------------------------------------------------------
(* QueueIsPool *)

\* _push_conn, _pop_conn, and the two in a row.
LEMMA Queued ==
  ASSUME NEW S, NEW s \in Seq(S), NEW c
  PROVE  /\ Len(Append(s, c)) = Len(s) + 1
         /\ \A i \in 1 .. Len(s) : Append(s, c)[i] = s[i]
         /\ Append(s, c)[Len(s) + 1] = c
         /\ s # <<>> => /\ Len(s) > 0 /\ Tail(s) \in Seq(S) /\ Len(Tail(s)) = Len(s) - 1
                        /\ \A i \in 1 .. Len(s) - 1 : Tail(s)[i] = s[i + 1]
                        /\ Head(s) = s[1]
  OBVIOUS

\* A connection taken from the pool joins the queue, one given back has left it,
\* and one that was served goes from the front to the end.
LEMMA QueueStep ==
  ASSUME TypeOK, QueueInv, [Next]_vars PROVE QueueInv'
<1> USE DEF net
<1>0. queue \in Seq(ConnIds) /\ Len(queue) \in Nat
  BY DEF TypeOK
<1>1. CASE AcceptClient
  <2> DEFINE c == Min(Free)
             n == Len(queue)
  <2>1. c \in ConnIds /\ ~conns[c].used
    BY <1>1, FirstFound DEF AcceptClient, Free
  <2>2. queue' = Append(queue, c)
    BY <1>1 DEF AcceptClient
  <2>3. \A d \in ConnIds : conns'[d].used <=> d = c \/ conns[d].used
    BY <1>1, <2>1 DEF AcceptClient, TypeOK
  <2> HIDE DEF c
  <2>4. /\ Len(queue') = n + 1 /\ queue'[n + 1] = c
        /\ \A i \in 1 .. n : queue'[i] = queue[i]
    BY <1>0, <2>2, Queued
  <2>5. \A i \in 1 .. n : queue[i] # c
    BY <2>1 DEF QueueInv
  <2> HIDE DEF n
  <2>6. n \in Nat /\ n = Len(queue)
    BY <1>0 DEF n
  <2>7. \A i, j \in 1 .. Len(queue') : queue'[i] = queue'[j] => i = j
    BY <2>4, <2>5, <2>6 DEF QueueInv
  <2>8. ASSUME NEW d \in ConnIds
        PROVE  conns'[d].used <=> \E i \in 1 .. Len(queue') : queue'[i] = d
    <3>1. conns[d].used <=> \E i \in 1 .. n : queue[i] = d
      BY <2>6 DEF QueueInv
    <3> QED
      BY <2>1, <2>3, <2>4, <2>6, <3>1
  <2> QED
    BY <2>7, <2>8 DEF QueueInv
<1>2. CASE ServeGone \/ ServeExit
  <2>1. queue # <<>> /\ queue' = Tail(queue)
        /\ conns' = [conns EXCEPT ![queue[1]] = NoConn]
    BY <1>0, <1>2, Queued DEF ServeGone, ServeExit, Request, Serving, RemoveConn, Popped
  <2> DEFINE n == Len(queue)
  <2>2. /\ n \in Nat /\ n > 0 /\ Len(queue') = n - 1
        /\ \A i \in 1 .. n - 1 : queue'[i] = queue[i + 1]
    BY <1>0, <2>1, Queued
  <2>3. \A d \in ConnIds : conns'[d].used <=> d # queue[1] /\ conns[d].used
    BY <2>1 DEF TypeOK, NoConn
  <2>4. /\ \A i, j \in 1 .. n : queue[i] = queue[j] => i = j
        /\ \A d \in ConnIds : conns[d].used <=> \E i \in 1 .. n : queue[i] = d
    BY DEF QueueInv
  <2> HIDE DEF n
  <2>5. \A i, j \in 1 .. Len(queue') : queue'[i] = queue'[j] => i = j
    BY <2>2, <2>4
  <2>6. ASSUME NEW d \in ConnIds
        PROVE  conns'[d].used <=> \E i \in 1 .. Len(queue') : queue'[i] = d
    <3>1. CASE d = queue[1]
      BY <2>2, <2>3, <2>4, <3>1
    <3>2. CASE d # queue[1]
      <4>1. ASSUME NEW i \in 1 .. n, queue[i] = d
            PROVE  i - 1 \in 1 .. n - 1 /\ queue'[i - 1] = d
        BY <2>2, <3>2, <4>1
      <4> QED
        BY <2>2, <2>3, <2>4, <3>2, <4>1
    <3> QED
      BY <3>1, <3>2
  <2> QED
    BY <2>5, <2>6 DEF QueueInv
<1>3. ASSUME queue # <<>>, Requeue, UNCHANGED conns PROVE QueueInv'
  <2> DEFINE n == Len(queue)
  <2>1. queue # <<>> /\ queue' = Append(Tail(queue), Head(queue))
    BY <1>3 DEF Requeue, Popped
  <2>2. /\ n \in Nat /\ n > 0 /\ Tail(queue) \in Seq(ConnIds) /\ Len(Tail(queue)) = n - 1
        /\ \A i \in 1 .. n - 1 : Tail(queue)[i] = queue[i + 1]
        /\ Head(queue) = queue[1]
    BY <1>0, <2>1, Queued
  <2>3. /\ Len(queue') = n /\ queue'[n] = queue[1]
        /\ \A i \in 1 .. n - 1 : queue'[i] = queue[i + 1]
    <3>1. /\ Len(queue') = (n - 1) + 1 /\ queue'[(n - 1) + 1] = Head(queue)
          /\ \A i \in 1 .. n - 1 : queue'[i] = Tail(queue)[i]
      BY <2>1, <2>2, Queued
    <3> QED
      BY <2>2, <3>1
  <2>4. /\ \A i, j \in 1 .. n : queue[i] = queue[j] => i = j
        /\ \A d \in ConnIds : conns[d].used <=> \E i \in 1 .. n : queue[i] = d
    BY DEF QueueInv
  <2> HIDE DEF n
  <2>5. ASSUME NEW i \in 1 .. n
        PROVE  queue'[i] = queue[IF i < n THEN i + 1 ELSE 1]
    <3>1. CASE i = n
      BY <2>2, <2>3, <3>1
    <3>2. CASE i # n
      <4>1. i \in 1 .. n - 1 /\ i < n
        BY <2>2, <3>2
      <4> QED
        BY <2>3, <4>1
    <3> QED
      BY <3>1, <3>2
  <2>6. \A i, j \in 1 .. n : queue'[i] = queue'[j] => i = j
    BY <2>2, <2>4, <2>5
  <2>7. ASSUME NEW d PROVE (\E i \in 1 .. n : queue[i] = d) <=> \E i \in 1 .. n : queue'[i] = d
    <3>1. ASSUME NEW i \in 1 .. n, queue[i] = d PROVE \E j \in 1 .. n : queue'[j] = d
      <4>1. CASE i = 1
        BY <2>2, <2>3, <3>1, <4>1
      <4>2. CASE i # 1
        <5>1. i - 1 \in 1 .. n - 1 /\ queue'[i - 1] = d /\ i - 1 \in 1 .. n
          BY <2>2, <2>3, <3>1, <4>2
        <5> QED
          BY <5>1
      <4> QED
        BY <4>1, <4>2
    <3>2. ASSUME NEW i \in 1 .. n, queue'[i] = d PROVE \E j \in 1 .. n : queue[j] = d
      BY <2>2, <2>5, <3>2
    <3> QED
      BY <3>1, <3>2
  <2> QED
    BY <1>3, <2>3, <2>4, <2>6, <2>7 DEF QueueInv
<1>6. CASE UNCHANGED <<queue, conns>>
  BY <1>6 DEF QueueInv
<1>4. CASE ServeIdle \/ ServeRequest \/ ServeError \/ StartCyclic \/ CyclicLine \/ CyclicFails
  BY <1>3, <1>4, <1>6 DEF ServeIdle, ServeRequest, ServeError, StartCyclic, CyclicLine,
                          CyclicFails, Request, Serving, TypeOK
<1>5. CASE Remove
  <2>1. Len(queue') = 0 /\ \A c \in ConnIds : ~conns'[c].used
    BY <1>5 DEF Remove, NoConn
  <2> QED
    BY <2>1 DEF QueueInv
<1> QED
  BY <1>1, <1>2, <1>4, <1>5, <1>6
     DEF Next, Main, Network, AcceptNone, AcceptUndone, AcceptNoDesc, LwipDone,
         ServeNobody, ClientConnects, Receive, RemoteClose, Reset, vars

\* The queue of iio_step holds every connection of the pool in use exactly once
\* and no other, in every environment: whatever order clients connect, leave, are
\* reset and fail in, and however many there are.
THEOREM QueueHoldsPool == Spec => []QueueIsPool
<1> DEFINE Inv == TypeOK /\ QueueInv
<1>1. Init => Inv
  <2>1. Init => QueueInv
    BY DEF Init, QueueInv, NoConn
  <2> QED
    BY <2>1, TypeInit
<1>2. Inv /\ [Next]_vars => Inv'
  BY TypeStep, QueueStep
<1>3. Inv => QueueIsPool
  <2> SUFFICES ASSUME Inv PROVE QueueIsPool
    OBVIOUS
  <2>0. queue \in [1 .. Len(queue) -> ConnIds] /\ Len(queue) \in Nat
    BY DEF TypeOK
  <2>1. ASSUME NEW c \in ConnIds
        PROVE  Cardinality({i \in 1 .. Len(queue) : queue[i] = c})
                 = IF conns[c].used THEN 1 ELSE 0
    <3>1. CASE conns[c].used
      <4>1. PICK i \in 1 .. Len(queue) : queue[i] = c
        BY <3>1 DEF QueueInv
      <4>2. {j \in 1 .. Len(queue) : queue[j] = c} = {i}
        BY <4>1 DEF QueueInv
      <4> QED
        BY <3>1, <4>2, FS_Singleton
    <3>2. CASE ~conns[c].used
      <4>1. {j \in 1 .. Len(queue) : queue[j] = c} = {}
        BY <3>2 DEF QueueInv
      <4> QED
        BY <3>2, <4>1, FS_EmptySet
    <3> QED
      BY <3>1, <3>2
  <2>2. Len(queue) <= NbConns
    <3>1. queue \in Injection(1 .. Len(queue), ConnIds)
      BY <2>0 DEF QueueInv, Injection, IsInjective
    <3>2. IsFiniteSet(ConnIds) /\ Cardinality(ConnIds) = NbConns
      BY ServerAssumption, FS_Interval DEF ConnIds
    <3>3. Cardinality(1 .. Len(queue)) = Len(queue)
      <4>1. 1 \in Int /\ Len(queue) \in Int
        BY <2>0
      <4>2. Cardinality(1 .. Len(queue)) = IF 1 > Len(queue) THEN 0 ELSE Len(queue) - 1 + 1
        BY <4>1, FS_Interval
      <4> QED
        BY <2>0, <4>2
    <3> QED
      BY <3>1, <3>2, <3>3, FS_Injection
  <2> QED
    BY <2>1, <2>2 DEF QueueIsPool
<1> QED
  BY <1>1, <1>2, <1>3, PTL DEF Spec

-----------------------------------------------------------------------------
(* The socket table as long as every slot that is given away is available *)

\* The connection that is served is one of the pool.
LEMMA PoppedUsed ==
  ASSUME TypeOK, QueueInv, queue # <<>>
  PROVE  Popped \in ConnIds /\ conns[Popped].used /\ conns[Popped].sock \in Slots
<1>1. Popped = queue[1] /\ 1 \in 1 .. Len(queue) /\ Popped \in ConnIds
  BY DEF Popped, TypeOK
<1> QED
  BY <1>1 DEF QueueInv, TypeOK

\* The slot lwIP was given for a live client.
LEMMA LiveSlot ==
  ASSUME OneSlot, NEW q \in Peers, pcbs[q] = "live"
  PROVE  /\ SlotOf(q) \in Slots /\ sockets[SlotOf(q)].pcb = q
         /\ \A r \in Slots : sockets[r].pcb = q => r = SlotOf(q)
  BY DEF OneSlot, SlotOf

\* lwip_socket_close of one slot.
LEMMA CloseOne ==
  ASSUME TypeOK, NEW s \in Slots, Close({s})
  PROVE  /\ \A r \in Slots \ {s} : sockets'[r] = sockets[r]
         /\ sockets[s].pcb = NoPcb => sockets'[s] = sockets[s]
         /\ sockets[s].pcb # NoPcb =>
              sockets'[s].state = "CLOSED" /\ sockets'[s].pcb = NoPcb /\ sockets'[s].p = <<>>
         /\ \A q \in Peers : pcbs'[q] = IF q = sockets[s].pcb /\ pcbs[q] = "live"
                                        THEN "closed" ELSE pcbs[q]
<1>1. /\ \A r \in Slots \ {s} : sockets'[r] = sockets[r]
      /\ sockets[s].pcb = NoPcb => sockets'[s] = sockets[s]
      /\ sockets[s].pcb # NoPcb => sockets'[s] = Released(sockets[s])
  BY DEF Close
<1>2. /\ Released(sockets[s]).state = "CLOSED" /\ Released(sockets[s]).pcb = NoPcb
      /\ Released(sockets[s]).p = <<>>
  BY DEF Released, TypeOK
<1>3. ASSUME NEW q \in Peers
      PROVE  pcbs'[q] = IF q = sockets[s].pcb /\ pcbs[q] = "live" THEN "closed" ELSE pcbs[q]
  BY Numbers DEF Close
<1> QED
  BY <1>1, <1>2, <1>3

\* A step that changes frames only.
LEMMA NetFrame ==
  ASSUME Net, UNCHANGED <<pcbs, conns>>,
         \A s \in Slots : sockets'[s].state = sockets[s].state /\ sockets'[s].pcb = sockets[s].pcb,
         TypeOK
  PROVE  Net'
<1>1. ServerSlot'
  BY Numbers DEF Net, ServerSlot
<1>2. ClientSlots'
  BY DEF Net, ClientSlots
<1>3. OneSlot'
  BY DEF Net, OneSlot
<1>4. Owned'
  BY DEF Net, Owned, TypeOK
<1> QED
  BY <1>1, <1>2, <1>3, <1>4 DEF Net

\* The new client gets a slot that neither a connection nor lwIP refers to.
LEMMA ConnectNet ==
  ASSUME TypeOK, ~reused', Net, NEW q \in Peers, ClientConnects(q)
  PROVE  Net'
<1> DEFINE m == Min(ClosedSlots)
<1>1. /\ UNCHANGED conns /\ pcbs[q] = "none"
      /\ pcbs \in [Peers -> {"none", "live", "closed", "freed"}]
  BY DEF ClientConnects, TypeOK
<1>2. \A c \in ConnIds : conns[c].used => conns[c].peer \in Peers \ {q}
  BY <1>1 DEF Net, Owned
<1>3. \A s \in Slots : sockets[s].pcb # q
  BY <1>1, Numbers DEF Net, ServerSlot, ClientSlots
<1>4. CASE ClosedSlots = {}
  <2>1. UNCHANGED sockets /\ pcbs' = [pcbs EXCEPT ![q] = "closed"]
    BY <1>4 DEF ClientConnects
  <2>2. \A r \in Peers : pcbs'[r] = IF r = q THEN "closed" ELSE pcbs[r]
    BY <1>1, <2>1
  <2>3. ServerSlot' /\ ClientSlots' /\ OneSlot'
    BY <1>3, <2>1, <2>2 DEF Net, ServerSlot, ClientSlots, OneSlot
  <2>4. Owned'
    BY <1>1, <1>2, <2>1, <2>2 DEF Net, Owned
  <2> QED
    BY <2>3, <2>4 DEF Net
<1>5. CASE ClosedSlots # {}
  <2>1. m \in Slots /\ sockets[m].state = "CLOSED"
    BY <1>5, FirstFound DEF ClosedSlots
  <2>a. Available(m)
    BY <1>5 DEF ClientConnects
  <2>2. /\ pcbs' = [pcbs EXCEPT ![q] = "live"]
        /\ sockets' = [sockets EXCEPT ![m].state = "WAITING_ACCEPT", ![m].pcb = q]
    BY <1>5 DEF ClientConnects
  <2> HIDE DEF m
  <2>3. \A r \in Peers : pcbs'[r] = IF r = q THEN "live" ELSE pcbs[r]
    BY <1>1, <2>2
  <2>4. /\ sockets'[m].state = "WAITING_ACCEPT" /\ sockets'[m].pcb = q
        /\ \A s \in Slots \ {m} : sockets'[s] = sockets[s]
    BY <2>1, <2>2 DEF TypeOK
  <2>5. m # Server
    BY <2>1 DEF Net, ServerSlot
  <2>6. ServerSlot'
    BY <2>4, <2>5, Numbers DEF Net, ServerSlot
  <2>7. ClientSlots'
    BY <1>3, <2>3, <2>4 DEF Net, ClientSlots
  <2>8. OneSlot'
    <3> SUFFICES ASSUME NEW r \in Peers, pcbs'[r] = "live"
                 PROVE  OneSlot!(r)!2'
      BY DEF OneSlot
    <3>1. CASE r = q
      BY <1>3, <2>1, <2>4, <3>1
    <3>2. CASE r # q
      <4>1. PICK s \in Slots : sockets[s].pcb = r /\ \A x \in Slots : sockets[x].pcb = r => x = s
        BY <2>3, <3>2 DEF Net, OneSlot
      <4>2. s # m
        BY <2>1, <2>3, <2>5, <3>2, <4>1, Numbers DEF Net, ClientSlots
      <4> QED
        BY <2>4, <3>2, <4>1, <4>2
    <3> QED
      BY <3>1, <3>2
  <2>9. Owned'
    <3>1. \A c \in ConnIds : conns[c].used =>
            /\ conns[c].sock \in Slots \ {m} /\ conns[c].peer \in Peers \ {q}
      BY <1>2, <2>a DEF Available, TypeOK
    <3> QED
      BY <1>1, <2>3, <2>4, <3>1 DEF Net, Owned
  <2> QED
    BY <2>6, <2>7, <2>8, <2>9 DEF Net
<1> QED
  BY <1>4, <1>5

\* A live client leaves: its slot is closed, and a connection it had is stale.
LEMMA LeaveNet ==
  ASSUME TypeOK, Net, NEW q \in Peers, RemoteClose(q) \/ Reset(q)
  PROVE  Net'
<1> DEFINE m == SlotOf(q)
<1>1. /\ pcbs[q] = "live" /\ UNCHANGED conns
      /\ pcbs \in [Peers -> {"none", "live", "closed", "freed"}]
  BY DEF RemoteClose, Reset, Live, TypeOK
<1>2. /\ m \in Slots /\ sockets[m].pcb = q
      /\ \A r \in Slots : sockets[r].pcb = q => r = m
  BY <1>1, LiveSlot DEF Net
<1>3. m # Server
  BY <1>2, Numbers DEF Net, ServerSlot
<1>4. /\ \A r \in Slots \ {m} : sockets'[r] = sockets[r]
      /\ sockets'[m].state = "CLOSED"
      /\ sockets'[m].pcb = NoPcb \/ (sockets'[m].pcb = q /\ pcbs'[q] = "freed")
      /\ \A r \in Peers \ {q} : pcbs'[r] = pcbs[r]
      /\ pcbs'[q] \in {"closed", "freed"}
  <2>1. CASE RemoteClose(q)
    <3>1. Close({m})
      BY <2>1 DEF RemoteClose
    <3> HIDE DEF m
    <3>2. sockets[m].pcb # NoPcb
      BY <1>2, Numbers
    <3>3. /\ \A r \in Slots \ {m} : sockets'[r] = sockets[r]
          /\ sockets'[m].state = "CLOSED" /\ sockets'[m].pcb = NoPcb
      BY <1>2, <3>1, <3>2, CloseOne
    <3>4. \A r \in Peers : pcbs'[r] = IF r = q /\ pcbs[r] = "live" THEN "closed" ELSE pcbs[r]
      BY <1>2, <3>1, CloseOne
    <3> QED
      BY <1>1, <3>3, <3>4
  <2>2. CASE Reset(q)
    BY <1>1, <1>2, <2>2 DEF Reset, TypeOK
  <2> QED
    BY <2>1, <2>2
<1> HIDE DEF m
<1>5. ServerSlot'
  BY <1>3, <1>4, Numbers DEF Net, ServerSlot
<1>6. ClientSlots'
  BY <1>2, <1>4 DEF Net, ClientSlots
<1>7. OneSlot'
  <2> SUFFICES ASSUME NEW r \in Peers, pcbs'[r] = "live"
               PROVE  OneSlot!(r)!2'
    BY DEF OneSlot
  <2>1. r # q /\ pcbs[r] = "live"
    BY <1>4
  <2>2. PICK s \in Slots : sockets[s].pcb = r /\ \A x \in Slots : sockets[x].pcb = r => x = s
    BY <2>1 DEF Net, OneSlot
  <2> QED
    BY <1>2, <1>4, <2>1, <2>2, Numbers
<1>8. Owned'
  <2> SUFFICES ASSUME NEW c \in ConnIds, conns[c].used PROVE Owned!(c)!2'
    BY <1>1 DEF Owned
  <2>1. /\ conns[c].sock \in Slots \ {Server} /\ conns[c].peer \in Peers
        /\ \A d \in ConnIds : conns[d].used /\ conns[d].sock = conns[c].sock => d = c
    BY DEF Net, Owned, TypeOK
  <2>2. CASE conns[c].peer = q
    <3>1. conns[c].sock = m
      BY <1>1, <1>2, <2>1, <2>2 DEF Net, Owned
    <3> QED
      BY <1>1, <1>4, <2>1, <2>2, <3>1
  <2>3. CASE conns[c].peer # q
    <3>1. pcbs'[conns[c].peer] = pcbs[conns[c].peer]
      BY <1>4, <2>1, <2>3
    <3>2. CASE pcbs[conns[c].peer] = "live"
      <4>1. sockets[conns[c].sock].state = "CONNECTED" /\ sockets[conns[c].sock].pcb = conns[c].peer
        BY <3>2 DEF Net, Owned
      <4>2. sockets'[conns[c].sock] = sockets[conns[c].sock]
        BY <1>2, <1>4, <2>1, <2>3, <4>1
      <4> QED
        BY <1>1, <2>1, <3>1, <3>2, <4>1, <4>2
    <3>3. CASE pcbs[conns[c].peer] # "live"
      <4>1. sockets[conns[c].sock].state = "CLOSED" /\ pcbs[conns[c].peer] # "none"
        BY <3>3 DEF Net, Owned
      <4>2. sockets'[conns[c].sock].state = "CLOSED"
        BY <1>4, <2>1, <4>1
      <4> QED
        BY <1>1, <2>1, <3>1, <3>3, <4>1, <4>2
    <3> QED
      BY <3>2, <3>3
  <2> QED
    BY <2>2, <2>3
<1> QED
  BY <1>5, <1>6, <1>7, <1>8 DEF Net

\* The client that waits gets a connection and a slot nobody else has.
LEMMA AcceptNet ==
  ASSUME TypeOK, Net, AcceptClient
  PROVE  Net'
<1> DEFINE m == Accepted
           c == Min(Free)
<1>1. m \in Slots /\ sockets[m].state = "WAITING_ACCEPT"
  BY FirstFound DEF AcceptClient, Accepting, Waiting
<1>2. c \in ConnIds /\ ~conns[c].used
  BY FirstFound DEF AcceptClient, Free
<1>3. /\ UNCHANGED pcbs /\ sockets' = [sockets EXCEPT ![m].state = "CONNECTED"]
      /\ conns' = [conns EXCEPT ![c] = [used |-> TRUE, sock |-> m, peer |-> sockets[m].pcb]]
  BY DEF AcceptClient
<1> HIDE DEF m, c
<1>4. m # Server
  BY <1>1 DEF Net, ServerSlot
<1>5. sockets[m].pcb \in Peers /\ pcbs[sockets[m].pcb] = "live"
  BY <1>1, <1>4 DEF Net, ClientSlots
<1>6. /\ \A s \in Slots \ {m} : sockets'[s] = sockets[s]
      /\ sockets'[m].state = "CONNECTED" /\ sockets'[m].pcb = sockets[m].pcb
  BY <1>1, <1>3 DEF TypeOK
<1>7. /\ \A d \in ConnIds \ {c} : conns'[d] = conns[d]
      /\ conns'[c].used /\ conns'[c].sock = m /\ conns'[c].peer = sockets[m].pcb
  BY <1>2, <1>3 DEF TypeOK
<1>8. ServerSlot'
  BY <1>4, <1>6, Numbers DEF Net, ServerSlot
<1>9. ClientSlots'
  BY <1>3, <1>5, <1>6 DEF Net, ClientSlots
<1>10. OneSlot'
  <2>1. \A s \in Slots : sockets'[s].pcb = sockets[s].pcb
    BY <1>6
  <2> QED
    BY <1>3, <2>1 DEF Net, OneSlot
<1>11. Owned'
  <2>1. \A d \in ConnIds : conns[d].used => conns[d].sock \in Slots \ {m} /\ d # c
    BY <1>1, <1>2 DEF Net, Owned, TypeOK
  <2> SUFFICES ASSUME NEW d \in ConnIds, conns'[d].used PROVE Owned!(d)!2'
    BY DEF Owned
  <2>2. CASE d = c
    BY <1>3, <1>4, <1>5, <1>6, <1>7, <2>1, <2>2
  <2>3. CASE d # c
    BY <1>3, <1>6, <1>7, <2>1, <2>3 DEF Net, Owned
  <2> QED
    BY <2>2, <2>3
<1> QED
  BY <1>8, <1>9, <1>10, <1>11 DEF Net

\* A stale connection is given back; its slot has been closed before.
LEMMA GoneNet ==
  ASSUME TypeOK, QueueInv, Net, ServeGone
  PROVE  Net'
<1> DEFINE c == Popped
           m == conns[c].sock
<1>1. c \in ConnIds /\ conns[c].used
  BY PoppedUsed DEF ServeGone, Serving
<1>2. m \in Slots /\ m # Server /\ sockets[m].state # "CONNECTED"
  BY <1>1 DEF ServeGone, Socket, Net, Owned, TypeOK
<1>3. sockets[m].state = "CLOSED"
  BY <1>1, <1>2 DEF Net, Owned
<1>4. sockets[m].pcb = NoPcb \/ (sockets[m].pcb \in Peers /\ pcbs[sockets[m].pcb] = "freed")
  BY <1>2, <1>3 DEF Net, ClientSlots
<1>5. Close({m}) /\ conns' = [conns EXCEPT ![c] = NoConn]
  BY DEF ServeGone, RemoveConn
<1>6. ~conns'[c].used /\ \A d \in ConnIds \ {c} : conns'[d] = conns[d]
  BY <1>1, <1>5 DEF TypeOK, NoConn
<1> HIDE DEF m, c
<1>7. /\ \A s \in Slots \ {m} : sockets'[s] = sockets[s]
      /\ sockets'[m].state = "CLOSED"
      /\ sockets'[m].pcb = NoPcb
      /\ \A q \in Peers : pcbs'[q] = pcbs[q]
  <2>1. /\ \A s \in Slots \ {m} : sockets'[s] = sockets[s]
        /\ sockets[m].pcb = NoPcb => sockets'[m] = sockets[m]
        /\ sockets[m].pcb # NoPcb => sockets'[m].state = "CLOSED" /\ sockets'[m].pcb = NoPcb
    BY <1>2, <1>5, CloseOne
  <2>2. \A q \in Peers : pcbs'[q] = IF q = sockets[m].pcb /\ pcbs[q] = "live"
                                   THEN "closed" ELSE pcbs[q]
    BY <1>2, <1>5, CloseOne
  <2>3. \A q \in Peers : pcbs'[q] = pcbs[q]
    BY <1>4, <2>2, Numbers
  <2> QED
    BY <1>3, <2>1, <2>3
<1>8. ServerSlot'
  BY <1>2, <1>7, Numbers DEF Net, ServerSlot
<1>9. ClientSlots'
  BY <1>2, <1>7 DEF Net, ClientSlots
<1>10. OneSlot'
  <2> SUFFICES ASSUME NEW r \in Peers, pcbs[r] = "live"
               PROVE  OneSlot!(r)!2'
    BY <1>7 DEF OneSlot
  <2>1. PICK s \in Slots : sockets[s].pcb = r /\ \A x \in Slots : sockets[x].pcb = r => x = s
    BY DEF Net, OneSlot
  <2>2. s # m
    BY <1>4, <2>1, Numbers
  <2> QED
    BY <1>7, <2>1, <2>2, Numbers
<1>11. Owned'
  <2> SUFFICES ASSUME NEW d \in ConnIds, conns'[d].used PROVE Owned!(d)!2'
    BY DEF Owned
  <2>1. d # c /\ conns[d].used /\ conns'[d] = conns[d]
    BY <1>6
  <2>2. conns[d].sock \in Slots /\ conns[d].sock # m
    BY <1>1, <2>1 DEF Net, Owned, TypeOK, m
  <2> QED
    BY <1>6, <1>7, <2>1, <2>2 DEF Net, Owned
<1> QED
  BY <1>8, <1>9, <1>10, <1>11 DEF Net

\* What has been given away too early stays so.
LEMMA ReusedStays ==
  ASSUME [Next]_vars, reused PROVE reused'
<1>1. ASSUME NEW q \in Peers, ClientConnects(q) PROVE reused'
  BY <1>1, Zenon DEF ClientConnects
<1>2. CASE UNCHANGED reused
  BY <1>2
<1>3. UNCHANGED reused \/ \E q \in Peers : ClientConnects(q)
  BY DEF Next, Main, Network, AcceptNone, AcceptClient, AcceptUndone, AcceptNoDesc, Stop,
         LwipDone, ServeNobody, ServeGone, ServeIdle, ServeRequest, ServeExit, ServeError,
         StartCyclic, CyclicLine, CyclicFails, Remove, Receive, RemoteClose, Reset,
         history, vars
<1> QED
  BY <1>1, <1>2, <1>3

\* The steps after which iio_app_run still runs, one by one.
LEMMA RunningCases ==
  ASSUME [Next]_vars, Running'
  PROVE  /\ Running /\ UNCHANGED setup
         /\ reused => reused'
         /\ \/ AcceptNone \/ AcceptClient \/ LwipDone \/ ServeNobody \/ ServeGone
            \/ ServeIdle \/ ServeExit
            \/ ServeRequest \/ StartCyclic \/ CyclicLine \/ CyclicFails
            \/ (\E q \in Peers : ClientConnects(q) \/ Receive(q) \/ RemoteClose(q) \/ Reset(q))
            \/ UNCHANGED vars
  BY ReusedStays DEF Running, Next, Main, Network, AcceptNone, AcceptClient, Accepting, AcceptUndone,
         AcceptNoDesc, Stop, LwipDone, ServeNobody, ServeGone, Serving, ServeIdle,
         ServeRequest, ServeExit, ServeError, Request, StartCyclic, CyclicLine, CyclicFails,
         Remove, ClientConnects, Receive, RemoteClose, Reset, Live, history, vars

\* The connection that has executed EXIT is given back with its slot.
LEMMA ExitNet ==
  ASSUME TypeOK, QueueInv, Net, ServeExit
  PROVE  Net'
<1> DEFINE c == Popped
           m == conns[c].sock
           q == conns[c].peer
<1>1. c \in ConnIds /\ conns[c].used
  BY PoppedUsed DEF ServeExit, Request, Serving
<1>2. /\ m \in Slots /\ m # Server /\ q \in Peers
      /\ sockets[m].state = "CONNECTED" /\ sockets[m].pcb = q /\ pcbs[q] = "live"
  BY <1>1 DEF ServeExit, Request, Socket, Net, Owned, TypeOK
<1>3. \A s \in Slots : sockets[s].pcb = q => s = m
  BY <1>2 DEF Net, OneSlot
<1>4. Close({m}) /\ conns' = [conns EXCEPT ![c] = NoConn]
  BY DEF ServeExit, RemoveConn
<1>5. ~conns'[c].used /\ \A d \in ConnIds \ {c} : conns'[d] = conns[d]
  BY <1>1, <1>4 DEF TypeOK, NoConn
<1>6. \A d \in ConnIds \ {c} : conns[d].used => conns[d].sock \in Slots \ {m}
  BY <1>1 DEF Net, Owned, TypeOK
<1> HIDE DEF m, c, q
<1>7. /\ \A s \in Slots \ {m} : sockets'[s] = sockets[s]
      /\ sockets'[m].state = "CLOSED" /\ sockets'[m].pcb = NoPcb
  BY <1>2, <1>4, CloseOne, Numbers
<1>8. \A r \in Peers : pcbs'[r] = IF r = q THEN "closed" ELSE pcbs[r]
  BY <1>2, <1>4, CloseOne
<1>9. ServerSlot'
  BY <1>2, <1>7, Numbers DEF Net, ServerSlot
<1>10. ClientSlots'
  BY <1>3, <1>7, <1>8 DEF Net, ClientSlots
<1>11. OneSlot'
  <2> SUFFICES ASSUME NEW r \in Peers, pcbs'[r] = "live"
               PROVE  OneSlot!(r)!2'
    BY DEF OneSlot
  <2>1. r # q /\ pcbs[r] = "live"
    BY <1>8
  <2>2. PICK s \in Slots : sockets[s].pcb = r /\ \A x \in Slots : sockets[x].pcb = r => x = s
    BY <2>1 DEF Net, OneSlot
  <2>3. s # m
    BY <1>2, <2>1, <2>2
  <2> QED
    BY <1>7, <2>2, <2>3, Numbers
<1>12. Owned'
  <2> SUFFICES ASSUME NEW d \in ConnIds, conns'[d].used PROVE Owned!(d)!2'
    BY DEF Owned
  <2>1. d # c /\ conns[d].used /\ conns'[d] = conns[d]
    BY <1>5
  <2>2. conns[d].sock \in Slots \ {m}
    BY <1>6, <2>1
  <2>3. conns[d].peer # q \/ pcbs[conns[d].peer] # "live"
    BY <1>3, <2>1, <2>2 DEF Net, Owned
  <2>4. conns[d].peer # q
    BY <1>2, <2>3
  <2> QED
    BY <1>5, <1>7, <1>8, <2>1, <2>2, <2>4 DEF Net, Owned
<1> QED
  BY <1>9, <1>10, <1>11, <1>12 DEF Net

\* What the step leaves alone when only frames move.
OnlyFrames ==
  /\ UNCHANGED <<pcbs, conns>>
  /\ \A s \in Slots : sockets'[s].state = sockets[s].state /\ sockets'[s].pcb = sockets[s].pcb

\* Receive appends to the frames of a slot and a request takes one off.
LEMMA FrameSteps ==
  ASSUME TypeOK, \/ ServeRequest \/ StartCyclic \/ CyclicLine
                 \/ \E q \in Peers : Receive(q)
  PROVE  OnlyFrames
<1>1. ASSUME NEW x, NEW y, sockets' = [sockets EXCEPT ![x].p = y]
      PROVE  \A s \in Slots : /\ sockets'[s].state = sockets[s].state
                              /\ sockets'[s].pcb = sockets[s].pcb
  BY <1>1 DEF TypeOK
<1> QED
  BY <1>1 DEF OnlyFrames, ServeRequest, StartCyclic, CyclicLine, TakeFrame, Receive

\* The table stays right.
LEMMA NetStep ==
  ASSUME TypeOK, QueueInv, NetInv, [Next]_vars PROVE NetInv'
<1> SUFFICES ASSUME ~reused', Running' PROVE Net'
  BY DEF NetInv
<1>1. Net
  BY RunningCases DEF NetInv
<1>2. CASE AcceptNone
  <2>1. /\ UNCHANGED <<pcbs, conns>>
        /\ \A s \in Slots \ {Server} : sockets'[s] = sockets[s]
        /\ \A s \in Slots : sockets'[s].pcb = sockets[s].pcb
        /\ sockets'[Server].state = "ACCEPTING"
    BY <1>2, Numbers DEF AcceptNone, TypeOK
  <2>2. ServerSlot' /\ ClientSlots' /\ OneSlot'
    BY <1>1, <2>1, Numbers DEF Net, ServerSlot, ClientSlots, OneSlot
  <2>3. Owned'
    BY <1>1, <2>1 DEF Net, Owned, TypeOK
  <2> QED
    BY <2>2, <2>3 DEF Net
<1>3. CASE LwipDone \/ ServeNobody \/ ServeIdle \/ CyclicFails \/ UNCHANGED vars
  BY <1>1, <1>3, NetFrame DEF LwipDone, ServeNobody, ServeIdle, CyclicFails, vars, net
<1>4. CASE ServeRequest \/ StartCyclic \/ CyclicLine \/ \E q \in Peers : Receive(q)
  BY <1>1, <1>4, FrameSteps, NetFrame DEF OnlyFrames
<1> QED
  BY <1>1, <1>2, <1>3, <1>4, AcceptNet, GoneNet, ExitNet, ConnectNet, LeaveNet, RunningCases

\* After iio_init only the server has a socket.
LEMMA NetInit == Init => NetInv
<1> SUFFICES ASSUME Init PROVE Net
  BY DEF NetInv
<1>1. /\ \A s \in Slots \ {Server} : sockets[s] = Unused
      /\ sockets[Server] = [state |-> "LISTENING", pcb |-> ServerPcb, p |-> <<>>]
      /\ \A q \in Peers : pcbs[q] = "none"
      /\ \A c \in ConnIds : ~conns[c].used
  BY Numbers DEF Init, NoConn
<1> QED
  BY <1>1 DEF Net, ServerSlot, ClientSlots, OneSlot, Owned, Unused

-----------------------------------------------------------------------------
(* ServerRuns *)

\* A client that waits for iio_step finds a connection in the pool: those in use
\* have slots of their own, other than its slot and that of the server.
LEMMA PoolHasRoom ==
  ASSUME RoomForAll, TypeOK, Net, Accepting
  PROVE  Free # {}
<1> SUFFICES ASSUME Free = {} PROVE FALSE
  OBVIOUS
<1>1. PICK m \in Slots : sockets[m].state = "WAITING_ACCEPT"
  BY DEF Accepting, Waiting
<1>2. m # Server /\ Server \in Slots
  BY <1>1, Numbers DEF Net, ServerSlot
<1> DEFINE T == (Slots \ {Server}) \ {m}
           f == [c \in ConnIds |-> conns[c].sock]
<1>3. IsFiniteSet(T) /\ Cardinality(T) = NbSockets - 2
  <2>1. IsFiniteSet(Slots) /\ Cardinality(Slots) = NbSockets
    BY ServerAssumption, FS_Interval DEF Slots
  <2>2. IsFiniteSet(Slots \ {Server}) /\ Cardinality(Slots \ {Server}) = NbSockets - 1
    BY <1>2, <2>1, FS_RemoveElement
  <2>3. m \in Slots \ {Server}
    BY <1>1, <1>2
  <2>4. IsFiniteSet(T) /\ Cardinality(T) = (NbSockets - 1) - 1
    BY <2>2, <2>3, FS_RemoveElement
  <2> QED
    BY <2>4, ServerAssumption
<1>4. \A c \in ConnIds : conns[c].used
  BY DEF Free
<1>5. f \in Injection(ConnIds, T)
  <2>1. \A c \in ConnIds : conns[c].sock \in T
    BY <1>1, <1>4 DEF Net, Owned, TypeOK
  <2>2. \A c, d \in ConnIds : conns[c].sock = conns[d].sock => c = d
    BY <1>4 DEF Net, Owned
  <2> QED
    BY <2>1, <2>2 DEF Injection, IsInjective
<1>6. Cardinality(ConnIds) = NbConns
  BY ServerAssumption, FS_Interval DEF ConnIds
<1> HIDE DEF T, f
<1>7. Cardinality(ConnIds) <= Cardinality(T)
  BY <1>3, <1>5, FS_Injection
<1> QED
  BY <1>3, <1>6, <1>7, ServerAssumption DEF RoomForAll

\* With as many connections as sockets for clients, iio_app_run only returns when
\* memory runs out or a request fails, as long as every slot that is given to a
\* client is available.
THEOREM KeepsRunning ==
  ASSUME RoomForAll PROVE Spec => []ServerRuns
<1> DEFINE Inv == TypeOK /\ QueueInv /\ NetInv /\ ServerRuns
<1>1. Init => Inv
  <2>1. Init => QueueInv /\ ServerRuns
    BY DEF Init, QueueInv, NoConn, ServerRuns
  <2> QED
    BY <2>1, TypeInit, NetInit
<1>2. Inv /\ [Next]_vars => Inv'
  <2> SUFFICES ASSUME Inv, [Next]_vars PROVE ServerRuns'
    BY TypeStep, QueueStep, NetStep
  <2> SUFFICES ASSUME ~reused', ~Running' PROVE cause' \in {"memory", "request"}
    BY DEF ServerRuns, Running
  <2>1. CASE Running'
    BY <2>1
  <2>2. CASE AcceptNoDesc \/ ServeError
    BY <2>2 DEF AcceptNoDesc, ServeError, Stop
  <2>3. CASE AcceptUndone
    <3>1. ~reused /\ Running /\ Accepting
      BY <2>3 DEF AcceptUndone, Accepting, Stop, Running
    <3>2. Free # {}
      BY <3>1, PoolHasRoom DEF NetInv
    <3> QED
      BY <2>3, <3>2 DEF AcceptUndone, Stop
  <2>4. CASE Remove \/ UNCHANGED vars
    BY <2>4 DEF Remove, Running, ServerRuns, vars, history
  <2> QED
    BY <2>1, <2>2, <2>3, <2>4
       DEF Running, Next, Main, Network, AcceptNone, AcceptClient, Accepting, LwipDone,
           ServeNobody, ServeGone, Serving, ServeIdle, ServeRequest, ServeExit, StartCyclic,
           CyclicLine, CyclicFails, ClientConnects, Receive, RemoteClose, Reset, Live
<1>3. Inv => ServerRuns
  OBVIOUS
<1> QED
  BY <1>1, <1>2, <1>3, PTL DEF Spec

-----------------------------------------------------------------------------
(* OwnRequests *)

\* lwip_recv_callback adds a frame to the slot of the client it came from, and
\* lwip_socket_close frees the frames with the slot.
LEMMA FramesStep ==
  ASSUME TypeOK, QueueInv, NetInv, Frames, [Next]_vars PROVE Frames'
<1> SUFFICES ASSUME ~reused', Running', NEW s \in Slots
             PROVE  /\ sockets'[s].pcb = NoPcb => sockets'[s].p = <<>>
                    /\ \A i \in 1 .. Len(sockets'[s].p) : sockets'[s].p[i] = sockets'[s].pcb
  BY DEF Frames
<1>1. Net /\ ~reused /\ Running
  BY RunningCases DEF NetInv
<1>2. /\ sockets[s].pcb = NoPcb => sockets[s].p = <<>>
      /\ \A i \in 1 .. Len(sockets[s].p) : sockets[s].p[i] = sockets[s].pcb
      /\ sockets[s].p \in Seq(Peers)
  BY <1>1 DEF Frames, TypeOK
<1>3. CASE sockets'[s] = sockets[s]
  BY <1>2, <1>3
<1>4. CASE sockets'[s].p = <<>>
  BY <1>4
<1>5. CASE LwipDone \/ ServeNobody \/ ServeIdle \/ CyclicFails \/ UNCHANGED vars
  BY <1>3, <1>5 DEF LwipDone, ServeNobody, ServeIdle, CyclicFails, vars, net
<1>6. CASE AcceptNone \/ AcceptClient \/ \E q \in Peers : Reset(q)
  <2>1. sockets'[s].p = sockets[s].p /\ sockets'[s].pcb = sockets[s].pcb
    <3>1. PICK x, y : sockets' = [sockets EXCEPT ![x].state = y]
      BY <1>6 DEF AcceptNone, AcceptClient, Reset
    <3> QED
      BY <3>1 DEF TypeOK
  <2> QED
    BY <1>2, <2>1
<1>7. ASSUME NEW m \in Slots, Close({m})
      PROVE  sockets'[s] = sockets[s] \/ sockets'[s].p = <<>>
  BY <1>7, CloseOne
<1>8. CASE ServeGone \/ ServeExit
  <2>1. conns[Popped].sock \in Slots
    BY <1>8, PoppedUsed DEF ServeGone, ServeExit, Request, Serving
  <2> QED
    BY <1>3, <1>4, <1>7, <1>8, <2>1 DEF ServeGone, ServeExit
<1>9. ASSUME NEW q \in Peers, RemoteClose(q)
      PROVE  sockets'[s] = sockets[s] \/ sockets'[s].p = <<>>
  <2>1. SlotOf(q) \in Slots
    BY <1>1, <1>9, LiveSlot DEF RemoteClose, Live, Net
  <2> QED
    BY <1>7, <1>9, <2>1 DEF RemoteClose
<1>11. ASSUME NEW q \in Peers, ClientConnects(q)
       PROVE  sockets'[s] = sockets[s] \/ sockets'[s].p = <<>>
  <2>1. CASE ClosedSlots = {}
    BY <1>11, <2>1 DEF ClientConnects
  <2>2. CASE ClosedSlots # {}
    <3>1. PICK m \in Slots : /\ sockets[m].pcb = NoPcb
                             /\ sockets' = [sockets EXCEPT ![m].state = "WAITING_ACCEPT",
                                                           ![m].pcb = q]
      BY <1>11, <2>2, FirstFound DEF ClientConnects, ClosedSlots, Available
    <3>2. s # m => sockets'[s] = sockets[s]
      BY <3>1 DEF TypeOK
    <3>3. s = m => sockets'[s].p = sockets[s].p
      BY <3>1 DEF TypeOK
    <3> QED
      BY <1>2, <3>1, <3>2, <3>3
  <2> QED
    BY <2>1, <2>2
<1>12. ASSUME NEW q \in Peers, Receive(q)
       PROVE  /\ sockets'[s].pcb = NoPcb => sockets'[s].p = <<>>
              /\ \A i \in 1 .. Len(sockets'[s].p) : sockets'[s].p[i] = sockets'[s].pcb
  <2> DEFINE m == SlotOf(q)
  <2>1. /\ m \in Slots /\ sockets[m].pcb = q /\ pcbs[q] = "live"
        /\ sockets' = [sockets EXCEPT ![m].p = Append(@, q)]
    BY <1>1, <1>12, LiveSlot DEF Receive, Live, Net
  <2> HIDE DEF m
  <2>2. q # NoPcb
    BY Numbers
  <2>3. CASE s # m
    <3>1. sockets'[s] = sockets[s]
      BY <2>1, <2>3 DEF TypeOK
    <3> QED
      BY <1>2, <3>1
  <2>4. CASE s = m
    <3>1. /\ sockets'[s].p = Append(sockets[s].p, q)
          /\ sockets'[s].state = sockets[s].state /\ sockets'[s].pcb = q
      BY <2>1, <2>4 DEF TypeOK
    <3>2. \A i \in 1 .. Len(sockets'[s].p) : sockets'[s].p[i] = q
      BY <1>2, <2>1, <2>4, <3>1
    <3> QED
      BY <2>2, <2>4, <3>1, <3>2
  <2> QED
    BY <2>3, <2>4
<1>13. CASE ServeRequest \/ StartCyclic \/ CyclicLine
  <2> DEFINE m == conns[Popped].sock
  <2>1. /\ sockets[m].p # <<>>
        /\ sockets' = [sockets EXCEPT ![m].p = Tail(@)]
    BY <1>13 DEF ServeRequest, StartCyclic, CyclicLine, Request, TakeFrame, Socket
  <2> HIDE DEF m
  <2>2. CASE s # m
    <3>1. sockets'[s] = sockets[s]
      BY <2>1, <2>2 DEF TypeOK
    <3> QED
      BY <1>2, <3>1
  <2>3. CASE s = m
    <3>1. sockets'[s].p = Tail(sockets[s].p) /\ sockets'[s].pcb = sockets[s].pcb
      BY <2>1, <2>3 DEF TypeOK
    <3>2. \A i \in 1 .. Len(sockets'[s].p) : sockets'[s].p[i] = sockets[s].pcb
      BY <1>2, <2>1, <2>3, <3>1
    <3> QED
      BY <1>2, <2>1, <2>3, <3>1, <3>2
  <2> QED
    BY <2>2, <2>3
<1> QED
  BY <1>3, <1>4, <1>5, <1>6, <1>8, <1>9, <1>11, <1>12, <1>13, RunningCases

\* Every request is executed by the connection made for the client that sent it,
\* though clients leave, are reset, use EXIT and cyclic buffers, and slots and
\* connections are used again and again, until the first time a client is given
\* a slot that is still referred to.
THEOREM ServesOwn == Spec => []OwnRequests
<1> DEFINE Inv == TypeOK /\ QueueInv /\ NetInv /\ Frames /\ OwnRequests
<1>1. Init => Inv
  <2>1. Init => QueueInv /\ OwnRequests
    BY DEF Init, QueueInv, NoConn, OwnRequests
  <2>2. Init => Frames
    BY DEF Init, Frames, Unused
  <2> QED
    BY <2>1, <2>2, TypeInit, NetInit
<1>2. Inv /\ [Next]_vars => Inv'
  <2> SUFFICES ASSUME Inv, [Next]_vars PROVE OwnRequests'
    BY TypeStep, QueueStep, NetStep, FramesStep
  <2> DEFINE Serves == ServeRequest \/ ServeExit \/ ServeError \/ StartCyclic \/ CyclicLine
  <2>1. (reused => reused') /\ (UNCHANGED taken \/ Serves)
    BY ReusedStays
       DEF Next, Main, Network, AcceptNone, AcceptClient, AcceptUndone, AcceptNoDesc,
           LwipDone, ServeNobody, ServeGone, ServeIdle, CyclicFails, Remove, ClientConnects,
           Receive, RemoteClose, Reset, vars
  <2>2. CASE UNCHANGED taken
    BY <2>1, <2>2 DEF OwnRequests
  <2>3. CASE Serves
    <3> SUFFICES ASSUME ~reused, NEW q \in Peers, NEW r \in Peers, taken'[q][r] > 0
                 PROVE  q = r
      BY <2>1 DEF OwnRequests
    <3> DEFINE c == Popped
               m == conns[c].sock
    <3>0. /\ queue # <<>> /\ Execute
          /\ Socket.state = "CONNECTED" /\ Socket.p # <<>> /\ pc \in {"serve", "cyclic"}
      BY <2>3 DEF ServeRequest, ServeExit, ServeError, StartCyclic, CyclicLine, Request,
                  Serving, TypeOK
    <3>1. Net /\ Running
      BY <3>0 DEF Running, NetInv
    <3>2. c \in ConnIds /\ conns[c].used /\ m \in Slots
      BY <3>0, PoppedUsed
    <3>3. sockets[m].state = "CONNECTED" /\ sockets[m].p # <<>> /\ sockets[m].p \in Seq(Peers)
      BY <3>0, <3>2 DEF Socket, TypeOK
    <3>4. sockets[m].pcb = conns[c].peer
      BY <3>1, <3>2, <3>3 DEF Net, Owned
    <3>5. Head(sockets[m].p) = conns[c].peer
      BY <3>1, <3>2, <3>3, <3>4 DEF Frames
    <3>6. taken' = [taken EXCEPT ![conns[c].peer][conns[c].peer] = @ + 1]
      BY <3>0, <3>5 DEF Execute, Socket
    <3>7. CASE q # conns[c].peer \/ r # conns[c].peer
      <4>1. taken'[q][r] = taken[q][r]
        BY <3>6, <3>7 DEF TypeOK
      <4> QED
        BY <4>1 DEF OwnRequests
    <3> QED
      BY <3>7
  <2> QED
    BY <2>1, <2>2, <2>3
<1>3. Inv => OwnRequests
  OBVIOUS
<1> QED
  BY <1>1, <1>2, <1>3, PTL DEF Spec
=============================================================================
