----------------------------- MODULE WifiProofs -----------------------------
(***************************************************************************)
(* What holds of the WiFi sockets for every number of connections, peers   *)
(* and payloads.                                                           *)
(***************************************************************************)
EXTENDS Wifi, WellFoundedInduction, TLAPS

\* A server leaves it to its clients to close.
StaysOn == \A s \in Setups : s.server => ~s.hangsUp

-----------------------------------------------------------------------------
(* Inductive invariants *)

TokenType == [t : {"ok", "error", "prompt", "closed", "ipd"}, n : Int, p : 0 .. NbPeers]
TaskType == [kind : {"none", "START", "STOP", "SEND", "PAYLOAD", "DISCONNECT", "CLOSE"},
             sock : Sockets, conn : Conns \cup {INVALID}, n : Nat]
SocketType == [state : {"UNUSED", "DISCONNECTED", "LISTENING", "WAITING_ACCEPT",
                        "CONNECTED"},
               conn : Conns \cup {INVALID}, ring : Seq(Peers)]
ConnType == [active : BOOLEAN, cb : Sockets \cup {INVALID}]

Types ==
  /\ setup \in Setups
  /\ sockets \in [Sockets -> SocketType]
  /\ map \in [Conns -> Sockets \cup {INVALID}]
  /\ conn \in [Conns -> ConnType]
  /\ peers \in 0 .. NbPeers
  /\ link \in [Conns -> 0 .. peers]
  /\ dest \in [Peers -> Sockets \cup {INVALID}]
  /\ uart \in Seq(TokenType) /\ result \in Seq(TokenType)
  /\ todo \in TaskType /\ cmd \in TaskType
  /\ pc \in {"idle", "written", "answer", "send", "prompt", "finish"}
  /\ ret \in {0, -1}

\* What is on the line names connections of the module and peers that have
\* appeared.
Tokens ==
  \A k \in 1 .. Len(uart) :
    /\ uart[k].t \in {"closed", "ipd"} => uart[k].n \in Conns
    /\ uart[k].t = "ipd" => uart[k].p \in 1 .. peers

\* So does the payload that is being read.
Reads == reading # NoPayload => reading.conn \in Conns /\ reading.p \in 1 .. peers

IsAnswer(k) == uart[k].t \in {"ok", "error"}

\* A command that waits has at most one answer: to be given, on the line or in
\* the buffer.  Otherwise there is none.
OneAnswer ==
  /\ todo # NoTask => todo.n = cmd.n /\ pc \in {"answer", "written", "send"}
  /\ result # <<>> =>
       /\ Len(result) = 1 /\ result[1].n = cmd.n
       /\ pc \in {"answer", "written", "send"} /\ todo = NoTask
  /\ \A k \in 1 .. Len(uart) : IsAnswer(k) =>
       /\ uart[k].n = cmd.n
       /\ pc \in {"answer", "written", "send"} /\ todo = NoTask /\ result = <<>>
       /\ \A j \in 1 .. Len(uart) : IsAnswer(j) => j = k

AnswerInv == Types /\ Tokens /\ Reads /\ OneAnswer /\ EveryAnswerMatches

\* No command was given up too early, and no payload was parsed as text.
Calm == spoiled \intersect {"late", "text"} = {}

\* What the program and the module know of a command.
Command ==
  /\ cmd.kind = "none" <=> pc = "idle"
  /\ todo # NoTask => todo.sock = cmd.sock /\ todo.conn = cmd.conn
  /\ todo.kind = "START" => cmd.kind = "START"
  /\ todo.kind = "STOP" => cmd.kind \in {"DISCONNECT", "CLOSE"}
  /\ todo.kind \in {"SEND", "PAYLOAD"} => cmd.kind = "SEND"
  /\ pc \in {"written", "send", "prompt"} => cmd.kind = "SEND"
  /\ cmd.kind \in {"START", "DISCONNECT", "CLOSE"} => pc \in {"answer", "finish"} /\ ~setup.server
  /\ cmd.kind = "START" => cmd.conn \in Conns

ClosedAt(k, c) == uart[k].t = "closed" /\ uart[k].n = c
PayloadAt(k, c) == uart[k].t = "ipd" /\ uart[k].n = c

\* No notice that c was closed lies between two places of the line.
Clear(i, j, c) == \A k \in 1 .. Len(uart) : i < k /\ k < j => ~ClosedAt(k, c)

End == Len(uart) + 1

\* A payload on the line belongs to the socket that has its connection, or to none
\* yet when a notice comes first.
Arriving ==
  \A k \in 1 .. Len(uart) : \A c \in Conns : PayloadAt(k, c) =>
    dest[uart[k].p] = IF Clear(0, k, c) THEN map[c] ELSE INVALID

\* It comes from the peer of that connection, unless a notice follows.
Leaving ==
  \A k \in 1 .. Len(uart) : \A c \in Conns : PayloadAt(k, c) =>
    \A d \in Conns : link[d] = uart[k].p <=> d = c /\ Clear(k, End, c)

\* Two payloads have one peer when they have one connection and no notice is
\* between them.
Among ==
  \A i, j \in 1 .. Len(uart) : \A c, d \in Conns :
    i < j /\ PayloadAt(i, c) /\ PayloadAt(j, d)
      => (uart[i].p = uart[j].p <=> c = d /\ Clear(i, j, c))

\* The links of the module.
Links ==
  \A c \in Conns : link[c] # NoPeer =>
    /\ dest[link[c]] = IF Clear(0, End, c) THEN map[c] ELSE INVALID
    /\ \A d \in Conns : link[d] = link[c] => d = c

\* A connection of a server that has no link, and no notice under way, has no socket.
Vacant ==
  setup.server =>
    \A c \in Conns : link[c] = NoPeer /\ Clear(0, End, c) => map[c] = INVALID

Unseen == \A p \in Peers : p > peers => dest[p] = INVALID

Traffic == Arriving /\ Leaving /\ Among /\ Links /\ Vacant /\ Unseen

\* What is in a ring belongs there.
Rings ==
  \A s \in Sockets : \A k \in 1 .. Len(sockets[s].ring) :
    sockets[s].ring[k] \in 1 .. peers /\ dest[sockets[s].ring[k]] = s

\* The parser's ring of a connection is the one of its socket.
Ringed == \A c \in Conns : conn[c].active => conn[c].cb = map[c] /\ map[c] # INVALID

\* The payload that is being read goes to the ring of its socket.
Receiving ==
  reading # NoPayload /\ conn[reading.conn].active => dest[reading.p] = conn[reading.conn].cb

Busy(s) == \/ sockets[s].state \in {"CONNECTED", "WAITING_ACCEPT"}
           \/ cmd.kind = "START" /\ cmd.sock = s

\* conn_id_to_sock_id and the conn_id of the sockets are inverse to each other.
Mapped ==
  /\ \A c \in Conns : map[c] # INVALID => sockets[map[c]].conn = c /\ Busy(map[c])
  /\ \A s \in Sockets : Busy(s) /\ sockets[s].conn # INVALID => map[sockets[s].conn] = s

Quiet(c) == \A k \in 1 .. Len(uart) : ~ClosedAt(k, c) /\ ~PayloadAt(k, c)

\* A client's connection that has no socket is free; its notice is the last thing
\* heard of a connection.
ClientWire ==
  ~setup.server => \A c \in Conns :
    /\ map[c] = INVALID => link[c] = NoPeer /\ Quiet(c)
    /\ link[c] # NoPeer => Clear(0, End, c)
    /\ \A i, j \in 1 .. Len(uart) : i < j /\ ClosedAt(i, c)
         => ~ClosedAt(j, c) /\ ~PayloadAt(j, c)

\* The program knows, or is about to know, that the command succeeded.
OkTaken == \/ pc = "finish" /\ ret = 0
           \/ result # <<>> /\ result[1].t = "ok"

\* Commands are granted in their order.
Granted == /\ granted \in Nat /\ granted <= cmd.n
           /\ todo.kind = "START" => granted < cmd.n

\* wifi_socket_connect: nothing happens on the connection before it is granted.
Starting ==
  cmd.kind = "START" =>
    /\ sockets[cmd.sock].conn \in {cmd.conn, INVALID}
    /\ granted # cmd.n => /\ sockets[cmd.sock].conn = cmd.conn
                          /\ ~conn[cmd.conn].active
                          /\ link[cmd.conn] = NoPeer /\ Quiet(cmd.conn)

\* wifi_socket_disconnect and wifi_socket_close: the notice comes before the answer,
\* so that the interrupt has released the connection when the program does.
Stopping ==
  cmd.kind \in {"DISCONNECT", "CLOSE"} =>
    /\ sockets[cmd.sock].conn # INVALID => sockets[cmd.sock].conn = cmd.conn /\ Busy(cmd.sock)
    /\ OkTaken => sockets[cmd.sock].conn = INVALID
    /\ \A k \in 1 .. Len(uart) : uart[k].t = "ok" =>
         \/ sockets[cmd.sock].conn = INVALID
         \/ \E j \in 1 .. k - 1 : ClosedAt(j, cmd.conn)

Tables == Rings /\ Ringed /\ Mapped
ClientInv == ClientWire /\ Starting /\ Stopping

PayloadInv == AnswerInv /\ Command /\ Granted /\ Receiving /\ Traffic /\ Tables /\ ClientInv

-----------------------------------------------------------------------------
(* Sequences and numbers *)

\* The interrupt takes the first token, the module adds one or two.
LEMMA Line ==
  ASSUME NEW S, NEW s \in Seq(S), NEW x \in S, NEW y \in S
  PROVE  /\ s \o <<x>> \in Seq(S) /\ Len(s \o <<x>>) = Len(s) + 1
         /\ \A i \in 1 .. Len(s) : (s \o <<x>>)[i] = s[i]
         /\ (s \o <<x>>)[Len(s) + 1] = x
         /\ s \o <<x, y>> \in Seq(S) /\ Len(s \o <<x, y>>) = Len(s) + 2
         /\ \A i \in 1 .. Len(s) : (s \o <<x, y>>)[i] = s[i]
         /\ (s \o <<x, y>>)[Len(s) + 1] = x /\ (s \o <<x, y>>)[Len(s) + 2] = y
         /\ s # <<>> => /\ Len(s) > 0 /\ Tail(s) \in Seq(S) /\ Len(Tail(s)) = Len(s) - 1
                        /\ \A i \in 1 .. Len(s) - 1 : Tail(s)[i] = s[i + 1]
                        /\ Head(s) = s[1] /\ Head(s) \in S
  OBVIOUS

\* The first of some sockets or connections.
LEMMA FirstOf ==
  ASSUME NEW S \in SUBSET Nat, S # {} PROVE Min(S) \in S
<1> DEFINE Below == {ss \in Nat \X Nat : ss[1] < ss[2]}
<1>1. IsWellFoundedOn(Below, Nat)
  BY NatLessThanWellFounded, Zenon DEF OpToRel
<1>2. \A x, y \in Nat : x < y => <<x, y>> \in Below
  OBVIOUS
<1> HIDE DEF Below
<1>3. PICK m \in S : \A y \in S : ~(<<y, m>> \in Below)
  BY <1>1, WFMin
<1>4. ASSUME NEW y \in S PROVE m <= y
  <2>1. m \in Nat /\ y \in Nat
    OBVIOUS
  <2>2. ~(y < m)
    BY <1>2, <1>3, <2>1
  <2> QED
    BY <2>1, <2>2
<1> QED
  BY <1>4 DEF Min

\* INVALID_ID is neither a connection nor a socket.
LEMMA Numbers ==
  /\ Conns \in SUBSET Nat /\ Sockets \in SUBSET Nat /\ Backlog \subseteq Sockets
  /\ INVALID \notin Conns /\ INVALID \notin Sockets
  /\ Peers = 1 .. NbPeers /\ NbPeers \in Nat /\ 0 \in Sockets
  BY WifiAssumption DEF Conns, Sockets, Backlog, INVALID, Peers

-----------------------------------------------------------------------------
(* Types *)

\* wifi_init, and listen for a server.
LEMMA TypeInit == Init => Types /\ Tokens
<1> SUFFICES ASSUME Init PROVE Types /\ Tokens
  OBVIOUS
<1>1. NoSocket \in SocketType
  BY WifiAssumption DEF NoSocket, SocketType, Conns
<1>2. sockets \in [Sockets -> SocketType]
  BY <1>1 DEF Init, NoSocket, SocketType
<1>3. NoTask \in TaskType
  BY Numbers DEF NoTask, TaskType
<1>4. conn \in [Conns -> ConnType]
  BY DEF Init, ConnType
<1>5. /\ map \in [Conns -> Sockets \cup {INVALID}] /\ peers \in 0 .. NbPeers
      /\ link \in [Conns -> 0 .. peers] /\ dest \in [Peers -> Sockets \cup {INVALID}]
  BY Numbers DEF Init, NoPeer
<1>6. /\ uart \in Seq(TokenType) /\ result \in Seq(TokenType) /\ Len(uart) = 0
      /\ todo \in TaskType /\ cmd \in TaskType
  BY <1>3 DEF Init
<1>7. Tokens
  BY <1>6 DEF Tokens
<1> QED
  BY <1>2, <1>4, <1>5, <1>6, <1>7 DEF Init, Types

\* The module says one thing, or two.
LEMMA Said ==
  ASSUME Types, NEW x \in TokenType, Says(<<x>>)
  PROVE  /\ uart' \in Seq(TokenType) /\ Len(uart') = Len(uart) + 1
         /\ \A k \in 1 .. Len(uart) : uart'[k] = uart[k]
         /\ uart'[Len(uart) + 1] = x
<1> uart \in Seq(TokenType)
  BY DEF Types
<1>1. /\ uart \o <<x>> \in Seq(TokenType) /\ Len(uart \o <<x>>) = Len(uart) + 1
      /\ \A i \in 1 .. Len(uart) : (uart \o <<x>>)[i] = uart[i]
      /\ (uart \o <<x>>)[Len(uart) + 1] = x
  BY Line
<1> QED
  BY <1>1, Zenon DEF Says

\* The same for two tokens.
LEMMA SaidBoth ==
  ASSUME Types, NEW x \in TokenType, NEW y \in TokenType, Says(<<x, y>>)
  PROVE  /\ uart' \in Seq(TokenType) /\ Len(uart') = Len(uart) + 2
         /\ \A k \in 1 .. Len(uart) : uart'[k] = uart[k]
         /\ uart'[Len(uart) + 1] = x /\ uart'[Len(uart) + 2] = y
<1> uart \in Seq(TokenType)
  BY DEF Types
<1>1. /\ uart \o <<x, y>> \in Seq(TokenType) /\ Len(uart \o <<x, y>>) = Len(uart) + 2
      /\ \A i \in 1 .. Len(uart) : (uart \o <<x, y>>)[i] = uart[i]
      /\ (uart \o <<x, y>>)[Len(uart) + 1] = x /\ (uart \o <<x, y>>)[Len(uart) + 2] = y
  BY Line
<1> QED
  BY <1>1, Zenon DEF Says

\* The interrupt takes a token.
LEMMA Took ==
  ASSUME Types, Tokens, NEW a, Received(a)
  PROVE  /\ uart' \in Seq(TokenType) /\ Len(uart) > 0 /\ Len(uart') = Len(uart) - 1
         /\ \A k \in 1 .. Len(uart') : uart'[k] = uart[k + 1]
         /\ Head(uart) = uart[1] /\ uart[1].t = a /\ uart[1] \in TokenType
         /\ a \in {"closed", "ipd"} => uart[1].n \in Conns
         /\ a = "ipd" => uart[1].p \in 1 .. peers /\ uart[1].p \in Peers
<1>1. uart \in Seq(TokenType) /\ uart # <<>> /\ Head(uart).t = a /\ uart' = Tail(uart)
  BY DEF Types, Received
<1>2. /\ uart' \in Seq(TokenType) /\ Len(uart) > 0 /\ Len(uart') = Len(uart) - 1
      /\ \A k \in 1 .. Len(uart) - 1 : uart'[k] = uart[k + 1]
      /\ Head(uart) = uart[1] /\ uart[1] \in TokenType
  BY <1>1, Line
<1>3. 1 \in 1 .. Len(uart)
  BY <1>1, <1>2
<1>4. peers \in 0 .. NbPeers
  BY DEF Types
<1> QED
  BY <1>1, <1>2, <1>3, <1>4, Numbers DEF Tokens

\* What is left on the line.
LEMMA TokensLeft ==
  ASSUME Types, Tokens, NEW a, Received(a), UNCHANGED peers
  PROVE  uart' \in Seq(TokenType) /\ Tokens'
<1>1. /\ uart' \in Seq(TokenType) /\ Len(uart) > 0 /\ Len(uart') = Len(uart) - 1
      /\ \A k \in 1 .. Len(uart') : uart'[k] = uart[k + 1]
  BY Took
<1>2. Len(uart) \in Nat
  BY DEF Types
<1>3. \A k \in 1 .. Len(uart') : k + 1 \in 1 .. Len(uart)
  BY <1>1, <1>2
<1>4. Tokens'
  BY <1>1, <1>3 DEF Tokens
<1> QED
  BY <1>1, <1>4

\* What a socket may become.
LEMMA SocketIs ==
  ASSUME NEW x \in SocketType
  PROVE  /\ \A st \in {"UNUSED", "DISCONNECTED", "WAITING_ACCEPT", "CONNECTED"} :
              [x EXCEPT !.state = st] \in SocketType
         /\ \A c \in Conns \cup {INVALID} : [x EXCEPT !.conn = c] \in SocketType
         /\ \A q \in Peers : [x EXCEPT !.ring = Append(@, q)] \in SocketType
         /\ [x EXCEPT !.ring = <<>>] \in SocketType
         /\ Closed(x) \in SocketType
<1>1. ASSUME NEW y \in SocketType, NEW r \in Seq(Peers)
      PROVE  [y EXCEPT !.ring = r] \in SocketType
  BY <1>1 DEF SocketType
<1>2. \A st \in {"UNUSED", "DISCONNECTED", "WAITING_ACCEPT", "CONNECTED"} :
        [x EXCEPT !.state = st] \in SocketType
  BY DEF SocketType
<1>3. \A c \in Conns \cup {INVALID} : [x EXCEPT !.conn = c] \in SocketType
  BY DEF SocketType
<1>4. x.ring \in Seq(Peers) /\ <<>> \in Seq(Peers) /\ \A q \in Peers : Append(x.ring, q) \in Seq(Peers)
  BY DEF SocketType
<1>5. \A q \in Peers : [x EXCEPT !.ring = Append(@, q)] \in SocketType
  BY <1>1, <1>4
<1>6. [x EXCEPT !.ring = <<>>] \in SocketType
  BY <1>1, <1>4
<1>7. Closed(x) \in SocketType
  BY <1>4 DEF Closed, SocketType
<1> QED
  BY <1>2, <1>3, <1>5, <1>6, <1>7

\* The same of the table.
LEMMA TableIs ==
  ASSUME NEW f \in [Sockets -> SocketType], NEW s \in Sockets
  PROVE  /\ \A st \in {"UNUSED", "DISCONNECTED", "WAITING_ACCEPT", "CONNECTED"} :
              [f EXCEPT ![s].state = st] \in [Sockets -> SocketType]
         /\ \A c \in Conns \cup {INVALID} : [f EXCEPT ![s].conn = c] \in [Sockets -> SocketType]
         /\ [f EXCEPT ![s].ring = <<>>] \in [Sockets -> SocketType]
         /\ [f EXCEPT ![s] = Closed(@)] \in [Sockets -> SocketType]
<1>1. f[s] \in SocketType
  OBVIOUS
<1>2. \A x \in SocketType : [f EXCEPT ![s] = x] \in [Sockets -> SocketType]
  OBVIOUS
<1> QED
  BY <1>1, <1>2, SocketIs

\* _wifi_release_conn.
LEMMA ReleaseIs ==
  ASSUME Types, NEW s \in Sockets
  PROVE  /\ Release(s, sockets, map)[1] \in [Sockets -> SocketType]
         /\ Release(s, sockets, map)[2] \in [Conns -> Sockets \cup {INVALID}]
         /\ sockets[s].conn = INVALID => Release(s, sockets, map) = <<sockets, map>>
         /\ \A r \in Sockets : Release(s, sockets, map)[1][r] =
              IF r = s THEN [sockets[s] EXCEPT !.conn = INVALID] ELSE sockets[r]
         /\ \A c \in Conns : Release(s, sockets, map)[2][c] =
              IF c = sockets[s].conn THEN INVALID ELSE map[c]
<1>1. /\ sockets \in [Sockets -> SocketType] /\ sockets[s] \in SocketType
      /\ map \in [Conns -> Sockets \cup {INVALID}] /\ sockets[s].conn \in Conns \cup {INVALID}
  BY DEF Types, SocketType
<1>2. CASE sockets[s].conn = INVALID
  <2>1. Release(s, sockets, map) = <<sockets, map>>
    BY <1>2 DEF Release
  <2>2. [sockets[s] EXCEPT !.conn = INVALID] = sockets[s]
    BY <1>1, <1>2 DEF SocketType
  <2> QED
    BY <1>1, <1>2, <2>1, <2>2, Numbers
<1>3. CASE sockets[s].conn # INVALID
  <2>1. Release(s, sockets, map) = <<[sockets EXCEPT ![s].conn = INVALID],
                                     [map EXCEPT ![sockets[s].conn] = INVALID]>>
    BY <1>3 DEF Release
  <2>2. [sockets[s] EXCEPT !.conn = INVALID] \in SocketType
    BY <1>1 DEF SocketType
  <2> QED
    BY <1>1, <1>3, <2>1, <2>2
<1> QED
  BY <1>2, <1>3

\* build_cmd and send_cmd.
LEMMA IssueIs ==
  ASSUME Types, NEW k \in {"START", "SEND", "DISCONNECT", "CLOSE"}, NEW s \in Sockets,
         NEW c \in Conns \cup {INVALID}, Issue(k, s, c)
  PROVE  /\ cmd' \in TaskType /\ todo' \in TaskType
         /\ cmd'.kind = k /\ cmd'.sock = s /\ cmd'.conn = c /\ cmd'.n = cmd.n + 1
         /\ todo'.sock = s /\ todo'.conn = c /\ todo'.n = cmd'.n
         /\ todo'.kind = IF k \in {"CLOSE", "DISCONNECT"} THEN "STOP" ELSE k
         /\ todo' # NoTask
         /\ pc' = (IF k = "SEND" THEN "written" ELSE "answer")
         /\ UNCHANGED <<setup, conn, reading, result, link, uart, ret, dest, got, granted, peers>>
<1>1. cmd.n \in Nat
  BY DEF Types, TaskType
<1>2. cmd' = [kind |-> k, sock |-> s, conn |-> c, n |-> cmd.n + 1]
  BY DEF Issue
<1>3. todo' = [cmd' EXCEPT !.kind = IF k \in {"CLOSE", "DISCONNECT"} THEN "STOP" ELSE k]
  BY DEF Issue
<1>4. /\ todo'.sock = s /\ todo'.conn = c /\ todo'.n = cmd'.n
      /\ todo'.kind = IF k \in {"CLOSE", "DISCONNECT"} THEN "STOP" ELSE k
  BY <1>2, <1>3
<1>5. cmd' \in TaskType /\ todo' \in TaskType
  BY <1>1, <1>2, <1>3 DEF TaskType
<1>6. todo' # NoTask
  BY <1>4 DEF NoTask
<1> QED
  BY <1>2, <1>4, <1>5, <1>6 DEF Issue, parser, history

\* The program is done with a command.
LEMMA DoneIs ==
  ASSUME Types, Done
  PROVE  /\ cmd' \in TaskType /\ cmd'.kind = "none" /\ cmd'.n = cmd.n
         /\ pc' = "idle" /\ ret' = 0 /\ got' = NoAnswer
         /\ UNCHANGED <<setup, conn, reading, result, link, todo, uart, dest, granted, peers, sent>>
<1>1. cmd.n \in Nat
  BY DEF Types, TaskType
<1>2. cmd' = [NoTask EXCEPT !.n = cmd.n]
  BY DEF Done
<1>3. cmd' \in TaskType /\ cmd'.kind = "none" /\ cmd'.n = cmd.n
  BY <1>1, <1>2, Numbers DEF NoTask, TaskType
<1> QED
  BY <1>3 DEF Done, module, parser

\* wait_for_response takes an answer.
LEMMA TakeIs ==
  ASSUME Types, TakeAnswer \/ TakeSendOk
  PROVE  /\ result' \in Seq(TokenType) /\ result # <<>> /\ got' = result[1].n
         /\ ret' \in {0, -1} /\ (ret' = 0 => result[1].t = "ok")
         /\ pc = "answer" => pc' = "finish"
         /\ pc = "send" => pc' \in {"prompt", "finish"}
         /\ pc \in {"answer", "send"}
         /\ Len(result) = 1 => result' = <<>>
         /\ UNCHANGED <<setup, sockets, map, conn, reading, link, todo, uart, cmd, dest,
                        granted, peers>>
<1>1. result \in Seq(TokenType) /\ result # <<>>
  BY DEF Types, TakeAnswer, TakeSendOk, Take
<1>2. Head(result) = result[1] /\ Tail(result) \in Seq(TokenType) /\ <<>> \in Seq(TokenType)
  BY <1>1
<1>3. Len(result) = 1 => Tail(result) = <<>>
  <2> DEFINE r == Tail(result)
  <2>1. Len(result) = 1 => Len(r) = 0
    BY <1>1
  <2>2. r \in Seq(TokenType)
    BY <1>2
  <2> HIDE DEF r
  <2>3. Len(r) = 0 => r = <<>>
    BY <2>2
  <2> QED
    BY <2>1, <2>3 DEF r
<1>4. result' \in {<<>>, Tail(result)}
  BY DEF TakeAnswer, TakeSendOk, Cut
<1>5. /\ got' = result[1].n
      /\ UNCHANGED <<setup, sockets, map, conn, reading, link, todo, uart, cmd, dest,
                     granted, peers>>
  BY <1>2 DEF TakeAnswer, TakeSendOk, Take, module
<1>6. /\ ret' \in {0, -1} /\ (ret' = 0 => result[1].t = "ok")
      /\ pc = "answer" => pc' = "finish"
      /\ pc = "send" => pc' \in {"prompt", "finish"}
      /\ pc \in {"answer", "send"}
  BY <1>2 DEF TakeAnswer, TakeSendOk, TakesOk
<1> QED
  BY <1>1, <1>2, <1>3, <1>4, <1>5, <1>6

\* The first unused, waiting or initialized socket, and the first free connection.
LEMMA FirstFound ==
  /\ \A st : SocketsIn(st) # {} => Min(SocketsIn(st)) \in SocketsIn(st)
  /\ Initialized # {} => Min(Initialized) \in Initialized
  /\ {c \in Conns : map[c] = INVALID} # {} =>
       Min({c \in Conns : map[c] = INVALID}) \in {c \in Conns : map[c] = INVALID}
<1>1. /\ \A st : SocketsIn(st) \in SUBSET Nat
      /\ Initialized \in SUBSET Nat /\ {c \in Conns : map[c] = INVALID} \in SUBSET Nat
  BY Numbers DEF SocketsIn, Initialized
<1> QED
  BY <1>1, FirstOf

\* What the module may say to the command it has to answer.
LEMMA AnswerIs ==
  ASSUME Types, Answer
  PROVE  /\ todo # NoTask /\ todo' = NoTask
         /\ UNCHANGED <<setup, held, sockets, map, conn, reading, result, pc, cmd, ret, got>>
         /\ \/ /\ todo.kind = "START" /\ link[todo.conn] = NoPeer
               /\ peers' = peers + 1 /\ peers < NbPeers
               /\ link' = [link EXCEPT ![todo.conn] = peers']
               /\ dest' = [dest EXCEPT ![peers'] = todo.sock]
               /\ granted' = todo.n
               /\ Says(<<Token("ok", todo.n)>>)
            \/ /\ UNCHANGED <<link, dest, granted, peers>>
               /\ Says(<<Token("error", todo.n)>>)
            \/ /\ todo.kind = "STOP" /\ todo.conn \in Conns /\ link[todo.conn] # NoPeer
               /\ link' = [link EXCEPT ![todo.conn] = NoPeer]
               /\ Says(<<Token("closed", todo.conn), Token("ok", todo.n)>>)
               /\ UNCHANGED <<dest, granted, peers>>
            \/ /\ UNCHANGED <<link, dest, granted, peers>>
               /\ todo.kind \in {"SEND", "PAYLOAD"}
               /\ \/ Says(<<Token("ok", todo.n), Token("prompt", todo.n)>>)
                  \/ Says(<<Token("ok", todo.n)>>)
  BY DEF Answer, AnswerStart, AnswerStop, AnswerSend, host, parser, NoTask

\* Every step keeps what the module knows in its range.
LEMMA AnswerType ==
  ASSUME Types, Tokens, Answer PROVE Types' /\ Tokens'
<1>1. /\ todo \in TaskType /\ todo.n \in Int /\ todo.conn \in Conns \cup {INVALID}
      /\ todo.sock \in Sockets /\ peers \in 0 .. NbPeers /\ link \in [Conns -> 0 .. peers]
      /\ dest \in [Peers -> Sockets \cup {INVALID}] /\ Len(uart) \in Nat
  BY DEF Types, TaskType
<1>2. NoTask \in TaskType /\ \A c \in Conns : c \in Int
  BY Numbers DEF NoTask, TaskType
<1>3. /\ \A a \in {"ok", "error", "prompt"} : Token(a, todo.n) \in TokenType /\ Token(a, todo.n).t = a
      /\ \A c \in Conns : Token("closed", c) \in TokenType /\ Token("closed", c).t = "closed"
                          /\ Token("closed", c).n = c
  BY <1>1, <1>2, Numbers DEF Token, TokenType, NoPeer
<1>4. todo' \in TaskType
  BY <1>2, AnswerIs
<1>5. peers' \in 0 .. NbPeers /\ peers' >= peers /\ link' \in [Conns -> 0 .. peers']
      /\ dest' \in [Peers -> Sockets \cup {INVALID}]
  <2>1. CASE UNCHANGED peers
    BY <1>1, <2>1, AnswerIs DEF NoPeer
  <2>2. CASE /\ peers' = peers + 1 /\ peers < NbPeers
             /\ link' = [link EXCEPT ![todo.conn] = peers']
             /\ dest' = [dest EXCEPT ![peers'] = todo.sock]
    <3>1. peers' \in 0 .. NbPeers /\ peers' >= peers
      BY <1>1, <2>2, Numbers
    <3>2. link \in [Conns -> 0 .. peers'] /\ peers' \in 0 .. peers'
      BY <1>1, <3>1
    <3> QED
      BY <1>1, <2>2, <3>1, <3>2
  <2> QED
    BY <2>1, <2>2, AnswerIs
<1>6. /\ uart' \in Seq(TokenType) /\ Len(uart') \in {Len(uart) + 1, Len(uart) + 2}
      /\ \A k \in 1 .. Len(uart) : uart'[k] = uart[k]
      /\ \A k \in {Len(uart) + 1, Len(uart) + 2} : k <= Len(uart') =>
           /\ uart'[k].t # "ipd"
           /\ uart'[k].t = "closed" => uart'[k].n \in Conns
  <2>1. ASSUME NEW x \in TokenType, Says(<<x>>), x.t \in {"ok", "error"}
        PROVE  <1>6!:
    BY <1>1, <2>1, Said
  <2>2. ASSUME NEW x \in TokenType, NEW y \in TokenType, Says(<<x, y>>),
               x.t = "ok" \/ (x.t = "closed" /\ x.n \in Conns), y.t \in {"ok", "prompt"}
        PROVE  <1>6!:
    BY <1>1, <2>2, SaidBoth
  <2>3. \/ Says(<<Token("ok", todo.n)>>) \/ Says(<<Token("error", todo.n)>>)
        \/ Says(<<Token("ok", todo.n), Token("prompt", todo.n)>>)
        \/ todo.conn \in Conns /\ Says(<<Token("closed", todo.conn), Token("ok", todo.n)>>)
    BY AnswerIs, Zenon
  <2> QED
    BY <1>3, <2>1, <2>2, <2>3
<1>7. Tokens'
  <2>1. \A k \in 1 .. Len(uart') :
          k \in 1 .. Len(uart) \/ (k \in {Len(uart) + 1, Len(uart) + 2} /\ k <= Len(uart'))
    BY <1>1, <1>6 DEF Types
  <2>2. peers \in Nat /\ peers' \in Nat /\ peers <= peers'
    BY <1>5, Numbers DEF Types
  <2>3. ASSUME NEW k \in 1 .. Len(uart')
        PROVE  /\ uart'[k].t \in {"closed", "ipd"} => uart'[k].n \in Conns
               /\ uart'[k].t = "ipd" => uart'[k].p \in 1 .. peers'
    <3>1. CASE k \in 1 .. Len(uart)
      BY <1>6, <2>2, <3>1 DEF Tokens
    <3> QED
      BY <1>6, <2>1, <3>1
  <2> QED
    BY <2>3 DEF Tokens
<1> QED
  BY <1>4, <1>5, <1>6, <1>7, AnswerIs DEF Types

\* The socket a payload gets, a new one of the backlog of a server included.
PayloadSocket(c) == IF conn[c].active THEN conn[c].cb ELSE NewConnection(c)
Binds(c) == ~conn[c].active /\ map[c] = INVALID /\ PayloadSocket(c) # INVALID
Bound(s, c) == [sockets EXCEPT ![s].state = "WAITING_ACCEPT", ![s].conn = c]

\* What RxPayload does, its local definitions expanded.
LEMMA PayloadIs ==
  ASSUME Types, Tokens, RxPayload,
         NEW c, NEW q, NEW s, c = uart[1].n, q = uart[1].p, s = PayloadSocket(c)
  PROVE  /\ Received("ipd") /\ c \in Conns /\ q \in Peers /\ q \in 1 .. peers
         /\ s \in Sockets \cup {INVALID}
         /\ map' = IF Binds(c) THEN [map EXCEPT ![c] = s] ELSE map
         /\ conn' = [conn EXCEPT ![c] = [active |-> s # INVALID, cb |-> s]]
         /\ sockets' = IF Binds(c) THEN Bound(s, c) ELSE sockets
         /\ dest' = IF dest[q] = INVALID THEN [dest EXCEPT ![q] = s] ELSE dest
         /\ reading' = [conn |-> c, p |-> q]
         /\ UNCHANGED <<setup, held, result, link, todo, pc, cmd, ret, got, granted, peers, sent>>
<1>1. Received("ipd")
  BY DEF RxPayload
<1>2. Head(uart) = uart[1] /\ c \in Conns /\ q \in Peers /\ q \in 1 .. peers
  BY <1>1, Took
<1>3. s \in Sockets \cup {INVALID}
  BY <1>2, FirstFound, Numbers DEF PayloadSocket, NewConnection, Types, ConnType, Initialized
<1>4. /\ map' = IF Binds(c) THEN [map EXCEPT ![c] = s] ELSE map
      /\ conn' = [conn EXCEPT ![c] = [active |-> s # INVALID, cb |-> s]]
      /\ dest' = IF dest[q] = INVALID THEN [dest EXCEPT ![q] = s] ELSE dest
      /\ reading' = [conn |-> c, p |-> q]
      /\ UNCHANGED <<setup, held, result, link, todo, pc, cmd, ret, got, granted, peers, sent>>
  BY <1>2 DEF RxPayload, PayloadSocket, Binds
<1>5. sockets' = IF Binds(c) THEN Bound(s, c) ELSE sockets
  BY <1>2 DEF RxPayload, PayloadSocket, Binds, Bound
<1> QED
  BY <1>1, <1>2, <1>3, <1>4, <1>5

\* It leaves the tables in their ranges.
LEMMA PayloadType ==
  ASSUME Types, Tokens, RxPayload PROVE Types' /\ Tokens'
<1>0. PICK c, q, s : c = uart[1].n /\ q = uart[1].p /\ s = PayloadSocket(c)
  OBVIOUS
<1>1. /\ c \in Conns /\ q \in Peers /\ s \in Sockets \cup {INVALID} /\ Received("ipd")
  BY <1>0, PayloadIs
<1>2. /\ map' \in [Conns -> Sockets \cup {INVALID}] /\ conn' \in [Conns -> ConnType]
      /\ dest' \in [Peers -> Sockets \cup {INVALID}]
  <2>1. map' = (IF Binds(c) THEN [map EXCEPT ![c] = s] ELSE map)
        /\ conn' = [conn EXCEPT ![c] = [active |-> s # INVALID, cb |-> s]]
        /\ dest' = (IF dest[q] = INVALID THEN [dest EXCEPT ![q] = s] ELSE dest)
    BY <1>0, PayloadIs
  <2>2. [active |-> s # INVALID, cb |-> s] \in ConnType
    BY <1>1 DEF ConnType
  <2> QED
    BY <1>1, <2>1, <2>2 DEF Types
<1>3. sockets' \in [Sockets -> SocketType]
  <2>1. sockets' = IF Binds(c) THEN Bound(s, c) ELSE sockets
    BY <1>0, PayloadIs
  <2>2. sockets \in [Sockets -> SocketType]
    BY DEF Types
  <2>3. Bound(s, c) \in [Sockets -> SocketType]
    BY <1>1, <2>2 DEF Bound, SocketType
  <2> QED
    BY <2>1, <2>2, <2>3
<1>4. Tokens' /\ uart' \in Seq(TokenType)
  <2>1. UNCHANGED peers
    BY <1>0, PayloadIs
  <2> QED
    BY <1>1, <2>1, TokensLeft
<1> QED
  BY <1>0, <1>2, <1>3, <1>4, PayloadIs DEF Types

\* Every step keeps the types.
LEMMA TypeStep ==
  ASSUME Types, Tokens, Reads, [Next]_vars PROVE Types' /\ Tokens'
<1> USE DEF host, module, parser, history
<1>0. /\ sockets \in [Sockets -> SocketType] /\ map \in [Conns -> Sockets \cup {INVALID}]
      /\ conn \in [Conns -> ConnType] /\ link \in [Conns -> 0 .. peers]
      /\ peers \in 0 .. NbPeers /\ cmd \in TaskType /\ todo \in TaskType
      /\ \A s \in Sockets : sockets[s] \in SocketType /\ sockets[s].conn \in Conns \cup {INVALID}
      /\ cmd.sock \in Sockets /\ NoTask \in TaskType
      /\ uart \in Seq(TokenType) /\ Len(uart) \in Nat
  <2>1. NoTask \in TaskType
    BY Numbers DEF NoTask, TaskType
  <2> QED
    BY <2>1 DEF Types, SocketType, TaskType
<1>1. CASE Open
  <2>1. PICK s \in Sockets : sockets' = [sockets EXCEPT ![s].state = "DISCONNECTED"]
    BY <1>1, FirstFound DEF Open, SocketsIn
  <2>2. sockets' \in [Sockets -> SocketType]
    BY <1>0, <2>1, TableIs
  <2>3. Done /\ UNCHANGED map
    BY <1>1 DEF Open
  <2> QED
    BY <2>2, <2>3, DoneIs DEF Types, Tokens
<1>2. CASE Accept
  <2>1. PICK s \in Sockets : sockets' = [sockets EXCEPT ![s].state = "CONNECTED"]
    BY <1>2, FirstFound DEF Accept, SocketsIn
  <2>2. sockets' \in [Sockets -> SocketType]
    BY <1>0, <2>1, TableIs
  <2>3. Done /\ UNCHANGED map
    BY <1>2 DEF Accept
  <2> QED
    BY <2>2, <2>3, DoneIs DEF Types, Tokens
<1>3. ASSUME NEW s \in Sockets, Connect(s) PROVE Types' /\ Tokens'
  <2>1. PICK c \in Conns : /\ map' = [map EXCEPT ![c] = s]
                           /\ sockets' = [sockets EXCEPT ![s].conn = c]
                           /\ Issue("START", s, c)
    BY <1>3, FirstFound DEF Connect
  <2>2. sockets' \in [Sockets -> SocketType] /\ map' \in [Conns -> Sockets \cup {INVALID}]
    BY <1>0, <2>1, TableIs
  <2> QED
    BY <2>1, <2>2, IssueIs DEF Types, Tokens
<1>4. ASSUME NEW s \in Sockets, Close(s) PROVE Types' /\ Tokens'
  <2>1. sockets' \in [Sockets -> SocketType]
    BY <1>0, <1>4, TableIs DEF Close
  <2> QED
    BY <1>4, <2>1, DoneIs DEF Close, Types, Tokens
<1>5. ASSUME NEW s \in Sockets, Send(s) PROVE Types' /\ Tokens'
  BY <1>0, <1>5, IssueIs DEF Send, Types, Tokens
<1>6. ASSUME NEW s \in Sockets, Recv(s) PROVE Types' /\ Tokens'
  <2>1. sockets' \in [Sockets -> SocketType]
    BY <1>0, <1>6, TableIs DEF Recv
  <2> QED
    BY <1>6, <2>1, DoneIs DEF Recv, Types, Tokens
<1>7. ASSUME NEW s \in Sockets, NEW k \in {"DISCONNECT", "CLOSE"}, Disconnect(s, k)
      PROVE  Types' /\ Tokens'
  BY <1>0, <1>7, IssueIs DEF Disconnect, Types, Tokens
<1>8. CASE TakeAnswer
  BY <1>8, TakeIs DEF Types, Tokens
<1>9. CASE TakeSendOk
  BY <1>9, TakeIs DEF Types, Tokens
<1>10. CASE WritePayload
  <2>1. todo' \in TaskType
    BY <1>0, <1>10 DEF WritePayload, TaskType
  <2> QED
    BY <1>10, <2>1 DEF WritePayload, Types, Tokens
<1>11. CASE Timeout
  BY <1>11 DEF Timeout, Types, Tokens
<1>12. CASE Connected
  <2>1. sockets' \in [Sockets -> SocketType] /\ map' \in [Conns -> Sockets \cup {INVALID}]
    <3>1. CASE ret = 0
      <4>1. sockets' = [sockets EXCEPT ![cmd.sock].state = "CONNECTED"] /\ UNCHANGED map
        BY <1>12, <3>1 DEF Connected
      <4> QED
        BY <1>0, <4>1, TableIs
    <3>2. CASE ret # 0
      <4>1. PICK r : r = Release(cmd.sock, sockets, map) /\ sockets' = r[1] /\ map' = r[2]
        BY <1>12, <3>2 DEF Connected
      <4> QED
        BY <1>0, <4>1, ReleaseIs
    <3> QED
      BY <3>1, <3>2
  <2> QED
    BY <1>12, <2>1, DoneIs DEF Connected, Types, Tokens
<1>13. CASE Disconnected
  <2>1. sockets' \in [Sockets -> SocketType] /\ map' \in [Conns -> Sockets \cup {INVALID}]
    <3>1. CASE ret = 0
      <4>1. PICK r : /\ r = Release(cmd.sock, sockets, map)
                     /\ sockets' = [r[1] EXCEPT ![cmd.sock] =
                                      IF cmd.kind = "CLOSE" THEN Closed(@)
                                      ELSE [@ EXCEPT !.state = "DISCONNECTED"]]
                     /\ map' = r[2]
        BY <1>13, <3>1 DEF Disconnected
      <4>2. r[1] \in [Sockets -> SocketType] /\ r[2] \in [Conns -> Sockets \cup {INVALID}]
        BY <1>0, <4>1, ReleaseIs
      <4>3. CASE cmd.kind = "CLOSE"
        BY <1>0, <4>1, <4>2, <4>3, TableIs
      <4>4. CASE cmd.kind # "CLOSE"
        BY <1>0, <4>1, <4>2, <4>4, TableIs
      <4> QED
        BY <4>3, <4>4
    <3>2. CASE ret # 0
      BY <1>0, <1>13, <3>2 DEF Disconnected
    <3> QED
      BY <3>1, <3>2
  <2> QED
    BY <1>13, <2>1, DoneIs DEF Disconnected, Types, Tokens
<1>14. CASE SendReturns
  BY <1>14, DoneIs DEF SendReturns, Types, Tokens
<1>15. CASE RxPayload
  BY <1>15, PayloadType
<1>16. CASE RxClosed
  <2>1. PICK c, s : c = uart[1].n /\ s = map[c] /\ c \in Conns /\ s \in Sockets \cup {INVALID}
    BY <1>0, <1>16, Took DEF RxClosed
  <2>2. Received("closed") /\ Head(uart) = uart[1]
    BY <1>16, Took DEF RxClosed
  <2>3. conn' \in [Conns -> ConnType]
    BY <1>0, <1>16, Numbers DEF RxClosed, Inactive, ConnType
  <2>4. sockets' \in [Sockets -> SocketType] /\ map' \in [Conns -> Sockets \cup {INVALID}]
    <3>1. CASE s = INVALID
      BY <1>0, <1>16, <2>1, <2>2, <3>1 DEF RxClosed
    <3>2. CASE s # INVALID
      <4>1. PICK r : /\ r = Release(s, sockets, map)
                     /\ sockets' = [r[1] EXCEPT ![s].state = "DISCONNECTED"]
                     /\ map' = r[2]
        BY <1>16, <2>1, <2>2, <3>2 DEF RxClosed
      <4>2. r[1] \in [Sockets -> SocketType] /\ r[2] \in [Conns -> Sockets \cup {INVALID}]
        BY <2>1, <3>2, <4>1, ReleaseIs
      <4> QED
        BY <2>1, <3>2, <4>1, <4>2, TableIs
    <3> QED
      BY <3>1, <3>2
  <2>5. uart' \in Seq(TokenType) /\ Tokens'
    BY <1>16, <2>2, TokensLeft DEF RxClosed
  <2> QED
    BY <1>16, <2>3, <2>4, <2>5 DEF RxClosed, Types
<1>17. CASE RxPrompt
  <2>1. uart' \in Seq(TokenType) /\ Tokens'
    BY <1>17, TokensLeft DEF RxPrompt
  <2> QED
    BY <1>17, <2>1 DEF RxPrompt, Types
<1>18. CASE RxAnswer
  <2>1. PICK a \in {"ok", "error"} : Received(a)
    BY <1>18 DEF RxAnswer
  <2>2. uart' \in Seq(TokenType) /\ Tokens'
    BY <1>18, <2>1, TokensLeft DEF RxAnswer
  <2>3. result' \in Seq(TokenType)
    <3>1. Head(uart) \in TokenType /\ result \in Seq(TokenType) /\ <<>> \in Seq(TokenType)
      BY <2>1, Took DEF Types
    <3>2. PICK x \in TokenType : result' = <<>> \/ result' = Append(result, x)
      BY <1>18, <3>1 DEF RxAnswer
    <3>3. Append(result, x) \in Seq(TokenType)
      BY <3>1, <3>2
    <3> QED
      BY <3>1, <3>2, <3>3
  <2> QED
    BY <1>18, <2>2, <2>3 DEF RxAnswer, Types
<1>19. CASE Answer
  BY <1>19, AnswerType
<1>20. CASE Lose
  BY <1>0, <1>20 DEF Lose, Types, Tokens
<1>21. ASSUME NEW c \in Conns, PeerCloses(c) PROVE Types' /\ Tokens'
  <2>1. Token("closed", c) \in TokenType /\ Token("closed", c).t = "closed" /\ Token("closed", c).n = c
    BY Numbers DEF Token, TokenType, NoPeer
  <2>2. Says(<<Token("closed", c)>>) /\ link' = [link EXCEPT ![c] = NoPeer] /\ UNCHANGED peers
    BY <1>21 DEF PeerCloses
  <2>3. /\ uart' \in Seq(TokenType) /\ Len(uart') = Len(uart) + 1
        /\ \A k \in 1 .. Len(uart) : uart'[k] = uart[k]
        /\ uart'[Len(uart) + 1] = Token("closed", c)
    BY <2>1, <2>2, Said
  <2>4. ASSUME NEW k \in 1 .. Len(uart')
        PROVE  /\ uart'[k].t \in {"closed", "ipd"} => uart'[k].n \in Conns
               /\ uart'[k].t = "ipd" => uart'[k].p \in 1 .. peers'
    <3>1. CASE k \in 1 .. Len(uart)
      BY <2>2, <2>3, <3>1 DEF Tokens
    <3>2. CASE k = Len(uart) + 1
      BY <2>1, <2>3, <3>2
    <3> QED
      BY <1>0, <2>3, <3>1, <3>2
  <2>5. uart' \in Seq(TokenType) /\ Tokens'
    BY <2>3, <2>4 DEF Tokens
  <2>6. link' \in [Conns -> 0 .. peers']
    BY <1>0, <2>2 DEF NoPeer
  <2> QED
    BY <1>21, <2>5, <2>6 DEF PeerCloses, Types
<1>22. ASSUME NEW c \in Conns, PeerSends(c) PROVE Types' /\ Tokens'
  <2>1. PICK x : x = [Token("ipd", c) EXCEPT !.p = link[c]] /\ Says(<<x>>)
    BY <1>22 DEF PeerSends
  <2>2. link[c] \in 1 .. peers /\ link[c] \in 0 .. NbPeers /\ c \in Int
    BY <1>0, <1>22, Numbers DEF PeerSends, NoPeer
  <2>3. x \in TokenType /\ x.t = "ipd" /\ x.n = c /\ x.p = link[c]
    BY <2>1, <2>2, Numbers DEF Token, TokenType, NoPeer
  <2>4. UNCHANGED peers
    BY <1>22 DEF PeerSends
  <2>5. /\ uart' \in Seq(TokenType) /\ Len(uart') = Len(uart) + 1
        /\ \A k \in 1 .. Len(uart) : uart'[k] = uart[k]
        /\ uart'[Len(uart) + 1] = x
    BY <2>1, <2>3, Said
  <2>6. Tokens'
    <3>1. ASSUME NEW k \in 1 .. Len(uart')
          PROVE  /\ uart'[k].t \in {"closed", "ipd"} => uart'[k].n \in Conns
                 /\ uart'[k].t = "ipd" => uart'[k].p \in 1 .. peers'
      <4>1. CASE k \in 1 .. Len(uart)
        BY <2>4, <2>5, <4>1 DEF Tokens
      <4>2. CASE k = Len(uart) + 1
        BY <2>2, <2>3, <2>4, <2>5, <4>2
      <4> QED
        BY <1>0, <2>5, <4>1, <4>2
    <3> QED
      BY <3>1 DEF Tokens
  <2> QED
    BY <1>22, <2>5, <2>6 DEF PeerSends, Types
<1>23. ASSUME NEW c \in Conns, PeerConnects(c) PROVE Types' /\ Tokens'
  <2>1. /\ peers < NbPeers /\ peers' = peers + 1 /\ link' = [link EXCEPT ![c] = peers']
        /\ UNCHANGED uart
    BY <1>23 DEF PeerConnects
  <2>2. peers' \in 0 .. NbPeers /\ link \in [Conns -> 0 .. peers'] /\ peers' \in 0 .. peers'
    BY <1>0, <2>1, Numbers
  <2>3. link' \in [Conns -> 0 .. peers'] /\ Tokens'
    BY <1>0, <2>1, <2>2 DEF Tokens
  <2> QED
    BY <1>23, <2>2, <2>3 DEF PeerConnects, Types
<1>24. CASE UNCHANGED vars
  BY <1>24 DEF vars, Types, Tokens
<1>25. CASE WaitingSend
  BY <1>25 DEF WaitingSend, Types, Tokens
<1>26. CASE UartError
  BY <1>26 DEF UartError, Types, Tokens
<1>27. ASSUME reading # NoPayload PROVE Stored \in [Sockets -> SocketType]
  <2>1. reading.p \in Peers
    BY <1>0, <1>27, Numbers DEF Reads
  <2>2. \A s \in Sockets : [sockets[s] EXCEPT !.ring = Append(@, reading.p)] \in SocketType
    BY <1>0, <2>1, SocketIs
  <2> QED
    BY <1>0, <2>2 DEF Stored
<1>28. CASE RxPayloadEnd
  BY <1>27, <1>28 DEF RxPayloadEnd, Types, Tokens
<1>29. CASE RxOverwritten \/ RxBroken
  <2>1. sockets' \in [Sockets -> SocketType]
    BY <1>0, <1>27, <1>29 DEF RxOverwritten, RxBroken
  <2>2. AsText
    BY <1>29 DEF RxOverwritten, RxBroken
  <2>3. result' \in Seq(TokenType)
    <3>1. \A t \in {"ok", "error"} : Token(t, STRAY) \in TokenType
      BY Numbers DEF Token, TokenType, STRAY, NoPeer
    <3>2. result \in Seq(TokenType)
      BY DEF Types
    <3>3. \A t \in {"ok", "error"} : Append(result, Token(t, STRAY)) \in Seq(TokenType)
      BY <3>1, <3>2
    <3> QED
      BY <2>2, <3>2, <3>3 DEF AsText
  <2> QED
    BY <2>1, <2>2, <2>3 DEF AsText, Types, Tokens
<1> QED
  BY <1>1, <1>2, <1>3, <1>4, <1>5, <1>6, <1>7, <1>8, <1>9, <1>10, <1>11, <1>12, <1>13,
     <1>14, <1>15, <1>16, <1>17, <1>18, <1>19, <1>20, <1>21, <1>22, <1>23, <1>24, <1>25,
     <1>26, <1>28, <1>29
  DEF Next, Calls, Wait, Rx, Environment

\* What most steps leave alone.
LEMMA KeepStep ==
  ASSUME Types, [Next]_vars
  PROVE  /\ spoiled \subseteq spoiled'
         /\ peers' = peers \/ peers' = peers + 1
         /\ reading' \in {reading, NoPayload} \/ RxPayload
<1> USE DEF host, module, parser, history
<1>1. CASE Calls
  BY <1>1 DEF Calls, Open, Accept, Connect, Close, Send, Recv, Disconnect, Done, Issue
<1>2. CASE Wait
  BY <1>2 DEF Wait, WaitingSend, TakeAnswer, TakeSendOk, Take, WritePayload, Timeout, Connected,
              Disconnected, SendReturns, Done
<1>3. CASE Rx
  BY <1>3 DEF Rx, RxPayload, RxPayloadEnd, RxOverwritten, RxBroken, AsText, RxClosed, RxPrompt,
              RxAnswer
<1>4. CASE Answer \/ Lose
  BY <1>4 DEF Answer, AnswerStart, AnswerStop, AnswerSend, Lose
<1>5. CASE Environment
  BY <1>5 DEF Environment, UartError, PeerCloses, PeerSends, PeerConnects
<1>6. CASE UNCHANGED vars
  BY <1>6 DEF vars
<1> QED
  BY <1>1, <1>2, <1>3, <1>4, <1>5, <1>6 DEF Next

\* The payload that is read is one of a peer.
LEMMA ReadsStep ==
  ASSUME Types, Tokens, Reads, [Next]_vars PROVE Reads'
<1>1. CASE RxPayload
  <2>1. PICK c, q, s : c = uart[1].n /\ q = uart[1].p /\ s = PayloadSocket(c)
    OBVIOUS
  <2>2. c \in Conns /\ q \in 1 .. peers /\ reading' = [conn |-> c, p |-> q] /\ UNCHANGED peers
    BY <1>1, <2>1, PayloadIs
  <2> QED
    BY <2>2 DEF Reads
<1>2. CASE reading' \in {reading, NoPayload}
  <2>1. peers \in Nat /\ (peers' = peers \/ peers' = peers + 1)
    BY KeepStep, Numbers DEF Types
  <2> QED
    BY <1>2, <2>1 DEF Reads
<1> QED
  BY <1>1, <1>2, KeepStep

-----------------------------------------------------------------------------
(* EveryAnswerMatches *)

\* No answer is added to the line, and those there are move up at most.
LEMMA OtherTokens ==
  ASSUME Types, OneAnswer, EveryAnswerMatches, NEW e \in {0, 1},
         \A k \in 1 .. Len(uart') : uart'[k].t \in {"ok", "error"} =>
           k + e \in 1 .. Len(uart) /\ uart'[k] = uart[k + e],
         UNCHANGED <<todo, result, pc, cmd, got>>, Len(uart') \in Nat
  PROVE  OneAnswer' /\ EveryAnswerMatches'
<1>1. ASSUME NEW k \in 1 .. Len(uart'), IsAnswer(k)'
      PROVE  /\ uart'[k].n = cmd.n /\ pc \in {"answer", "written", "send"} /\ todo = NoTask /\ result = <<>>
             /\ \A j \in 1 .. Len(uart') : IsAnswer(j)' => j = k
  <2>1. k + e \in 1 .. Len(uart) /\ uart'[k] = uart[k + e] /\ IsAnswer(k + e)
    BY <1>1 DEF IsAnswer
  <2>2. ASSUME NEW j \in 1 .. Len(uart'), IsAnswer(j)' PROVE j = k
    <3>1. j + e \in 1 .. Len(uart) /\ IsAnswer(j + e)
      BY <2>2 DEF IsAnswer
    <3>2. j + e = k + e
      BY <2>1, <3>1 DEF OneAnswer
    <3> QED
      BY <3>2
  <2> QED
    BY <2>1, <2>2 DEF OneAnswer
<1>2. OneAnswer'
  BY <1>1 DEF OneAnswer
<1> QED
  BY <1>2 DEF EveryAnswerMatches

\* The module answers once, and in time.
LEMMA GivesAnswer ==
  ASSUME AnswerInv, Answer PROVE OneAnswer' /\ EveryAnswerMatches'
<1>1. /\ todo # NoTask /\ todo' = NoTask /\ UNCHANGED <<result, pc, cmd, got>>
  BY AnswerIs DEF AnswerInv
<1>2. /\ todo.n = cmd.n /\ pc \in {"answer", "written", "send"} /\ result = <<>>
      /\ \A k \in 1 .. Len(uart) : ~IsAnswer(k)
  BY <1>1 DEF AnswerInv, OneAnswer
<1>3. Types /\ Len(uart) \in Nat /\ todo.n \in Int
  BY DEF AnswerInv, Types, TaskType
<1>4. \E i \in {Len(uart) + 1, Len(uart) + 2} :
        \A k \in 1 .. Len(uart') : IsAnswer(k)' => k = i /\ uart'[k].n = todo.n
  <2>1. ASSUME NEW x \in TokenType, Says(<<x>>), x.n = todo.n
        PROVE  \A k \in 1 .. Len(uart') : IsAnswer(k)' => k = Len(uart) + 1 /\ uart'[k].n = todo.n
    BY <1>2, <1>3, <2>1, Said DEF IsAnswer
  <2>2. ASSUME NEW x \in TokenType, NEW y \in TokenType, Says(<<x, y>>), x.t = "closed",
               y.n = todo.n
        PROVE  \A k \in 1 .. Len(uart') : IsAnswer(k)' => k = Len(uart) + 2 /\ uart'[k].n = todo.n
    BY <1>2, <1>3, <2>2, SaidBoth DEF IsAnswer
  <2>3. ASSUME NEW x \in TokenType, NEW y \in TokenType, Says(<<x, y>>), y.t = "prompt",
               x.n = todo.n
        PROVE  \A k \in 1 .. Len(uart') : IsAnswer(k)' => k = Len(uart) + 1 /\ uart'[k].n = todo.n
    BY <1>2, <1>3, <2>3, SaidBoth DEF IsAnswer
  <2>4. \/ Says(<<Token("ok", todo.n)>>) \/ Says(<<Token("error", todo.n)>>)
        \/ Says(<<Token("ok", todo.n), Token("prompt", todo.n)>>)
        \/ todo.conn \in Conns /\ Says(<<Token("closed", todo.conn), Token("ok", todo.n)>>)
    BY <1>3, AnswerIs, Zenon
  <2>5. /\ \A a \in {"ok", "error", "prompt"} :
             Token(a, todo.n) \in TokenType /\ Token(a, todo.n).t = a /\ Token(a, todo.n).n = todo.n
        /\ todo.conn \in Conns =>
             Token("closed", todo.conn) \in TokenType /\ Token("closed", todo.conn).t = "closed"
    <3>1. \A n \in Int : \A a \in {"ok", "error", "prompt", "closed"} :
            Token(a, n) \in TokenType /\ Token(a, n).t = a /\ Token(a, n).n = n
      BY Numbers DEF Token, TokenType, NoPeer
    <3>2. \A c \in Conns : c \in Int
      BY Numbers
    <3> QED
      BY <1>3, <3>1, <3>2
  <2> QED
    BY <2>1, <2>2, <2>3, <2>4, <2>5
<1>5. OneAnswer'
  BY <1>1, <1>2, <1>4 DEF OneAnswer, IsAnswer
<1> QED
  BY <1>1, <1>2, <1>5 DEF EveryAnswerMatches

\* Every step keeps OneAnswer and EveryAnswerMatches as long as all is calm.
LEMMA AnswerStep ==
  ASSUME AnswerInv, [Next]_vars, Calm' PROVE OneAnswer' /\ EveryAnswerMatches'
<1> USE DEF host, module, parser, history
<1>0. /\ Types /\ Tokens /\ OneAnswer /\ EveryAnswerMatches
      /\ Len(uart) \in Nat /\ uart \in Seq(TokenType) /\ result \in Seq(TokenType)
  BY DEF AnswerInv, Types
<1>1. ASSUME NEW k \in {"START", "SEND", "DISCONNECT", "CLOSE"}, NEW s \in Sockets,
             NEW c \in Conns \cup {INVALID}, Idle, Issue(k, s, c)
      PROVE  OneAnswer' /\ EveryAnswerMatches'
  <2>1. /\ todo'.n = cmd'.n /\ pc' \in {"written", "answer"} /\ UNCHANGED <<result, uart>>
    BY <1>0, <1>1, IssueIs
  <2>2. result = <<>> /\ \A j \in 1 .. Len(uart) : ~IsAnswer(j)
    BY <1>0, <1>1 DEF Idle, OneAnswer
  <2> QED
    BY <2>1, <2>2 DEF OneAnswer, EveryAnswerMatches, IsAnswer
<1>2. ASSUME Done, pc \in {"idle", "finish"} PROVE OneAnswer' /\ EveryAnswerMatches'
  <2>1. todo = NoTask /\ result = <<>> /\ \A j \in 1 .. Len(uart) : ~IsAnswer(j)
    BY <1>0, <1>2 DEF OneAnswer
  <2>2. pc' = "idle" /\ UNCHANGED <<todo, result, uart>>
    BY <1>0, <1>2, DoneIs
  <2> QED
    BY <2>1, <2>2 DEF OneAnswer, EveryAnswerMatches, IsAnswer
<1>3. ASSUME TakeAnswer \/ TakeSendOk PROVE OneAnswer' /\ EveryAnswerMatches'
  <2>1. /\ result # <<>> /\ got' = result[1].n /\ pc' \in {"finish", "prompt"}
        /\ Len(result) = 1 => result' = <<>>
        /\ UNCHANGED <<todo, uart, cmd>>
    BY <1>0, <1>3, TakeIs
  <2>2. /\ result' = <<>> /\ got' = cmd.n /\ todo = NoTask
        /\ \A j \in 1 .. Len(uart) : ~IsAnswer(j)
    BY <1>0, <2>1 DEF OneAnswer
  <2> QED
    BY <2>1, <2>2 DEF OneAnswer, EveryAnswerMatches, IsAnswer
<1>4. CASE \/ Open \/ Accept \/ \E s \in Sockets : Close(s) \/ Recv(s)
  BY <1>2, <1>4 DEF Open, Accept, Close, Recv, Idle
<1>5. CASE \E s \in Sockets : \/ Connect(s) \/ Send(s)
                              \/ \E k \in {"DISCONNECT", "CLOSE"} : Disconnect(s, k)
  <2>1. \A s \in Sockets : sockets[s].conn \in Conns \cup {INVALID}
    BY <1>0 DEF Types, SocketType
  <2>2. ASSUME NEW s \in Sockets, Connect(s) PROVE OneAnswer' /\ EveryAnswerMatches'
    BY <1>1, <2>2, FirstFound DEF Connect
  <2>3. ASSUME NEW s \in Sockets, Send(s) PROVE OneAnswer' /\ EveryAnswerMatches'
    BY <1>1, <2>1, <2>3 DEF Send
  <2>4. ASSUME NEW s \in Sockets, NEW k \in {"DISCONNECT", "CLOSE"}, Disconnect(s, k)
        PROVE  OneAnswer' /\ EveryAnswerMatches'
    BY <1>1, <2>1, <2>4 DEF Disconnect
  <2> QED
    BY <1>5, <2>2, <2>3, <2>4
<1>6. CASE Connected \/ Disconnected \/ SendReturns
  BY <1>2, <1>6 DEF Connected, Disconnected, SendReturns, Returned
<1>7. CASE WaitingSend \/ UartError
  BY <1>0, <1>7 DEF WaitingSend, UartError, OneAnswer, EveryAnswerMatches, IsAnswer
<1>8. CASE WritePayload
  <2>1. /\ todo'.n = cmd.n /\ pc' = "answer" /\ UNCHANGED <<result, uart, cmd>>
    BY <1>0, <1>8 DEF WritePayload, Types, TaskType
  <2>2. result = <<>> /\ \A j \in 1 .. Len(uart) : ~IsAnswer(j)
    BY <1>0, <1>8 DEF WritePayload, OneAnswer
  <2> QED
    BY <2>1, <2>2 DEF OneAnswer, EveryAnswerMatches, IsAnswer
<1>9. CASE Timeout
  <2>1. /\ result = <<>> /\ todo = NoTask
        /\ \A k \in DOMAIN uart : uart[k].t \in {"ipd", "closed"}
    BY <1>9 DEF Timeout, Expired, Silent, Calm
  <2>2. \A k \in 1 .. Len(uart) : ~IsAnswer(k)
    BY <1>0, <2>1 DEF IsAnswer
  <2> QED
    BY <1>9, <2>1, <2>2 DEF Timeout, OneAnswer, EveryAnswerMatches, IsAnswer
<1>10. ASSUME NEW a \in {"ipd", "closed", "prompt"}, Received(a),
              UNCHANGED <<todo, result, pc, cmd, got>>
       PROVE  OneAnswer' /\ EveryAnswerMatches'
  <2>1. /\ uart' \in Seq(TokenType) /\ Len(uart) > 0 /\ Len(uart') = Len(uart) - 1
        /\ \A k \in 1 .. Len(uart') : uart'[k] = uart[k + 1]
    BY <1>0, <1>10, Took
  <2>2. \A k \in 1 .. Len(uart') : uart'[k].t \in {"ok", "error"} =>
          k + 1 \in 1 .. Len(uart) /\ uart'[k] = uart[k + 1]
    BY <1>0, <2>1
  <2>3. 1 \in {0, 1} /\ Len(uart') \in Nat
    BY <2>1
  <2> QED
    BY <1>0, <1>10, <2>2, <2>3, OtherTokens
<1>11. CASE RxPayload \/ RxClosed \/ RxPrompt
  BY <1>10, <1>11 DEF RxPayload, RxClosed, RxPrompt
<1>12. CASE RxAnswer
  <2>1. PICK a \in {"ok", "error"} : Received(a)
    BY <1>12 DEF RxAnswer
  <2>2. /\ Len(uart) > 0 /\ Len(uart') = Len(uart) - 1
        /\ \A k \in 1 .. Len(uart') : uart'[k] = uart[k + 1]
        /\ Head(uart) = uart[1] /\ uart[1].t = a /\ uart[1] \in TokenType
    BY <1>0, <2>1, Took
  <2>3. 1 \in 1 .. Len(uart) /\ IsAnswer(1)
    BY <1>0, <2>2 DEF IsAnswer
  <2>4. /\ result = <<>> /\ todo = NoTask /\ uart[1].n = cmd.n /\ pc \in {"answer", "written", "send"}
        /\ \A j \in 1 .. Len(uart) : IsAnswer(j) => j = 1
    BY <1>0, <2>3 DEF OneAnswer
  <2>5. result' # <<>> => Len(result') = 1 /\ result'[1] = uart[1]
    BY <1>12, <2>2, <2>4 DEF RxAnswer
  <2>6. \A k \in 1 .. Len(uart') : ~IsAnswer(k)'
    <3>1. ASSUME NEW k \in 1 .. Len(uart') PROVE ~IsAnswer(k)'
      <4>1. k + 1 \in 1 .. Len(uart) /\ k + 1 # 1
        BY <1>0, <2>2
      <4>2. ~IsAnswer(k + 1)
        BY <2>4, <4>1
      <4> QED
        BY <2>2, <4>2 DEF IsAnswer
    <3> QED
      BY <3>1
  <2> QED
    BY <1>12, <2>4, <2>5, <2>6 DEF RxAnswer, OneAnswer, EveryAnswerMatches
<1>13. CASE Answer
  BY <1>13, GivesAnswer
<1>14. CASE Lose
  BY <1>0, <1>14 DEF Lose, OneAnswer, EveryAnswerMatches, IsAnswer
<1>15. ASSUME NEW x \in TokenType, Says(<<x>>), x.t \in {"ipd", "closed"},
              UNCHANGED <<todo, result, pc, cmd, got>>
       PROVE  OneAnswer' /\ EveryAnswerMatches'
  <2>1. /\ Len(uart') = Len(uart) + 1
        /\ \A k \in 1 .. Len(uart) : uart'[k] = uart[k]
        /\ uart'[Len(uart) + 1] = x
    BY <1>0, <1>15, Said
  <2>2. \A k \in 1 .. Len(uart') : uart'[k].t \in {"ok", "error"} =>
          k + 0 \in 1 .. Len(uart) /\ uart'[k] = uart[k + 0]
    BY <1>0, <1>15, <2>1
  <2>3. 0 \in {0, 1} /\ Len(uart') \in Nat
    BY <1>0, <2>1
  <2> QED
    BY <1>0, <1>15, <2>2, <2>3, OtherTokens
<1>16. ASSUME NEW c \in Conns, PeerCloses(c) PROVE OneAnswer' /\ EveryAnswerMatches'
  <2>1. Token("closed", c) \in TokenType /\ Token("closed", c).t = "closed"
    BY Numbers DEF Token, TokenType, NoPeer
  <2> QED
    BY <1>15, <1>16, <2>1 DEF PeerCloses
<1>17. ASSUME NEW c \in Conns, PeerSends(c) PROVE OneAnswer' /\ EveryAnswerMatches'
  <2>1. link[c] \in 0 .. NbPeers /\ c \in Int
    BY <1>0, Numbers DEF Types
  <2>2. PICK x : x = [Token("ipd", c) EXCEPT !.p = link[c]]
    OBVIOUS
  <2>3. x \in TokenType /\ x.t = "ipd"
    BY <2>1, <2>2, Numbers DEF Token, TokenType, NoPeer
  <2> QED
    BY <1>15, <1>17, <2>2, <2>3 DEF PeerSends
<1>18. ASSUME NEW c \in Conns, PeerConnects(c) PROVE OneAnswer' /\ EveryAnswerMatches'
  BY <1>0, <1>18 DEF PeerConnects, OneAnswer, EveryAnswerMatches, IsAnswer
<1>19. CASE UNCHANGED vars
  BY <1>0, <1>19 DEF vars, OneAnswer, EveryAnswerMatches, IsAnswer
<1>20. CASE RxPayloadEnd
  BY <1>0, <1>20 DEF RxPayloadEnd, OneAnswer, EveryAnswerMatches, IsAnswer
<1>21. ~RxOverwritten /\ ~RxBroken
  BY DEF RxOverwritten, RxBroken, AsText, Calm
<1> QED
  BY <1>3, <1>4, <1>5, <1>6, <1>7, <1>8, <1>9, <1>11, <1>12, <1>13, <1>14, <1>16, <1>17, <1>18,
     <1>19, <1>20, <1>21
  DEF Next, Calls, Wait, Rx, Environment

\* What at_run_cmd acts on is the answer to the command it sent, for every number
\* of connections, peers and commands, with commands and payloads that are lost,
\* errors of the UART and a buffer that overflows, until a command is given up
\* before its answer came or text of a payload is taken for one.
THEOREM AnswersOwnCommand == Spec => []AnswersMatch
<1> DEFINE Inv == /\ Types /\ Tokens /\ Reads
                  /\ Calm => OneAnswer /\ EveryAnswerMatches
<1>1. Init => Inv
  <2>1. Init => OneAnswer /\ EveryAnswerMatches /\ Reads
    BY DEF Init, OneAnswer, EveryAnswerMatches, IsAnswer, Reads
  <2> QED
    BY <2>1, TypeInit
<1>2. Inv /\ [Next]_vars => Inv'
  <2> SUFFICES ASSUME Inv, [Next]_vars PROVE Inv'
    OBVIOUS
  <2>1. Types' /\ Tokens' /\ Reads'
    BY TypeStep, ReadsStep
  <2>2. ASSUME Calm' PROVE OneAnswer' /\ EveryAnswerMatches'
    <3>1. Calm
      BY <2>2, KeepStep DEF Calm
    <3> QED
      BY <2>2, <3>1, AnswerStep DEF AnswerInv
  <2> QED
    BY <2>1, <2>2
<1>3. Inv => AnswersMatch
  BY DEF AnswersMatch, Calm
<1> QED
  BY <1>1, <1>2, <1>3, PTL DEF Spec

-----------------------------------------------------------------------------
(* OwnPayload: the line *)

\* The line moved up by e places; it holds the same notices.
SameNotices(e) ==
  /\ \A k \in 1 .. Len(uart') : uart'[k].t = "closed" =>
       k + e \in 1 .. Len(uart) /\ uart'[k] = uart[k + e]
  /\ \A k \in 1 .. Len(uart) : uart[k].t = "closed" =>
       k - e \in 1 .. Len(uart') /\ uart'[k - e] = uart[k]

\* It holds the same payloads.
SamePayloads(e) ==
  \A k \in 1 .. Len(uart') : uart'[k].t = "ipd" =>
    k + e \in 1 .. Len(uart) /\ uart'[k] = uart[k + e]

\* What Clear says of a line that moved up.
LEMMA ClearMoves ==
  ASSUME NEW e \in {0, 1}, Len(uart) \in Nat, Len(uart') \in Nat, SameNotices(e), NEW c
  PROVE  /\ \A i, j \in Nat : Clear(i, j, c)' <=> Clear(i + e, j + e, c)
         /\ \A j \in Nat : Clear(0, j, c)' <=> Clear(0, j + e, c)
         /\ \A i \in Nat : Clear(i, End, c)' <=> Clear(i + e, End, c)
         /\ Clear(0, End, c)' <=> Clear(0, End, c)
<1>1. ASSUME NEW k \in 1 .. Len(uart'), ClosedAt(k, c)'
      PROVE  k + e \in 1 .. Len(uart) /\ ClosedAt(k + e, c)
  BY <1>1 DEF SameNotices, ClosedAt
<1>2. ASSUME NEW k \in 1 .. Len(uart), ClosedAt(k, c)
      PROVE  k - e \in 1 .. Len(uart') /\ ClosedAt(k - e, c)'
  BY <1>2 DEF SameNotices, ClosedAt
<1>3. ASSUME NEW i \in Nat, NEW j \in Nat PROVE Clear(i, j, c)' <=> Clear(i + e, j + e, c)
  <2>1. ASSUME Clear(i, j, c)' PROVE Clear(i + e, j + e, c)
    BY <1>2, <2>1 DEF Clear
  <2>2. ASSUME Clear(i + e, j + e, c) PROVE Clear(i, j, c)'
    BY <1>1, <2>2 DEF Clear
  <2> QED
    BY <2>1, <2>2
<1>4. ASSUME NEW j \in Nat PROVE Clear(0, j, c)' <=> Clear(0, j + e, c)
  <2>1. ASSUME Clear(0, j, c)' PROVE Clear(0, j + e, c)
    BY <1>2, <2>1 DEF Clear
  <2>2. ASSUME Clear(0, j + e, c) PROVE Clear(0, j, c)'
    BY <1>1, <2>2 DEF Clear
  <2> QED
    BY <2>1, <2>2
<1>5. ASSUME NEW i \in Nat PROVE Clear(i, End, c)' <=> Clear(i + e, End, c)
  <2>1. ASSUME Clear(i, End, c)' PROVE Clear(i + e, End, c)
    BY <1>2, <2>1 DEF Clear, End
  <2>2. ASSUME Clear(i + e, End, c) PROVE Clear(i, End, c)'
    BY <1>1, <2>2 DEF Clear, End
  <2> QED
    BY <2>1, <2>2
<1>6. Clear(0, End, c)' <=> Clear(0, End, c)
  <2>1. ASSUME Clear(0, End, c)' PROVE Clear(0, End, c)
    BY <1>2, <2>1 DEF Clear, End
  <2>2. ASSUME Clear(0, End, c) PROVE Clear(0, End, c)'
    BY <1>1, <2>2 DEF Clear, End
  <2> QED
    BY <2>1, <2>2
<1> QED
  BY <1>3, <1>4, <1>5, <1>6

\* Payloads keep their order and their peers.
LEMMA LineMoves ==
  ASSUME Leaving, Among, NEW e \in {0, 1}, SamePayloads(e), UNCHANGED link,
         Len(uart) \in Nat, Len(uart') \in Nat,
         \A c \in Conns : \A i, j \in Nat : Clear(i, j, c)' <=> Clear(i + e, j + e, c),
         \A c \in Conns : \A i \in Nat : Clear(i, End, c)' <=> Clear(i + e, End, c)
  PROVE  Leaving' /\ Among'
<1>1. ASSUME NEW k \in 1 .. Len(uart'), NEW c, PayloadAt(k, c)'
      PROVE  k + e \in 1 .. Len(uart) /\ PayloadAt(k + e, c) /\ uart'[k] = uart[k + e] /\ k \in Nat
  BY <1>1 DEF SamePayloads, PayloadAt
<1>2. Leaving'
  <2>1. ASSUME NEW k \in 1 .. Len(uart'), NEW c \in Conns, PayloadAt(k, c)', NEW d \in Conns
        PROVE  (link[d] = uart[k].p <=> d = c /\ Clear(k, End, c))'
    <3>1. link[d] = uart[k + e].p <=> d = c /\ Clear(k + e, End, c)
      BY <1>1, <2>1 DEF Leaving
    <3>2. Clear(k, End, c)' <=> Clear(k + e, End, c)
      BY <1>1, <2>1
    <3> QED
      BY <1>1, <2>1, <3>1, <3>2
  <2> QED
    BY <2>1 DEF Leaving
<1>3. Among'
  <2>1. ASSUME NEW i \in 1 .. Len(uart'), NEW j \in 1 .. Len(uart'), NEW c \in Conns,
               NEW d \in Conns, i < j, PayloadAt(i, c)', PayloadAt(j, d)'
        PROVE  (uart[i].p = uart[j].p <=> c = d /\ Clear(i, j, c))'
    <3>1. /\ i + e \in 1 .. Len(uart) /\ PayloadAt(i + e, c) /\ uart'[i] = uart[i + e] /\ i \in Nat
          /\ j + e \in 1 .. Len(uart) /\ PayloadAt(j + e, d) /\ uart'[j] = uart[j + e] /\ j \in Nat
      BY <1>1, <2>1
    <3>2. i + e < j + e
      BY <2>1, <3>1
    <3>3. uart[i + e].p = uart[j + e].p <=> c = d /\ Clear(i + e, j + e, c)
      BY <3>1, <3>2 DEF Among
    <3>4. Clear(i, j, c)' <=> Clear(i + e, j + e, c)
      BY <3>1
    <3> QED
      BY <3>1, <3>3, <3>4
  <2> QED
    BY <2>1 DEF Among
<1> QED
  BY <1>2, <1>3

\* A line that moved up, or got something that is neither a notice nor a payload.
LEMMA TrafficMoves ==
  ASSUME Traffic, NEW e \in {0, 1}, Len(uart) \in Nat, Len(uart') \in Nat,
         SameNotices(e), SamePayloads(e), UNCHANGED <<setup, link, peers>>,
         \A c \in Conns : map'[c] = map[c], \A p \in Peers : dest'[p] = dest[p],
         \A c \in Conns : link[c] # NoPeer => link[c] \in Peers,
         \A k \in 1 .. Len(uart) : uart[k].t = "ipd" => uart[k].p \in Peers
  PROVE  Traffic'
<1>1. ASSUME NEW k \in 1 .. Len(uart'), NEW c, PayloadAt(k, c)'
      PROVE  k + e \in 1 .. Len(uart) /\ PayloadAt(k + e, c) /\ uart'[k] = uart[k + e]
             /\ uart'[k].p \in Peers
  BY <1>1 DEF SamePayloads, PayloadAt
<1>2. Arriving'
  <2>1. ASSUME NEW k \in 1 .. Len(uart'), NEW c \in Conns, PayloadAt(k, c)'
        PROVE  (dest[uart[k].p] = IF Clear(0, k, c) THEN map[c] ELSE INVALID)'
    <3>1. dest[uart[k + e].p] = IF Clear(0, k + e, c) THEN map[c] ELSE INVALID
      BY <1>1, <2>1 DEF Traffic, Arriving
    <3>2. Clear(0, k, c)' <=> Clear(0, k + e, c)
      <4>1. \A j \in Nat : Clear(0, j, c)' <=> Clear(0, j + e, c)
        BY ClearMoves, Zenon
      <4>2. k \in Nat
        OBVIOUS
      <4> QED
        BY <4>1, <4>2
    <3> QED
      BY <1>1, <2>1, <3>1, <3>2
  <2> QED
    BY <2>1 DEF Arriving
<1>3. Leaving' /\ Among'
  <2>1. /\ \A c \in Conns : \A m, n \in Nat : Clear(m, n, c)' <=> Clear(m + e, n + e, c)
        /\ \A c \in Conns : \A m \in Nat : Clear(m, End, c)' <=> Clear(m + e, End, c)
    BY ClearMoves, Zenon
  <2> QED
    BY <2>1, LineMoves DEF Traffic
<1>5. \A c \in Conns : Clear(0, End, c)' <=> Clear(0, End, c)
  BY ClearMoves
<1>6. Links'
  BY <1>5 DEF Traffic, Links
<1>7. Vacant' /\ Unseen'
  BY <1>5 DEF Traffic, Vacant, Unseen
<1> QED
  BY <1>2, <1>3, <1>6, <1>7 DEF Traffic

\* The tables change where nothing is under way.
LEMMA TrafficFrame ==
  ASSUME Traffic, UNCHANGED <<setup, uart, link, dest, peers>>,
         \A c \in Conns : map'[c] # map[c] => Quiet(c) /\ link[c] = NoPeer /\ ~setup.server
  PROVE  Traffic'
<1>1. \A i, j, c : /\ Clear(i, j, c)' <=> Clear(i, j, c)
                   /\ PayloadAt(i, c)' <=> PayloadAt(i, c)
  BY DEF Clear, PayloadAt, ClosedAt
<1>2. \A c : Clear(0, End, c)' <=> Clear(0, End, c)
  BY DEF Clear, ClosedAt, End
<1>3. Arriving'
  <2>1. ASSUME NEW k \in 1 .. Len(uart'), NEW c \in Conns, PayloadAt(k, c)'
        PROVE  (dest[uart[k].p] = IF Clear(0, k, c) THEN map[c] ELSE INVALID)'
    <3>1. map'[c] = map[c]
      BY <1>1, <2>1 DEF Quiet
    <3> QED
      BY <1>1, <2>1, <3>1 DEF Traffic, Arriving
  <2> QED
    BY <2>1 DEF Arriving
<1>4. Leaving' /\ Among'
  BY DEF Traffic, Leaving, Among, PayloadAt, ClosedAt, Clear, End
<1>5. Links'
  BY <1>2 DEF Traffic, Links
<1>6. Vacant' /\ Unseen'
  BY <1>2 DEF Traffic, Vacant, Unseen
<1> QED
  BY <1>3, <1>4, <1>5, <1>6 DEF Traffic

\* The interrupt has taken a token.
LEMMA MovedUp ==
  ASSUME Types, Tokens, NEW a, Received(a)
  PROVE  /\ SamePayloads(1) /\ (a # "closed" => SameNotices(1))
         /\ Len(uart) \in Nat /\ Len(uart') \in Nat
<1>1. /\ uart' \in Seq(TokenType) /\ Len(uart) > 0 /\ Len(uart') = Len(uart) - 1
      /\ \A k \in 1 .. Len(uart') : uart'[k] = uart[k + 1]
      /\ uart[1].t = a
  BY Took
<1>2. Len(uart) \in Nat /\ Len(uart') \in Nat
  BY <1>1 DEF Types
<1>3. \A k \in 1 .. Len(uart') : k + 1 \in 1 .. Len(uart)
  BY <1>1, <1>2
<1>4. \A k \in 1 .. Len(uart) : k # 1 => k - 1 \in 1 .. Len(uart') /\ uart[(k - 1) + 1] = uart[k]
  BY <1>1, <1>2
<1> QED
  BY <1>1, <1>2, <1>3, <1>4 DEF SamePayloads, SameNotices

\* The module has said something else than a notice or a payload.
LEMMA Added ==
  ASSUME Types, Len(uart) \in Nat, Len(uart') \in Nat, Len(uart') >= Len(uart),
         \A k \in 1 .. Len(uart) : uart'[k] = uart[k]
  PROVE  /\ (\A k \in 1 .. Len(uart') : k > Len(uart) => uart'[k].t # "closed")
              => SameNotices(0)
         /\ (\A k \in 1 .. Len(uart') : k > Len(uart) => uart'[k].t # "ipd")
              => SamePayloads(0)
  BY DEF SameNotices, SamePayloads

\* The peers named on the line and by the links.
LEMMA Named ==
  ASSUME Types, Tokens
  PROVE  /\ \A c \in Conns : link[c] # NoPeer => link[c] \in Peers /\ link[c] \in 1 .. peers
         /\ \A k \in 1 .. Len(uart) : uart[k].t = "ipd" => uart[k].p \in Peers /\ uart[k].p \in 1 .. peers
  BY Numbers DEF Types, Tokens, NoPeer

\* A payload is put into a ring.
LEMMA TrafficPayload ==
  ASSUME PayloadInv, RxPayload PROVE Traffic'
<1> Types /\ Tokens /\ Traffic /\ Ringed /\ ClientWire
  BY DEF PayloadInv, AnswerInv, Tables, ClientInv
<1>0. PICK c, q, s : c = uart[1].n /\ q = uart[1].p /\ s = PayloadSocket(c)
  OBVIOUS
<1>1. /\ Received("ipd") /\ c \in Conns /\ q \in Peers /\ q \in 1 .. peers
      /\ s \in Sockets \cup {INVALID}
      /\ map' = (IF Binds(c) THEN [map EXCEPT ![c] = s] ELSE map)
      /\ dest' = (IF dest[q] = INVALID THEN [dest EXCEPT ![q] = s] ELSE dest)
      /\ UNCHANGED <<setup, link, peers>>
  BY <1>0, PayloadIs
<1>2. /\ SamePayloads(1) /\ SameNotices(1) /\ Len(uart) \in Nat /\ Len(uart') \in Nat
  BY <1>1, MovedUp
<1>3. 1 \in 1 .. Len(uart) /\ PayloadAt(1, c) /\ Clear(0, 1, c)
  BY <1>0, <1>1, <1>2, Took DEF PayloadAt, Clear
<1>4. dest[q] = map[c]
  BY <1>0, <1>1, <1>3 DEF Traffic, Arriving
<1>5. /\ map \in [Conns -> Sockets \cup {INVALID}] /\ dest \in [Peers -> Sockets \cup {INVALID}]
  BY DEF Types
<1>6. CASE ~Binds(c)
  <2>1. dest[q] = INVALID => s = INVALID
    BY <1>0, <1>1, <1>4, <1>6 DEF Binds, Ringed, PayloadSocket
  <2>2. \A p \in Peers : dest'[p] = dest[p]
    BY <1>1, <1>5, <2>1
  <2>3. \A d \in Conns : map'[d] = map[d]
    BY <1>1, <1>6
  <2> QED
    BY <1>1, <1>2, <2>2, <2>3, Named, TrafficMoves
<1>7. CASE Binds(c)
  <2>1. s # INVALID /\ map[c] = INVALID /\ dest[q] = INVALID
    BY <1>0, <1>4, <1>7 DEF Binds
  <2>2. /\ map'[c] = s /\ \A d \in Conns \ {c} : map'[d] = map[d]
        /\ dest'[q] = s /\ \A p \in Peers \ {q} : dest'[p] = dest[p]
    BY <1>1, <1>5, <1>7, <2>1
  <2>3. ASSUME NEW k \in 1 .. Len(uart'), NEW d, PayloadAt(k, d)'
        PROVE  k + 1 \in 1 .. Len(uart) /\ PayloadAt(k + 1, d) /\ uart'[k] = uart[k + 1]
               /\ uart'[k].p \in Peers /\ k \in Nat
    BY <1>2, <2>3, Named DEF SamePayloads, PayloadAt
  <2>4. Arriving'
    <3>1. ASSUME NEW k \in 1 .. Len(uart'), NEW d \in Conns, PayloadAt(k, d)'
          PROVE  (dest[uart[k].p] = IF Clear(0, k, d) THEN map[d] ELSE INVALID)'
      <4>1. k + 1 \in 1 .. Len(uart) /\ PayloadAt(k + 1, d) /\ uart'[k] = uart[k + 1]
            /\ uart'[k].p \in Peers /\ k \in Nat
        BY <2>3, <3>1
      <4>2. q = uart[k + 1].p <=> c = d /\ Clear(1, k + 1, c)
        <5>1. 1 < k + 1
          BY <4>1
        <5> QED
          BY <1>0, <1>1, <1>3, <4>1, <5>1 DEF Traffic, Among
      <4>3. Clear(0, k, d)' <=> Clear(1, k + 1, d)
        <5>1. \A m, n \in Nat : Clear(m, n, d)' <=> Clear(m + 1, n + 1, d)
          BY <1>2, ClearMoves, Zenon
        <5>2. Clear(0, k, d)' <=> Clear(0 + 1, k + 1, d)
          BY <4>1, <5>1
        <5> QED
          BY <5>2
      <4>4. Clear(0, k, d)' <=> Clear(0, k + 1, d)
        <5>1. \A j \in Nat : Clear(0, j, d)' <=> Clear(0, j + 1, d)
          BY <1>2, ClearMoves, Zenon
        <5> QED
          BY <4>1, <5>1
      <4>5. dest[uart[k + 1].p] = IF Clear(0, k + 1, d) THEN map[d] ELSE INVALID
        BY <3>1, <4>1 DEF Traffic, Arriving
      <4> QED
        BY <2>2, <3>1, <4>1, <4>2, <4>3, <4>4, <4>5
    <3> QED
      BY <3>1 DEF Arriving
  <2>5. Leaving' /\ Among'
    <3>1. /\ \A d \in Conns : \A m, n \in Nat : Clear(m, n, d)' <=> Clear(m + 1, n + 1, d)
          /\ \A d \in Conns : \A m \in Nat : Clear(m, End, d)' <=> Clear(m + 1, End, d)
      BY <1>2, ClearMoves, Zenon
    <3> QED
      BY <1>1, <1>2, <3>1, LineMoves DEF Traffic
  <2>7. \A d \in Conns : Clear(0, End, d)' <=> Clear(0, End, d)
    BY <1>2, ClearMoves
  <2>8. \A d \in Conns : link[d] = q <=> d = c /\ Clear(0, End, c)
    <3>1. \A d \in Conns : link[d] = q <=> d = c /\ Clear(1, End, c)
      BY <1>0, <1>1, <1>3 DEF Traffic, Leaving
    <3>2. Clear(0, End, c) <=> Clear(1, End, c)
      BY <1>2, <1>3 DEF Clear, PayloadAt, ClosedAt
    <3> QED
      BY <3>1, <3>2
  <2>9. Links'
    <3>1. ASSUME NEW d \in Conns, link[d] # NoPeer
          PROVE  dest'[link[d]] = IF Clear(0, End, d)' THEN map'[d] ELSE INVALID
      <4>1. link[d] \in Peers
        BY <3>1, Named
      <4>2. dest[link[d]] = IF Clear(0, End, d) THEN map[d] ELSE INVALID
        BY <3>1 DEF Traffic, Links
      <4> QED
        BY <1>1, <2>2, <2>7, <2>8, <4>1, <4>2
    <3> QED
      BY <1>1, <3>1 DEF Traffic, Links
  <2>10. Vacant'
    <3>1. q # NoPeer
      BY <1>1 DEF NoPeer
    <3> QED
      BY <1>1, <2>2, <2>7, <2>8, <3>1 DEF Traffic, Vacant
  <2>11. Unseen'
    <3>1. peers \in Nat /\ Peers \subseteq Nat
      BY Numbers DEF Types
    <3>2. \A p \in Peers : p > peers => p # q
      BY <1>1, <3>1
    <3> QED
      BY <1>1, <2>2, <3>2 DEF Traffic, Unseen
  <2> QED
    BY <2>4, <2>5, <2>9, <2>10, <2>11 DEF Traffic
<1> QED
  BY <1>6, <1>7

\* What a notice does to the tables.
LEMMA ClosedIs ==
  ASSUME Types, Tokens, Mapped, RxClosed, NEW c, c = uart[1].n
  PROVE  /\ Received("closed") /\ c \in Conns
         /\ \A d \in Conns : map'[d] = IF d = c THEN INVALID ELSE map[d]
         /\ \A r \in Sockets :
              IF map[c] # INVALID /\ r = map[c]
              THEN /\ sockets'[r].state = "DISCONNECTED" /\ sockets'[r].conn = INVALID
                   /\ sockets'[r].ring = sockets[r].ring
              ELSE sockets'[r] = sockets[r]
         /\ ~conn'[c].active /\ \A d \in Conns : d # c => conn'[d] = conn[d]
         /\ UNCHANGED <<setup, held, reading, result, link, todo, pc, cmd, ret, dest, got,
                        peers, sent>>
<1>1. Received("closed")
  BY DEF RxClosed
<1>2. c \in Conns /\ Head(uart) = uart[1]
  BY <1>1, Took
<1>3. conn' = [conn EXCEPT ![c] = Inactive(@)]
  BY <1>2 DEF RxClosed
<1>4. ~conn'[c].active /\ \A d \in Conns : d # c => conn'[d] = conn[d]
  BY <1>2, <1>3 DEF Inactive, Types
<1>5. map[c] \in Sockets \cup {INVALID} /\ sockets \in [Sockets -> SocketType]
      /\ map \in [Conns -> Sockets \cup {INVALID}]
  BY <1>2 DEF Types
<1>6. CASE map[c] = INVALID
  <2>1. UNCHANGED <<sockets, map>>
    BY <1>2, <1>6 DEF RxClosed
  <2> QED
    BY <1>1, <1>2, <1>4, <1>6, <2>1 DEF RxClosed, parser, history
<1>7. CASE map[c] # INVALID
  <2>1. PICK s, r : s = map[c] /\ r = Release(s, sockets, map)
    OBVIOUS
  <2>2. sockets' = [r[1] EXCEPT ![s].state = "DISCONNECTED"] /\ map' = r[2]
    BY <1>2, <1>7, <2>1 DEF RxClosed
  <2>3. s \in Sockets /\ sockets[s].conn = c
    BY <1>2, <1>5, <1>7, <2>1 DEF Mapped
  <2>4. /\ r[1] \in [Sockets -> SocketType]
        /\ \A b \in Sockets : r[1][b] = IF b = s THEN [sockets[s] EXCEPT !.conn = INVALID]
                                                ELSE sockets[b]
        /\ \A d \in Conns : r[2][d] = IF d = c THEN INVALID ELSE map[d]
    BY <2>1, <2>3, ReleaseIs
  <2>5. sockets[s] \in SocketType
    BY <1>5, <2>3
  <2>6. /\ sockets'[s].state = "DISCONNECTED" /\ sockets'[s].conn = INVALID
        /\ sockets'[s].ring = sockets[s].ring
        /\ \A b \in Sockets : b # s => sockets'[b] = sockets[b]
    BY <2>2, <2>3, <2>4, <2>5 DEF SocketType
  <2> QED
    BY <1>1, <1>2, <1>4, <1>7, <2>1, <2>2, <2>4, <2>6 DEF RxClosed, parser, history
<1> QED
  BY <1>6, <1>7

\* A notice is taken: what follows it on the line is of another peer.
LEMMA TrafficClosed ==
  ASSUME PayloadInv, RxClosed PROVE Traffic'
<1> Types /\ Tokens /\ Traffic /\ Mapped
  BY DEF PayloadInv, AnswerInv, Tables
<1>0. PICK c : c = uart[1].n
  OBVIOUS
<1>1. /\ Received("closed") /\ c \in Conns
      /\ \A d \in Conns : map'[d] = IF d = c THEN INVALID ELSE map[d]
      /\ UNCHANGED <<setup, link, dest, peers>>
  BY <1>0, ClosedIs
<1>2. SamePayloads(1) /\ Len(uart) \in Nat /\ Len(uart') \in Nat
  BY <1>1, MovedUp
<1>3. /\ Len(uart) > 0 /\ Len(uart') = Len(uart) - 1
      /\ \A k \in 1 .. Len(uart') : uart'[k] = uart[k + 1]
      /\ uart[1].t = "closed"
  BY <1>1, Took
<1>4. /\ \A k \in 1 .. Len(uart') : k + 1 \in 1 .. Len(uart)
                                    /\ \A d : ClosedAt(k, d)' <=> ClosedAt(k + 1, d)
      /\ \A k \in 1 .. Len(uart) : k # 1 => k - 1 \in 1 .. Len(uart')
                                    /\ \A d : ClosedAt(k - 1, d)' <=> ClosedAt(k, d)
      /\ 1 \in 1 .. Len(uart) /\ \A d : ClosedAt(1, d) <=> d = c
  BY <1>0, <1>2, <1>3 DEF ClosedAt
<1>5. \A d \in Conns : \A m, n \in Nat : Clear(m, n, d)' <=> Clear(m + 1, n + 1, d)
  <2>1. ASSUME NEW d \in Conns, NEW m \in Nat, NEW n \in Nat
        PROVE  Clear(m, n, d)' <=> Clear(m + 1, n + 1, d)
    <3>1. ASSUME Clear(m, n, d)', NEW k \in 1 .. Len(uart), m + 1 < k, k < n + 1
          PROVE  ~ClosedAt(k, d)
      BY <1>2, <1>4, <3>1 DEF Clear
    <3>2. ASSUME Clear(m + 1, n + 1, d), NEW k \in 1 .. Len(uart'), m < k, k < n
          PROVE  ~ClosedAt(k, d)'
      BY <1>2, <1>4, <3>2 DEF Clear
    <3> QED
      BY <3>1, <3>2 DEF Clear
  <2> QED
    BY <2>1
<1>6. \A d \in Conns : \A m \in Nat : Clear(m, End, d)' <=> Clear(m + 1, End, d)
  <2>1. ASSUME NEW d \in Conns, NEW m \in Nat PROVE Clear(m, End, d)' <=> Clear(m + 1, End, d)
    <3>1. End' \in Nat /\ End' + 1 = End
      BY <1>2, <1>3 DEF End
    <3>2. Clear(m, End, d)' <=> Clear(m + 1, End' + 1, d)
      <4>1. ASSUME Clear(m, End, d)', NEW k \in 1 .. Len(uart), m + 1 < k
            PROVE  ~ClosedAt(k, d)
        BY <1>2, <1>4, <4>1 DEF Clear, End
      <4>2. ASSUME Clear(m + 1, End' + 1, d), NEW k \in 1 .. Len(uart'), m < k
            PROVE  ~ClosedAt(k, d)'
        BY <1>2, <1>3, <1>4, <4>2 DEF Clear, End
      <4> QED
        BY <4>1, <4>2 DEF Clear, End
    <3> QED
      BY <3>1, <3>2
  <2> QED
    BY <2>1
<1>7. Leaving' /\ Among'
  BY <1>1, <1>2, <1>5, <1>6, LineMoves DEF Traffic
<1>8. \A d \in Conns : \A n \in Nat : n > 1 =>
        (Clear(0, n, d) <=> d # c /\ Clear(1, n, d))
  BY <1>2, <1>4 DEF Clear
<1>9. Arriving'
  <2>1. ASSUME NEW k \in 1 .. Len(uart'), NEW d \in Conns, PayloadAt(k, d)'
        PROVE  (dest[uart[k].p] = IF Clear(0, k, d) THEN map[d] ELSE INVALID)'
    <3>1. k + 1 \in 1 .. Len(uart) /\ PayloadAt(k + 1, d) /\ uart'[k] = uart[k + 1]
          /\ k \in Nat /\ k + 1 > 1 /\ k + 1 \in Nat
      BY <1>2, <2>1 DEF SamePayloads, PayloadAt
    <3>2. dest[uart[k + 1].p] = IF Clear(0, k + 1, d) THEN map[d] ELSE INVALID
      BY <3>1 DEF Traffic, Arriving
    <3>3. Clear(0, k, d)' <=> Clear(1, k + 1, d)
      <4>1. Clear(0, k, d)' <=> Clear(0 + 1, k + 1, d)
        BY <1>5, <3>1
      <4> QED
        BY <4>1
    <3>4. Clear(0, k + 1, d) <=> d # c /\ Clear(1, k + 1, d)
      BY <1>8, <3>1
    <3> QED
      BY <1>1, <3>1, <3>2, <3>3, <3>4
  <2> QED
    BY <2>1 DEF Arriving
<1>10. \A d \in Conns : Clear(0, End, d) <=> d # c /\ Clear(0, End, d)'
  <2>1. ASSUME NEW d \in Conns PROVE Clear(0, End, d) <=> d # c /\ Clear(0, End, d)'
    <3>1. Clear(0, End, d)' <=> Clear(0 + 1, End, d)
      BY <1>6
    <3>2. End \in Nat /\ End > 1
      BY <1>2, <1>3 DEF End
    <3> QED
      BY <1>8, <3>1, <3>2
  <2> QED
    BY <2>1
<1>11. Links'
  BY <1>1, <1>10 DEF Traffic, Links
<1>12. Vacant' /\ Unseen'
  BY <1>1, <1>10 DEF Traffic, Vacant, Unseen
<1> QED
  BY <1>7, <1>9, <1>11, <1>12 DEF Traffic

\* A connection ends in the module: the notice is the last of it on the line.
LEMMA TrafficCloses ==
  ASSUME Types, Tokens, Traffic, NEW c \in Conns, link' = [link EXCEPT ![c] = NoPeer],
         UNCHANGED <<setup, map, dest, peers>>,
         Len(uart') \in Nat, Len(uart') > Len(uart),
         \A k \in 1 .. Len(uart) : uart'[k] = uart[k],
         uart'[Len(uart) + 1].t = "closed", uart'[Len(uart) + 1].n = c,
         \A k \in 1 .. Len(uart') : k > Len(uart) + 1 => uart'[k].t \notin {"closed", "ipd"}
  PROVE  Traffic'
<1>0. Len(uart) \in Nat /\ link \in [Conns -> 0 .. peers]
  BY DEF Types
<1>1. /\ \A d \in Conns : d # c => link'[d] = link[d]
      /\ link'[c] = NoPeer
  BY <1>0
<1>2. ASSUME NEW d \in Conns, NEW i \in Nat, NEW j \in 1 .. Len(uart) + 1
      PROVE  Clear(i, j, d)' <=> Clear(i, j, d)
  <2>1. \A k \in 1 .. Len(uart) : k \in 1 .. Len(uart') /\ (ClosedAt(k, d)' <=> ClosedAt(k, d))
    BY <1>0 DEF ClosedAt
  <2>2. \A k \in 1 .. Len(uart') : k < j => k \in 1 .. Len(uart)
    BY <1>0
  <2> QED
    BY <2>1, <2>2 DEF Clear
<1>3. ASSUME NEW d \in Conns, NEW i \in 0 .. Len(uart)
      PROVE  Clear(i, End, d)' <=> d # c /\ Clear(i, End, d)
  <2>0. PICK n : n = Len(uart) + 1
    OBVIOUS
  <2>1. /\ \A k \in 1 .. Len(uart) : k \in 1 .. Len(uart') /\ (ClosedAt(k, d)' <=> ClosedAt(k, d))
        /\ n \in 1 .. Len(uart') /\ (ClosedAt(n, d)' <=> d = c)
        /\ \A k \in 1 .. Len(uart') : k > Len(uart) + 1 => ~ClosedAt(k, d)'
    <3>1. n \in 1 .. Len(uart') /\ \A k \in 1 .. Len(uart) : k \in 1 .. Len(uart')
      BY <1>0, <2>0
    <3>2. ClosedAt(n, d)' <=> d = c
      BY <2>0 DEF ClosedAt
    <3>3. \A k \in 1 .. Len(uart) : ClosedAt(k, d)' <=> ClosedAt(k, d)
      BY DEF ClosedAt
    <3>4. \A k \in 1 .. Len(uart') : k > Len(uart) + 1 => ~ClosedAt(k, d)'
      BY DEF ClosedAt
    <3> QED
      BY <3>1, <3>2, <3>3, <3>4
  <2>2. \A k \in 1 .. Len(uart') : k \in 1 .. Len(uart) \/ k = n \/ k > Len(uart) + 1
    BY <1>0, <2>0
  <2>3. ASSUME Clear(i, End, d)' PROVE d # c /\ Clear(i, End, d)
    <3>1. \A k \in 1 .. Len(uart') : i < k /\ k < Len(uart') + 1 => ~ClosedAt(k, d)'
      BY <2>3 DEF Clear, End
    <3>2. i < n /\ n < Len(uart') + 1
      BY <1>0, <2>0
    <3>3. d # c
      BY <2>1, <3>1, <3>2
    <3>4. ASSUME NEW k \in 1 .. Len(uart), i < k PROVE ~ClosedAt(k, d)
      <4>1. k < Len(uart') + 1
        BY <1>0
      <4> QED
        BY <2>1, <3>1, <3>4, <4>1
    <3> QED
      BY <3>3, <3>4 DEF Clear, End
  <2>4. ASSUME d # c, Clear(i, End, d) PROVE Clear(i, End, d)'
    <3>1. \A k \in 1 .. Len(uart) : i < k /\ k < Len(uart) + 1 => ~ClosedAt(k, d)
      BY <2>4 DEF Clear, End
    <3>2. ASSUME NEW k \in 1 .. Len(uart'), i < k PROVE ~ClosedAt(k, d)'
      <4>1. CASE k \in 1 .. Len(uart)
        <5>1. k < Len(uart) + 1
          BY <1>0, <4>1
        <5> QED
          BY <2>1, <3>1, <3>2, <4>1, <5>1
      <4> QED
        BY <2>1, <2>2, <2>4, <4>1
    <3> QED
      BY <3>2 DEF Clear, End
  <2> QED
    BY <2>3, <2>4
<1>4. ASSUME NEW k \in 1 .. Len(uart'), NEW d, PayloadAt(k, d)'
      PROVE  k \in 1 .. Len(uart) /\ PayloadAt(k, d) /\ uart'[k] = uart[k] /\ k \in Nat
             /\ k \in 1 .. Len(uart) + 1 /\ k \in 0 .. Len(uart)
  <2>1. k \in 1 .. Len(uart) \/ k = Len(uart) + 1 \/ k > Len(uart) + 1
    BY <1>0
  <2>2. k \in 1 .. Len(uart)
    BY <1>4, <2>1 DEF PayloadAt
  <2> QED
    BY <1>0, <1>4, <2>2 DEF PayloadAt
<1>5. Arriving'
  <2>1. ASSUME NEW k \in 1 .. Len(uart'), NEW d \in Conns, PayloadAt(k, d)'
        PROVE  (dest[uart[k].p] = IF Clear(0, k, d) THEN map[d] ELSE INVALID)'
    <3>1. Clear(0, k, d)' <=> Clear(0, k, d)
      BY <1>2, <1>4, <2>1
    <3> QED
      BY <1>4, <2>1, <3>1 DEF Traffic, Arriving
  <2> QED
    BY <2>1 DEF Arriving
<1>6. Leaving'
  <2>1. ASSUME NEW k \in 1 .. Len(uart'), NEW d \in Conns, PayloadAt(k, d)', NEW b \in Conns
        PROVE  (link[b] = uart[k].p <=> b = d /\ Clear(k, End, d))'
    <3>1. link[b] = uart[k].p <=> b = d /\ Clear(k, End, d)
      BY <1>4, <2>1 DEF Traffic, Leaving
    <3>2. Clear(k, End, d)' <=> d # c /\ Clear(k, End, d)
      BY <1>3, <1>4, <2>1
    <3>3. uart[k].p # NoPeer
      BY <1>4, <2>1, Named DEF PayloadAt, NoPeer
    <3> QED
      BY <1>1, <1>4, <2>1, <3>1, <3>2, <3>3
  <2> QED
    BY <2>1 DEF Leaving
<1>7. Among'
  <2>1. ASSUME NEW i \in 1 .. Len(uart'), NEW j \in 1 .. Len(uart'), NEW b \in Conns,
               NEW d \in Conns, i < j, PayloadAt(i, b)', PayloadAt(j, d)'
        PROVE  (uart[i].p = uart[j].p <=> b = d /\ Clear(i, j, b))'
    <3>1. Clear(i, j, b)' <=> Clear(i, j, b)
      BY <1>2, <1>4, <2>1
    <3> QED
      BY <1>4, <2>1, <3>1 DEF Traffic, Among
  <2> QED
    BY <2>1 DEF Among
<1>8. \A d \in Conns : Clear(0, End, d)' <=> d # c /\ Clear(0, End, d)
  BY <1>0, <1>3
<1>9. Links'
  BY <1>1, <1>8 DEF Traffic, Links
<1>10. Vacant' /\ Unseen'
  BY <1>1, <1>8 DEF Traffic, Vacant, Unseen
<1> QED
  BY <1>5, <1>6, <1>7, <1>9, <1>10 DEF Traffic

\* A peer sends.
LEMMA TrafficSends ==
  ASSUME Types, Tokens, Traffic, NEW c \in Conns, PeerSends(c) PROVE Traffic'
<1>0. Len(uart) \in Nat /\ link[c] \in 1 .. peers /\ link[c] \in 0 .. NbPeers /\ c \in Int
      /\ link[c] # NoPeer
  BY Named, Numbers DEF Types, PeerSends, NoPeer
<1>1. PICK x : x = [Token("ipd", c) EXCEPT !.p = link[c]] /\ Says(<<x>>)
  BY DEF PeerSends
<1>2. x \in TokenType /\ x.t = "ipd" /\ x.n = c /\ x.p = link[c]
  BY <1>0, <1>1, Numbers DEF Token, TokenType, NoPeer
<1>3. /\ Len(uart') = Len(uart) + 1 /\ \A k \in 1 .. Len(uart) : uart'[k] = uart[k]
      /\ uart'[Len(uart) + 1] = x
  BY <1>1, <1>2, Said
<1>4. UNCHANGED <<setup, map, dest, peers, link>>
  BY DEF PeerSends, host, history
<1>5. SameNotices(0) /\ Len(uart') \in Nat
  BY <1>0, <1>2, <1>3, Added
<1>6. /\ \A d : \A i, j \in Nat : Clear(i, j, d)' <=> Clear(i, j, d)
      /\ \A d : \A i \in Nat : Clear(i, End, d)' <=> Clear(i, End, d)
      /\ \A d : Clear(0, End, d)' <=> Clear(0, End, d)
  <2>1. ASSUME NEW d
        PROVE  /\ \A i, j \in Nat : Clear(i, j, d)' <=> Clear(i + 0, j + 0, d)
               /\ \A i \in Nat : Clear(i, End, d)' <=> Clear(i + 0, End, d)
               /\ Clear(0, End, d)' <=> Clear(0, End, d)
    <3>1. 0 \in {0, 1}
      OBVIOUS
    <3> QED
      BY <1>0, <1>5, <3>1, ClearMoves, Zenon
  <2>2. ASSUME NEW d, NEW i \in Nat, NEW j \in Nat
        PROVE  (Clear(i, j, d)' <=> Clear(i, j, d)) /\ (Clear(i, End, d)' <=> Clear(i, End, d))
    <3>1. /\ Clear(i, j, d)' <=> Clear(i + 0, j + 0, d)
          /\ Clear(i, End, d)' <=> Clear(i + 0, End, d)
      BY <2>1, Zenon
    <3>2. i + 0 = i /\ j + 0 = j
      OBVIOUS
    <3> QED
      BY <3>1, <3>2
  <2> QED
    BY <2>1, <2>2
<1>7. ASSUME NEW k \in 1 .. Len(uart'), NEW d, PayloadAt(k, d)'
      PROVE  /\ k \in Nat
             /\ \/ k \in 1 .. Len(uart) /\ PayloadAt(k, d) /\ uart'[k] = uart[k]
                \/ k = Len(uart) + 1 /\ d = c /\ uart'[k].p = link[c]
  <2>1. k \in 1 .. Len(uart) \/ k = Len(uart) + 1
    BY <1>0, <1>3
  <2> QED
    BY <1>2, <1>3, <1>7, <2>1 DEF PayloadAt
<1>8. Arriving'
  <2>1. ASSUME NEW k \in 1 .. Len(uart'), NEW d \in Conns, PayloadAt(k, d)'
        PROVE  (dest[uart[k].p] = IF Clear(0, k, d) THEN map[d] ELSE INVALID)'
    <3>1. Clear(0, k, d)' <=> Clear(0, k, d)
      BY <1>6, <1>7, <2>1
    <3>2. CASE k \in 1 .. Len(uart) /\ PayloadAt(k, d) /\ uart'[k] = uart[k]
      BY <1>4, <2>1, <3>1, <3>2 DEF Traffic, Arriving
    <3>3. CASE k = Len(uart) + 1 /\ d = c /\ uart'[k].p = link[c]
      <4>1. dest[link[c]] = IF Clear(0, k, c) THEN map[c] ELSE INVALID
        BY <1>0, <3>3 DEF Traffic, Links, End
      <4> QED
        BY <1>4, <3>1, <3>3, <4>1
    <3> QED
      BY <1>7, <2>1, <3>2, <3>3
  <2> QED
    BY <2>1 DEF Arriving
<1>9. Leaving'
  <2>1. ASSUME NEW k \in 1 .. Len(uart'), NEW d \in Conns, PayloadAt(k, d)', NEW b \in Conns
        PROVE  (link[b] = uart[k].p <=> b = d /\ Clear(k, End, d))'
    <3>1. Clear(k, End, d)' <=> Clear(k, End, d)
      BY <1>6, <1>7, <2>1
    <3>2. CASE k \in 1 .. Len(uart) /\ PayloadAt(k, d) /\ uart'[k] = uart[k]
      BY <1>4, <2>1, <3>1, <3>2 DEF Traffic, Leaving
    <3>3. CASE k = Len(uart) + 1 /\ d = c /\ uart'[k].p = link[c]
      <4>1. Clear(k, End, d)
        BY <1>0, <3>3 DEF Clear, End
      <4>2. link[b] = link[c] <=> b = c
        BY <1>0 DEF Traffic, Links
      <4> QED
        BY <1>4, <3>1, <3>3, <4>1, <4>2
    <3> QED
      BY <1>7, <2>1, <3>2, <3>3
  <2> QED
    BY <2>1 DEF Leaving
<1>10. Among'
  <2>1. ASSUME NEW i \in 1 .. Len(uart'), NEW j \in 1 .. Len(uart'), NEW b \in Conns,
               NEW d \in Conns, i < j, PayloadAt(i, b)', PayloadAt(j, d)'
        PROVE  (uart[i].p = uart[j].p <=> b = d /\ Clear(i, j, b))'
    <3>1. Clear(i, j, b)' <=> Clear(i, j, b)
      BY <1>6, <1>7, <2>1
    <3>2. i \in 1 .. Len(uart) /\ PayloadAt(i, b) /\ uart'[i] = uart[i]
      BY <1>0, <1>3, <1>7, <2>1
    <3>3. CASE j \in 1 .. Len(uart) /\ PayloadAt(j, d) /\ uart'[j] = uart[j]
      BY <2>1, <3>1, <3>2, <3>3 DEF Traffic, Among
    <3>4. CASE j = Len(uart) + 1 /\ d = c /\ uart'[j].p = link[c]
      <4>1. link[c] = uart[i].p <=> c = b /\ Clear(i, j, b)
        BY <3>2, <3>4 DEF Traffic, Leaving, End
      <4> QED
        BY <3>1, <3>2, <3>4, <4>1
    <3> QED
      BY <1>7, <2>1, <3>3, <3>4
  <2> QED
    BY <2>1 DEF Among
<1>11. Links'
  BY <1>4, <1>6 DEF Traffic, Links
<1>12. Vacant' /\ Unseen'
  BY <1>4, <1>6 DEF Traffic, Vacant, Unseen
<1> QED
  BY <1>8, <1>9, <1>10, <1>11, <1>12 DEF Traffic

\* A new peer: nothing on the line is of it.
LEMMA TrafficConnects ==
  ASSUME Types, Tokens, Traffic, NEW c \in Conns, link[c] = NoPeer,
         peers' = peers + 1, peers < NbPeers, link' = [link EXCEPT ![c] = peers'],
         UNCHANGED <<setup, map>>, Len(uart) \in Nat, Len(uart') \in Nat,
         SameNotices(0), SamePayloads(0),
         \A p \in Peers : p # peers' => dest'[p] = dest[p],
         dest'[peers'] = IF Clear(0, End, c) THEN map[c] ELSE INVALID
  PROVE  Traffic'
<1>0. link \in [Conns -> 0 .. peers] /\ peers \in Nat /\ peers' \in Peers /\ peers' # NoPeer
      /\ Peers \subseteq Nat
  BY Numbers DEF Types, NoPeer
<1>1. link'[c] = peers' /\ \A d \in Conns : d # c => link'[d] = link[d]
  BY <1>0
<1>2. /\ \A d : \A i, j \in Nat : Clear(i, j, d)' <=> Clear(i, j, d)
      /\ \A d : \A i \in Nat : Clear(i, End, d)' <=> Clear(i, End, d)
      /\ \A d : Clear(0, End, d)' <=> Clear(0, End, d)
  <2>1. ASSUME NEW d
        PROVE  /\ \A i, j \in Nat : Clear(i, j, d)' <=> Clear(i + 0, j + 0, d)
               /\ \A i \in Nat : Clear(i, End, d)' <=> Clear(i + 0, End, d)
               /\ Clear(0, End, d)' <=> Clear(0, End, d)
    <3>1. 0 \in {0, 1}
      OBVIOUS
    <3> QED
      BY <3>1, ClearMoves, Zenon
  <2>2. ASSUME NEW d, NEW i \in Nat, NEW j \in Nat
        PROVE  (Clear(i, j, d)' <=> Clear(i, j, d)) /\ (Clear(i, End, d)' <=> Clear(i, End, d))
    <3>1. /\ Clear(i, j, d)' <=> Clear(i + 0, j + 0, d)
          /\ Clear(i, End, d)' <=> Clear(i + 0, End, d)
      BY <2>1, Zenon
    <3>2. i + 0 = i /\ j + 0 = j
      OBVIOUS
    <3> QED
      BY <3>1, <3>2
  <2> QED
    BY <2>1, <2>2
<1>3. ASSUME NEW k \in 1 .. Len(uart'), NEW d, PayloadAt(k, d)'
      PROVE  /\ k \in 1 .. Len(uart) /\ PayloadAt(k, d) /\ uart'[k] = uart[k] /\ k \in Nat
             /\ uart[k].p \in Peers /\ uart[k].p # peers' /\ uart[k].p # NoPeer
  <2>1. k + 0 \in 1 .. Len(uart) /\ uart'[k] = uart[k + 0]
    BY <1>3 DEF SamePayloads, PayloadAt
  <2>2. k + 0 = k /\ k \in Nat
    OBVIOUS
  <2>3. uart[k].p \in Peers /\ uart[k].p \in 1 .. peers
    BY <1>3, <2>1, <2>2, Named DEF PayloadAt
  <2> QED
    BY <1>0, <1>3, <2>1, <2>2, <2>3 DEF PayloadAt, NoPeer
<1>4. Arriving'
  <2>1. ASSUME NEW k \in 1 .. Len(uart'), NEW d \in Conns, PayloadAt(k, d)'
        PROVE  (dest[uart[k].p] = IF Clear(0, k, d) THEN map[d] ELSE INVALID)'
    <3>1. Clear(0, k, d)' <=> Clear(0, k, d)
      BY <1>2, <1>3, <2>1
    <3> QED
      BY <1>3, <2>1, <3>1 DEF Traffic, Arriving
  <2> QED
    BY <2>1 DEF Arriving
<1>5. Leaving'
  <2>1. ASSUME NEW k \in 1 .. Len(uart'), NEW d \in Conns, PayloadAt(k, d)', NEW b \in Conns
        PROVE  (link[b] = uart[k].p <=> b = d /\ Clear(k, End, d))'
    <3>1. link[b] = uart[k].p <=> b = d /\ Clear(k, End, d)
      BY <1>3, <2>1 DEF Traffic, Leaving
    <3>2. Clear(k, End, d)' <=> Clear(k, End, d)
      BY <1>2, <1>3, <2>1
    <3> QED
      BY <1>1, <1>3, <2>1, <3>1, <3>2
  <2> QED
    BY <2>1 DEF Leaving
<1>6. Among'
  <2>1. ASSUME NEW i \in 1 .. Len(uart'), NEW j \in 1 .. Len(uart'), NEW b \in Conns,
               NEW d \in Conns, i < j, PayloadAt(i, b)', PayloadAt(j, d)'
        PROVE  (uart[i].p = uart[j].p <=> b = d /\ Clear(i, j, b))'
    <3>1. Clear(i, j, b)' <=> Clear(i, j, b)
      BY <1>2, <1>3, <2>1
    <3> QED
      BY <1>3, <2>1, <3>1 DEF Traffic, Among
  <2> QED
    BY <2>1 DEF Among
<1>7. Links'
  <2>1. ASSUME NEW d \in Conns, link'[d] # NoPeer
        PROVE  /\ dest'[link'[d]] = IF Clear(0, End, d)' THEN map'[d] ELSE INVALID
               /\ \A b \in Conns : link'[b] = link'[d] => b = d
    <3>1. \A b \in Conns : link[b] # peers' /\ (link[b] # NoPeer => link[b] \in Peers)
      BY <1>0, Named
    <3>2. CASE d = c
      BY <1>1, <1>2, <3>1, <3>2
    <3>3. CASE d # c
      <4>1. link'[d] = link[d] /\ link[d] # peers' /\ link[d] \in Peers
        BY <1>1, <2>1, <3>1, <3>3
      <4>2. dest[link[d]] = (IF Clear(0, End, d) THEN map[d] ELSE INVALID)
            /\ \A b \in Conns : link[b] = link[d] => b = d
        BY <2>1, <4>1 DEF Traffic, Links
      <4> QED
        BY <1>1, <1>2, <3>1, <4>1, <4>2
    <3> QED
      BY <3>2, <3>3
  <2> QED
    BY <2>1 DEF Links
<1>8. Vacant'
  BY <1>0, <1>1, <1>2 DEF Traffic, Vacant
<1>9. Unseen'
  <2>1. \A p \in Peers : p > peers' => p > peers /\ p # peers'
    BY <1>0
  <2> QED
    BY <2>1 DEF Traffic, Unseen
<1> QED
  BY <1>4, <1>5, <1>6, <1>7, <1>8, <1>9 DEF Traffic

-----------------------------------------------------------------------------
(* OwnPayload: the tables *)

\* Sockets that keep their connection; one that has none may change freely.
LEMMA MappedFrame ==
  ASSUME Types, Mapped, UNCHANGED map,
         \A s \in Sockets : /\ sockets'[s].conn = sockets[s].conn
                            /\ sockets[s].conn # INVALID => (Busy(s)' <=> Busy(s))
  PROVE  Mapped'
<1>1. map \in [Conns -> Sockets \cup {INVALID}]
  BY DEF Types
<1>2. ASSUME NEW c \in Conns, map[c] # INVALID
      PROVE  sockets'[map[c]].conn = c /\ Busy(map[c])'
  <2>1. PICK s \in Sockets : s = map[c]
    BY <1>1, <1>2
  <2>2. sockets[s].conn = c /\ Busy(s)
    BY <1>2, <2>1 DEF Mapped
  <2>3. sockets'[s].conn = c /\ Busy(s)'
    BY <1>2, <2>2, Numbers
  <2> QED
    BY <2>1, <2>3
<1>3. ASSUME NEW s \in Sockets, Busy(s)', sockets'[s].conn # INVALID
      PROVE  map[sockets'[s].conn] = s
  BY <1>3 DEF Mapped
<1> QED
  BY <1>2, <1>3 DEF Mapped

\* The rings too, unless they are emptied.
LEMMA TablesFrame ==
  ASSUME Types, Tables, UNCHANGED <<map, conn>>,
         \A p \in 1 .. peers : p \in 1 .. peers' /\ dest'[p] = dest[p],
         \A s \in Sockets :
           /\ sockets'[s].conn = sockets[s].conn
           /\ sockets[s].conn # INVALID => (Busy(s)' <=> Busy(s))
           /\ sockets'[s].ring \in {sockets[s].ring, <<>>}
  PROVE  Tables'
<1>1. map \in [Conns -> Sockets \cup {INVALID}]
  BY DEF Types
<1>2. Rings'
  <2>1. ASSUME NEW s \in Sockets, NEW k \in 1 .. Len(sockets'[s].ring)
        PROVE  sockets'[s].ring[k] \in 1 .. peers' /\ dest'[sockets'[s].ring[k]] = s
    <3>1. sockets'[s].ring = sockets[s].ring
      BY <2>1
    <3> QED
      BY <2>1, <3>1 DEF Tables, Rings
  <2> QED
    BY <2>1 DEF Rings
<1>3. Ringed'
  BY DEF Tables, Ringed
<1>4. Mapped'
  BY MappedFrame DEF Tables
<1> QED
  BY <1>2, <1>3, <1>4 DEF Tables

\* The line has the same answers of success.
SameOks(e) ==
  /\ \A k \in 1 .. Len(uart') : uart'[k].t = "ok" =>
       k + e \in 1 .. Len(uart) /\ uart'[k] = uart[k + e]
  /\ \A k \in 1 .. Len(uart) : uart[k].t = "ok" =>
       k - e \in 1 .. Len(uart') /\ uart'[k - e] = uart[k]

\* The line moves up, or gets a failure or a prompt.
LEMMA WireMoves ==
  ASSUME ClientWire, NEW e \in {0, 1}, Len(uart) \in Nat, Len(uart') \in Nat,
         SameNotices(e), SamePayloads(e), UNCHANGED setup,
         ~setup.server => \A c \in Conns :
           /\ map'[c] = map[c]
           /\ link'[c] # link[c] => map[c] # INVALID /\ Clear(0, End, c)
  PROVE  ClientWire' /\ \A c : Quiet(c) => Quiet(c)'
<1>1. \A k \in 1 .. Len(uart') : \A c : ClosedAt(k, c)' \/ PayloadAt(k, c)' =>
        /\ k + e \in 1 .. Len(uart)
        /\ ClosedAt(k, c)' <=> ClosedAt(k + e, c)
        /\ PayloadAt(k, c)' <=> PayloadAt(k + e, c)
  BY DEF SameNotices, SamePayloads, ClosedAt, PayloadAt
<1>2. \A c : Quiet(c) => Quiet(c)'
  BY <1>1 DEF Quiet
<1>3. \A c : Clear(0, End, c)' <=> Clear(0, End, c)
  BY ClearMoves
<1>4. ASSUME ~setup.server, NEW c \in Conns, NEW i \in 1 .. Len(uart'), NEW j \in 1 .. Len(uart'),
             i < j, ClosedAt(i, c)'
      PROVE  ~ClosedAt(j, c)' /\ ~PayloadAt(j, c)'
  <2>1. i + e \in 1 .. Len(uart) /\ ClosedAt(i + e, c)
    BY <1>1, <1>4
  <2>2. SUFFICES ASSUME ClosedAt(j, c)' \/ PayloadAt(j, c)' PROVE FALSE
    OBVIOUS
  <2>3. j + e \in 1 .. Len(uart) /\ (ClosedAt(j + e, c) \/ PayloadAt(j + e, c))
    BY <1>1, <2>2
  <2>4. i + e < j + e
    BY <1>4
  <2> QED
    BY <1>4, <2>1, <2>3, <2>4 DEF ClientWire
<1> QED
  BY <1>2, <1>3, <1>4 DEF ClientWire

\* No notice is lost.
KeepsNotices(e) ==
  \A k \in 1 .. Len(uart) : uart[k].t = "closed" =>
    k - e \in 1 .. Len(uart') /\ uart'[k - e] = uart[k]

\* The same for the command that is under way.
LEMMA CommandMoves ==
  ASSUME Types, Starting, Stopping, NEW e \in {0, 1}, Len(uart) \in Nat, Len(uart') \in Nat,
         KeepsNotices(e), SameOks(e),
         \A c : c = cmd.conn /\ Quiet(c) /\ link[c] = NoPeer => Quiet(c)',
         UNCHANGED <<cmd, pc, ret, result, granted>>,
         \A c \in Conns : c = cmd.conn /\ link[c] = NoPeer => link'[c] = NoPeer,
         cmd.kind \in {"START", "DISCONNECT", "CLOSE"} =>
           /\ sockets'[cmd.sock].conn = sockets[cmd.sock].conn
           /\ Busy(cmd.sock)' <=> Busy(cmd.sock)
           /\ cmd.conn \in Conns /\ ~conn[cmd.conn].active /\ Quiet(cmd.conn)
                => ~conn'[cmd.conn].active,
         cmd.kind = "START" => cmd.conn \in Conns
  PROVE  Starting' /\ Stopping'
<1>1. OkTaken' <=> OkTaken
  BY DEF OkTaken
<1>3. Starting'
  BY DEF Starting
<1>4. Stopping'
  <2>1. ASSUME cmd.kind \in {"DISCONNECT", "CLOSE"},
               NEW k \in 1 .. Len(uart'), uart'[k].t = "ok", sockets[cmd.sock].conn # INVALID
        PROVE  \E j \in 1 .. k - 1 : ClosedAt(j, cmd.conn)'
    <3>1. k + e \in 1 .. Len(uart) /\ uart[k + e].t = "ok"
      BY <2>1 DEF SameOks
    <3>2. PICK j \in 1 .. (k + e) - 1 : ClosedAt(j, cmd.conn)
      BY <2>1, <3>1 DEF Stopping
    <3>3. j \in 1 .. Len(uart)
      BY <3>1
    <3>4. j - e \in 1 .. Len(uart') /\ uart'[j - e] = uart[j]
      BY <3>2, <3>3 DEF KeepsNotices, ClosedAt
    <3>5. PICK i : i = j - e
      OBVIOUS
    <3>6. i \in 1 .. k - 1 /\ ClosedAt(i, cmd.conn)'
      BY <3>2, <3>4, <3>5 DEF ClosedAt
    <3> QED
      BY <3>6
  <2> QED
    BY <1>1, <2>1 DEF Stopping
<1> QED
  BY <1>3, <1>4

\* Between commands, and when one is over, nothing is awaited.
LEMMA AtRest ==
  ASSUME AnswerInv, pc \in {"idle", "finish"}
  PROVE  todo = NoTask /\ result = <<>> /\ \A k \in 1 .. Len(uart) : uart[k].t \notin {"ok", "error"}
  BY DEF AnswerInv, OneAnswer, IsAnswer

\* A client's table changes where nothing is under way.
LEMMA WireFrame ==
  ASSUME ClientWire, UNCHANGED <<setup, link, uart>>,
         \A c \in Conns : map'[c] = INVALID => map[c] = INVALID \/ (link[c] = NoPeer /\ Quiet(c))
  PROVE  ClientWire'
<1>1. \A c : (Quiet(c)' <=> Quiet(c)) /\ (Clear(0, End, c)' <=> Clear(0, End, c))
  BY DEF Quiet, Clear, End, ClosedAt, PayloadAt
<1>2. \A c, k : (ClosedAt(k, c)' <=> ClosedAt(k, c)) /\ (PayloadAt(k, c)' <=> PayloadAt(k, c))
  BY DEF ClosedAt, PayloadAt
<1> QED
  BY <1>1, <1>2 DEF ClientWire

\* The end of a call.
LEMMA DoneStep ==
  ASSUME PayloadInv, Done, pc \in {"idle", "finish"}
  PROVE  /\ Command' /\ Starting' /\ Stopping' /\ cmd'.kind = "none"
         /\ UNCHANGED <<setup, conn, reading, link, uart, dest, granted, peers>>
<1>1. Types /\ AnswerInv /\ Command
  BY DEF PayloadInv, AnswerInv
<1>2. /\ cmd'.kind = "none" /\ pc' = "idle"
      /\ UNCHANGED <<setup, conn, reading, link, todo, uart, dest, granted, peers>>
  BY <1>1, DoneIs
<1>3. todo = NoTask /\ todo.kind = "none"
  BY <1>1, AtRest DEF NoTask
<1> QED
  BY <1>2, <1>3 DEF Command, Starting, Stopping

\* Calls that return at once, and the return of no_os_socket_send.
LEMMA CallStep ==
  ASSUME PayloadInv,
         \/ Open \/ Accept \/ SendReturns
         \/ \E s \in Sockets : Close(s) \/ Recv(s)
  PROVE  Command' /\ Traffic' /\ Tables' /\ ClientInv'
<1>1. /\ Types /\ Command /\ Traffic /\ Tables /\ ClientInv
      /\ sockets \in [Sockets -> SocketType]
  BY DEF PayloadInv, AnswerInv, Types
<1>2. Done /\ pc \in {"idle", "finish"} /\ UNCHANGED map
      /\ cmd.kind \in {"none", "SEND"}
  BY <1>1 DEF Open, Accept, SendReturns, Close, Recv, Idle, Returned, Command
<1>3. /\ Command' /\ Starting' /\ Stopping' /\ cmd'.kind = "none"
      /\ UNCHANGED <<setup, conn, link, uart, dest, peers>>
  BY <1>2, DoneStep
<1>4. Traffic' /\ ClientWire'
  BY <1>1, <1>2, <1>3, TrafficFrame, WireFrame DEF ClientInv
<1>5. \A s \in Sockets :
        /\ sockets'[s].conn = sockets[s].conn
        /\ sockets'[s].state \in {"CONNECTED", "WAITING_ACCEPT"}
             <=> sockets[s].state \in {"CONNECTED", "WAITING_ACCEPT"}
        /\ sockets'[s].ring \in {sockets[s].ring, <<>>}
  <2>0. \A s \in Sockets : sockets[s] \in SocketType
    BY <1>1
  <2>1. CASE Open
    <3>1. PICK s \in Sockets : sockets[s].state = "UNUSED"
                               /\ sockets' = [sockets EXCEPT ![s].state = "DISCONNECTED"]
      BY <2>1, FirstFound DEF Open, SocketsIn
    <3> QED
      BY <1>1, <2>0, <3>1 DEF SocketType
  <2>2. CASE Accept
    <3>1. PICK s \in Sockets : sockets[s].state = "WAITING_ACCEPT"
                               /\ sockets' = [sockets EXCEPT ![s].state = "CONNECTED"]
      BY <2>2, FirstFound DEF Accept, SocketsIn
    <3> QED
      BY <1>1, <2>0, <3>1 DEF SocketType
  <2>3. CASE SendReturns
    BY <2>3 DEF SendReturns
  <2>4. ASSUME NEW s \in Sockets, Close(s) PROVE <1>5!:
    <3>1. sockets[s].state = "DISCONNECTED" /\ sockets' = [sockets EXCEPT ![s] = Closed(@)]
      BY <2>4 DEF Close
    <3> QED
      BY <1>1, <2>0, <3>1 DEF SocketType, Closed
  <2>5. ASSUME NEW s \in Sockets, Recv(s) PROVE <1>5!:
    <3>1. sockets' = [sockets EXCEPT ![s].ring = <<>>]
      BY <2>5 DEF Recv
    <3> QED
      BY <1>1, <2>0, <3>1 DEF SocketType
  <2> QED
    BY <2>1, <2>2, <2>3, <2>4, <2>5
<1>6. \A s \in Sockets : Busy(s)' <=> Busy(s)
  BY <1>2, <1>3, <1>5 DEF Busy
<1>7. Tables'
  BY <1>1, <1>2, <1>3, <1>5, <1>6, TablesFrame
<1> QED
  BY <1>3, <1>4, <1>7 DEF ClientInv

\* wifi_socket_connect returns.
LEMMA ConnectedStep ==
  ASSUME PayloadInv, Connected, spoiled' = {}
  PROVE  Command' /\ Traffic' /\ Tables' /\ ClientInv'
<1>1. /\ Types /\ AnswerInv /\ Command /\ Traffic /\ Tables /\ ClientInv
      /\ sockets \in [Sockets -> SocketType] /\ map \in [Conns -> Sockets \cup {INVALID}]
      /\ cmd \in TaskType /\ cmd.sock \in Sockets /\ \A s \in Sockets : sockets[s] \in SocketType
  BY DEF PayloadInv, AnswerInv, Types, TaskType
<1>2. /\ Done /\ pc = "finish" /\ cmd.kind = "START" /\ ~setup.server
  BY <1>1 DEF Connected, Returned, Command
<1>3. /\ Command' /\ Starting' /\ Stopping' /\ cmd'.kind = "none"
      /\ UNCHANGED <<setup, conn, link, uart, dest, peers>>
  BY <1>2, DoneStep
<1>4. CASE ret = 0
  <2>1. UNCHANGED map /\ sockets' = [sockets EXCEPT ![cmd.sock].state = "CONNECTED"]
    BY <1>4 DEF Connected
  <2>2. Traffic' /\ ClientWire'
    BY <1>1, <1>3, <2>1, TrafficFrame, WireFrame DEF ClientInv
  <2>3. \A s \in Sockets : /\ sockets'[s].conn = sockets[s].conn
                           /\ sockets'[s].state = IF s = cmd.sock THEN "CONNECTED"
                                                                  ELSE sockets[s].state
                           /\ sockets'[s].ring = sockets[s].ring
    BY <1>1, <2>1 DEF SocketType
  <2>4. \A s \in Sockets : Busy(s)' <=> Busy(s)
    BY <1>2, <1>3, <2>3 DEF Busy
  <2>5. Tables'
    BY <1>1, <1>3, <2>1, <2>3, <2>4, TablesFrame
  <2> QED
    BY <1>3, <2>2, <2>5 DEF ClientInv
<1>5. CASE ret # 0
  <2>1. PICK s, c : s = cmd.sock /\ c = cmd.conn
    OBVIOUS
  <2>2. granted # cmd.n
    BY <1>5 DEF Connected
  <2>3. /\ sockets[s].conn = c /\ ~conn[c].active /\ link[c] = NoPeer /\ Quiet(c)
        /\ c \in Conns /\ s \in Sockets
    BY <1>1, <1>2, <2>1, <2>2 DEF ClientInv, Starting, Command
  <2>4. PICK r : r = Release(s, sockets, map) /\ sockets' = r[1] /\ map' = r[2]
    BY <1>5, <2>1 DEF Connected
  <2>5. /\ \A b \in Sockets : sockets'[b] = IF b = s THEN [sockets[s] EXCEPT !.conn = INVALID]
                                                   ELSE sockets[b]
        /\ \A d \in Conns : map'[d] = IF d = c THEN INVALID ELSE map[d]
    BY <1>1, <2>3, <2>4, ReleaseIs
  <2>6. \A b \in Sockets : /\ sockets'[b].conn = IF b = s THEN INVALID ELSE sockets[b].conn
                           /\ sockets'[b].state = sockets[b].state
                           /\ sockets'[b].ring = sockets[b].ring
    BY <1>1, <2>3, <2>5 DEF SocketType
  <2>7. Traffic' /\ ClientWire'
    BY <1>1, <1>2, <1>3, <2>3, <2>5, TrafficFrame, WireFrame DEF ClientInv
  <2>8. Rings' /\ Ringed'
    BY <1>1, <1>3, <2>3, <2>5, <2>6 DEF Tables, Rings, Ringed
  <2>9. \A b \in Sockets : b # s => (Busy(b)' <=> Busy(b))
    BY <1>2, <1>3, <2>1, <2>6 DEF Busy
  <2>10. Mapped'
    <3>1. ASSUME NEW d \in Conns, map'[d] # INVALID
          PROVE  sockets'[map'[d]].conn = d /\ Busy(map[d])'
      <4>1. PICK b \in Sockets : b = map[d] /\ b = map'[d] /\ d # c
        BY <1>1, <2>5, <3>1
      <4>2. sockets[b].conn = d /\ Busy(b)
        BY <1>1, <3>1, <4>1 DEF Tables, Mapped
      <4>3. b # s
        BY <2>3, <4>1, <4>2
      <4> QED
        BY <2>6, <2>9, <4>1, <4>2, <4>3
    <3>2. ASSUME NEW b \in Sockets, Busy(b)', sockets'[b].conn # INVALID
          PROVE  map'[sockets'[b].conn] = b
      <4>1. b # s /\ sockets'[b].conn = sockets[b].conn /\ Busy(b)
        BY <2>6, <2>9, <3>2
      <4>2. map[sockets[b].conn] = b
        BY <1>1, <3>2, <4>1 DEF Tables, Mapped
      <4>3. Busy(s) /\ map[c] = s
        BY <1>1, <1>2, <2>1, <2>3, Numbers DEF Busy, Tables, Mapped
      <4>4. sockets[b].conn # c /\ sockets[b].conn \in Conns
        BY <1>1, <3>2, <4>1, <4>2, <4>3 DEF SocketType
      <4> QED
        BY <2>5, <4>1, <4>2, <4>4
    <3> QED
      BY <3>1, <3>2 DEF Mapped
  <2> QED
    BY <1>3, <2>7, <2>8, <2>10 DEF ClientInv, Tables
<1> QED
  BY <1>4, <1>5

\* wifi_socket_disconnect returns, or the part of wifi_socket_close that it shares.
LEMMA DisconnectedStep ==
  ASSUME PayloadInv, Disconnected PROVE Command' /\ Traffic' /\ Tables' /\ ClientInv'
<1>1. /\ Types /\ AnswerInv /\ Command /\ Traffic /\ Tables /\ ClientInv
      /\ sockets \in [Sockets -> SocketType]
      /\ cmd.sock \in Sockets /\ \A s \in Sockets : sockets[s] \in SocketType
  BY DEF PayloadInv, AnswerInv, Types, TaskType
<1>2. Done /\ pc = "finish" /\ cmd.kind \in {"DISCONNECT", "CLOSE"}
  BY DEF Disconnected, Returned
<1>3. /\ Command' /\ Starting' /\ Stopping' /\ cmd'.kind = "none"
      /\ UNCHANGED <<setup, conn, link, uart, dest, peers>>
  BY <1>2, DoneStep
<1>4. UNCHANGED map /\ \A s \in Sockets :
        /\ sockets'[s].conn = sockets[s].conn
        /\ sockets[s].conn # INVALID => sockets'[s].state = sockets[s].state
        /\ sockets'[s].ring \in {sockets[s].ring, <<>>}
  <2>1. CASE ret = 0
    <3>1. sockets[cmd.sock].conn = INVALID
      BY <1>1, <1>2, <2>1 DEF ClientInv, Stopping, OkTaken
    <3>2. PICK r : /\ r = Release(cmd.sock, sockets, map) /\ map' = r[2]
                   /\ sockets' = [r[1] EXCEPT ![cmd.sock] =
                                    IF cmd.kind = "CLOSE" THEN Closed(@)
                                    ELSE [@ EXCEPT !.state = "DISCONNECTED"]]
      BY <2>1 DEF Disconnected
    <3>3. r = <<sockets, map>>
      BY <1>1, <3>1, <3>2, ReleaseIs
    <3>4. UNCHANGED map /\ sockets' = [sockets EXCEPT ![cmd.sock] =
                                         IF cmd.kind = "CLOSE" THEN Closed(@)
                                         ELSE [@ EXCEPT !.state = "DISCONNECTED"]]
      BY <3>2, <3>3
    <3>5. \A x \in SocketType : /\ Closed(x).conn = x.conn
                                /\ Closed(x).ring \in {x.ring, <<>>}
      BY DEF Closed, SocketType
    <3> QED
      BY <1>1, <3>1, <3>4, <3>5 DEF SocketType
  <2>2. CASE ret # 0
    BY <2>2 DEF Disconnected
  <2> QED
    BY <2>1, <2>2
<1>5. \A s \in Sockets : sockets[s].conn # INVALID => (Busy(s)' <=> Busy(s))
  BY <1>2, <1>3, <1>4 DEF Busy
<1>6. Tables'
  BY <1>1, <1>3, <1>4, <1>5, TablesFrame
<1>7. Traffic' /\ ClientWire'
  BY <1>1, <1>3, <1>4, TrafficFrame, WireFrame DEF ClientInv
<1> QED
  BY <1>3, <1>6, <1>7 DEF ClientInv

\* A command is sent that starts no connection.
LEMMA IssueStep ==
  ASSUME StaysOn, PayloadInv, NEW s \in Sockets,
         Send(s) \/ \E k \in {"DISCONNECT", "CLOSE"} : Disconnect(s, k)
  PROVE  Command' /\ Traffic' /\ Tables' /\ ClientInv'
<1>1. /\ Types /\ AnswerInv /\ Command /\ Traffic /\ Tables /\ ClientInv
      /\ sockets[s].conn \in Conns \cup {INVALID} /\ setup \in Setups
  BY DEF PayloadInv, AnswerInv, Types, SocketType
<1>2. /\ pc = "idle" /\ cmd.kind = "none" /\ UNCHANGED <<sockets, map>>
      /\ sockets[s].state \in {"CONNECTED", "WAITING_ACCEPT"}
  BY <1>1 DEF Send, Disconnect, Idle, Command
<1>3. PICK k \in {"SEND", "DISCONNECT", "CLOSE"} :
        Issue(k, s, sockets[s].conn) /\ (k # "SEND" => ~setup.server)
  BY <1>1 DEF Send, Disconnect, MayHangUp, StaysOn
<1>4. /\ cmd'.kind = k /\ cmd'.sock = s /\ cmd'.conn = sockets[s].conn
      /\ todo'.sock = s /\ todo'.conn = sockets[s].conn
      /\ todo'.kind = IF k \in {"CLOSE", "DISCONNECT"} THEN "STOP" ELSE k
      /\ pc' = (IF k = "SEND" THEN "written" ELSE "answer")
      /\ UNCHANGED <<setup, conn, result, link, uart, ret, dest, peers>>
  BY <1>1, <1>3, IssueIs
<1>5. result = <<>> /\ \A j \in 1 .. Len(uart) : uart[j].t # "ok"
  BY <1>1, <1>2, AtRest
<1>6. Command'
  BY <1>3, <1>4 DEF Command
<1>7. Traffic' /\ ClientWire'
  BY <1>1, <1>2, <1>4, TrafficFrame, WireFrame DEF ClientInv
<1>8. \A b \in Sockets : Busy(b)' <=> Busy(b)
  BY <1>2, <1>3, <1>4 DEF Busy
<1>9. Tables'
  BY <1>1, <1>2, <1>4, <1>8, TablesFrame
<1>10. Busy(s)'
  BY <1>2 DEF Busy
<1>11. ~OkTaken'
  BY <1>3, <1>4, <1>5 DEF OkTaken
<1>12. Starting' /\ Stopping'
  BY <1>2, <1>3, <1>4, <1>5, <1>10, <1>11 DEF Starting, Stopping
<1> QED
  BY <1>6, <1>7, <1>9, <1>12 DEF ClientInv

\* wifi_socket_connect takes a connection that nothing is under way on.
LEMMA ConnectStep ==
  ASSUME PayloadInv, NEW s \in Sockets, Connect(s)
  PROVE  Command' /\ Traffic' /\ Tables' /\ ClientInv'
<1>1. /\ Types /\ AnswerInv /\ Command /\ Traffic /\ Tables /\ ClientInv
      /\ sockets \in [Sockets -> SocketType] /\ map \in [Conns -> Sockets \cup {INVALID}]
      /\ \A b \in Sockets : sockets[b] \in SocketType
  BY DEF PayloadInv, AnswerInv, Types
<1>2. PICK c \in Conns : /\ map[c] = INVALID /\ map' = [map EXCEPT ![c] = s]
                         /\ sockets' = [sockets EXCEPT ![s].conn = c]
                         /\ Issue("START", s, c)
  BY FirstFound DEF Connect
<1>3. pc = "idle" /\ cmd.kind = "none" /\ ~setup.server /\ sockets[s].state = "DISCONNECTED"
  BY <1>1 DEF Connect, Idle, Command
<1>4. /\ cmd'.kind = "START" /\ cmd'.sock = s /\ cmd'.conn = c
      /\ todo'.sock = s /\ todo'.conn = c /\ todo'.kind = "START" /\ pc' = "answer"
      /\ UNCHANGED <<setup, conn, result, link, uart, ret, dest, peers>>
  BY <1>1, <1>2, IssueIs
<1>5. link[c] = NoPeer /\ Quiet(c) /\ ~conn[c].active
  BY <1>1, <1>2, <1>3 DEF ClientInv, ClientWire, Tables, Ringed
<1>6. Command'
  BY <1>2, <1>3, <1>4 DEF Command
<1>7. \A d \in Conns : map'[d] = IF d = c THEN s ELSE map[d]
  BY <1>1, <1>2
<1>8. \A b \in Sockets : /\ sockets'[b].conn = IF b = s THEN c ELSE sockets[b].conn
                         /\ sockets'[b].state = sockets[b].state
                         /\ sockets'[b].ring = sockets[b].ring
  BY <1>1, <1>2 DEF SocketType
<1>9. Traffic' /\ ClientWire'
  BY <1>1, <1>2, <1>3, <1>4, <1>5, <1>7, Numbers, TrafficFrame, WireFrame DEF ClientInv
<1>10. Rings' /\ Ringed'
  BY <1>1, <1>4, <1>5, <1>7, <1>8 DEF Tables, Rings, Ringed
<1>11. /\ \A b \in Sockets : b # s => (Busy(b)' <=> Busy(b))
       /\ Busy(s)' /\ ~Busy(s)
  BY <1>3, <1>4, <1>8 DEF Busy
<1>12. Mapped'
  <2>1. ASSUME NEW d \in Conns, map'[d] # INVALID
        PROVE  sockets'[map'[d]].conn = d /\ Busy(map[d])'
    <3>1. CASE d = c
      BY <1>7, <1>8, <1>11, <3>1
    <3>2. CASE d # c
      <4>1. PICK b \in Sockets : b = map[d] /\ b = map'[d]
        BY <1>1, <1>7, <2>1, <3>2
      <4>2. sockets[b].conn = d /\ Busy(b)
        BY <1>1, <2>1, <4>1 DEF Tables, Mapped
      <4> QED
        BY <1>8, <1>11, <4>1, <4>2
    <3> QED
      BY <3>1, <3>2
  <2>2. ASSUME NEW b \in Sockets, Busy(b)', sockets'[b].conn # INVALID
        PROVE  map'[sockets'[b].conn] = b
    <3>1. CASE b = s
      BY <1>7, <1>8, <3>1
    <3>2. CASE b # s
      <4>1. map[sockets[b].conn] = b /\ sockets[b].conn \in Conns
        BY <1>1, <1>8, <1>11, <2>2, <3>2 DEF Tables, Mapped, SocketType
      <4> QED
        BY <1>2, <1>7, <1>8, <3>2, <4>1, Numbers
    <3> QED
      BY <3>1, <3>2
  <2> QED
    BY <2>1, <2>2 DEF Mapped
<1>13. Quiet(c)'
  BY <1>4, <1>5 DEF Quiet, ClosedAt, PayloadAt
<1>14. Starting' /\ Stopping'
  BY <1>4, <1>5, <1>8, <1>13 DEF Starting, Stopping
<1> QED
  BY <1>6, <1>9, <1>10, <1>12, <1>14 DEF ClientInv, Tables

\* Steps of at_run_cmd and the loss of a command leave the sockets and the line alone.
LEMMA WaitStep ==
  ASSUME PayloadInv,
         \/ WaitingSend \/ TakeAnswer \/ TakeSendOk \/ WritePayload \/ Timeout \/ Lose
         \/ UartError \/ UNCHANGED vars
  PROVE  Command' /\ Traffic' /\ Tables' /\ ClientInv'
<1> USE DEF host, module, parser, history
<1>1. /\ Types /\ AnswerInv /\ OneAnswer /\ Command /\ Traffic /\ Tables /\ ClientInv
      /\ cmd \in TaskType
  BY DEF PayloadInv, AnswerInv, Types
<1>2. UNCHANGED <<setup, sockets, map, conn, link, uart, cmd, dest, granted, peers>>
  BY <1>1, TakeIs DEF WaitingSend, WritePayload, Timeout, Lose, UartError, vars
<1>3. \A s \in Sockets : Busy(s)' <=> Busy(s)
  BY <1>2 DEF Busy
<1>4. Traffic' /\ ClientWire' /\ Tables'
  BY <1>1, <1>2, <1>3, TrafficFrame, WireFrame, TablesFrame DEF ClientInv
<1>5. Command' /\ (cmd.kind \in {"DISCONNECT", "CLOSE"} /\ OkTaken' => OkTaken)
  <2>1. CASE TakeAnswer \/ TakeSendOk
    <3>1. /\ result # <<>> /\ (ret' = 0 => result[1].t = "ok")
          /\ pc = "answer" => pc' = "finish"
          /\ pc = "send" => pc' \in {"prompt", "finish"}
          /\ pc \in {"answer", "send"}
          /\ Len(result) = 1 => result' = <<>>
          /\ UNCHANGED <<cmd, todo, setup>>
      BY <1>1, <2>1, TakeIs
    <3>2. result' = <<>>
      BY <1>1, <3>1 DEF OneAnswer
    <3>3. OkTaken' => OkTaken
      BY <3>1, <3>2 DEF OkTaken
    <3> QED
      BY <1>1, <3>1, <3>3 DEF Command
  <2>2. CASE WaitingSend \/ UartError
    <3>1. /\ pc' = pc \/ (pc = "written" /\ pc' = "send")
          /\ UNCHANGED <<cmd, todo, setup, result, ret>>
      BY <2>2 DEF WaitingSend, UartError
    <3>2. OkTaken' => OkTaken
      BY <3>1 DEF OkTaken
    <3> QED
      BY <1>1, <3>1, <3>2 DEF Command
  <2>3. CASE WritePayload
    <3>1. /\ pc = "prompt" /\ todo' = [cmd EXCEPT !.kind = "PAYLOAD"] /\ pc' = "answer"
          /\ UNCHANGED <<cmd, setup>>
      BY <2>3 DEF WritePayload
    <3>2. todo'.kind = "PAYLOAD" /\ todo'.sock = cmd.sock /\ todo'.conn = cmd.conn
      BY <1>1, <3>1 DEF TaskType
    <3> QED
      BY <1>1, <3>1, <3>2 DEF Command
  <2>4. CASE Timeout
    <3>1. /\ pc \in {"answer", "send"} /\ result = <<>> /\ ret' = -1 /\ pc' = "finish"
          /\ UNCHANGED <<cmd, todo, result, setup>>
      BY <2>4 DEF Timeout, Expired
    <3>2. ~OkTaken'
      BY <3>1 DEF OkTaken
    <3> QED
      BY <1>1, <3>1, <3>2 DEF Command
  <2>5. CASE Lose
    <3>1. todo' = NoTask /\ UNCHANGED <<pc, cmd, ret, result, setup>>
      BY <2>5 DEF Lose
    <3>2. OkTaken' => OkTaken
      BY <3>1 DEF OkTaken
    <3>3. todo'.kind = "none"
      BY <3>1 DEF NoTask
    <3> QED
      BY <1>1, <3>1, <3>2, <3>3 DEF Command
  <2>6. CASE UNCHANGED vars
    BY <1>1, <2>6 DEF vars, OkTaken, Command
  <2> QED
    BY <2>1, <2>2, <2>3, <2>4, <2>5, <2>6
<1>7. \A c : /\ Quiet(c)' <=> Quiet(c)
             /\ \A k : ClosedAt(k, c)' <=> ClosedAt(k, c)
  BY <1>2 DEF Quiet, ClosedAt, PayloadAt
<1>8. Busy(cmd.sock)' <=> Busy(cmd.sock)
  BY <1>2 DEF Busy
<1>9. Starting' /\ Stopping'
  BY <1>1, <1>2, <1>5, <1>7, <1>8 DEF ClientInv, Starting, Stopping
<1> QED
  BY <1>4, <1>5, <1>9 DEF ClientInv

\* The interrupt has taken something else than an answer of success.
LEMMA OksMoveUp ==
  ASSUME Types, Tokens, NEW a, Received(a), a # "ok" PROVE SameOks(1)
<1>1. /\ Len(uart) > 0 /\ Len(uart') = Len(uart) - 1 /\ uart[1].t = a
      /\ \A k \in 1 .. Len(uart') : uart'[k] = uart[k + 1]
      /\ Len(uart) \in Nat /\ Len(uart') \in Nat
  BY Took, MovedUp
<1>2. \A k \in 1 .. Len(uart) : uart[k].t = "ok" => k - 1 \in 1 .. Len(uart') /\ (k - 1) + 1 = k
  BY <1>1
<1>3. \A k \in 1 .. Len(uart') : k + 1 \in 1 .. Len(uart)
  BY <1>1
<1> QED
  BY <1>1, <1>2, <1>3 DEF SameOks

\* What takes part in no table: a prompt, an answer.
LEMMA RxTextStep ==
  ASSUME PayloadInv, RxPrompt \/ RxAnswer
  PROVE  Command' /\ Traffic' /\ Tables' /\ ClientInv'
<1>1. /\ Types /\ Tokens /\ AnswerInv /\ OneAnswer /\ Command /\ Traffic /\ Tables /\ ClientInv
      /\ cmd \in TaskType
  BY DEF PayloadInv, AnswerInv, Types
<1>2. UNCHANGED <<setup, sockets, map, conn, link, todo, pc, cmd, ret, dest, granted, peers>>
  BY DEF RxPrompt, RxAnswer, history
<1>3. PICK a \in {"prompt", "ok", "error"} : Received(a)
  BY DEF RxPrompt, RxAnswer
<1>4. SamePayloads(1) /\ SameNotices(1) /\ Len(uart) \in Nat /\ Len(uart') \in Nat
  BY <1>1, <1>3, MovedUp
<1>5. /\ Len(uart) > 0 /\ Len(uart') = Len(uart) - 1 /\ uart[1].t = a /\ Head(uart) = uart[1]
      /\ \A k \in 1 .. Len(uart') : uart'[k] = uart[k + 1]
  BY <1>1, <1>3, Took
<1>6. Traffic' /\ ClientWire' /\ (\A c : Quiet(c) => Quiet(c)')
  BY <1>1, <1>2, <1>4, Named, TrafficMoves, WireMoves DEF ClientInv
<1>7. \A s \in Sockets : Busy(s)' <=> Busy(s)
  BY <1>2 DEF Busy
<1>8. Tables'
  BY <1>1, <1>2, <1>7, TablesFrame
<1>9. Command'
  BY <1>1, <1>2 DEF Command
<1>10. Busy(cmd.sock)' <=> Busy(cmd.sock)
  BY <1>2 DEF Busy
<1>11. CASE RxPrompt
  <2>1. UNCHANGED result /\ a = "prompt"
    BY <1>5, <1>11, Took, <1>1 DEF RxPrompt
  <2>2. SameOks(1)
    BY <1>1, <1>3, <2>1, OksMoveUp
  <2>3. Starting' /\ Stopping'
    BY <1>1, <1>2, <1>4, <1>6, <1>10, <2>1, <2>2, CommandMoves DEF ClientInv, Command, SameNotices, KeepsNotices
  <2> QED
    BY <1>6, <1>8, <1>9, <2>3 DEF ClientInv
<1>12. CASE RxAnswer
  <2>1. a \in {"ok", "error"} /\ result' \in {Append(result, uart[1]), <<>>}
    BY <1>1, <1>5, <1>12, Took DEF RxAnswer
  <2>2. 1 \in 1 .. Len(uart) /\ IsAnswer(1)
    BY <1>4, <1>5, <2>1 DEF IsAnswer
  <2>3. /\ result = <<>> /\ pc \in {"answer", "written", "send"}
        /\ \A j \in 1 .. Len(uart) : IsAnswer(j) => j = 1
    BY <1>1, <2>2 DEF OneAnswer
  <2>4. result' # <<>> => result'[1] = uart[1]
    BY <2>1, <2>3
  <2>5. \A j \in 1 .. Len(uart') : uart'[j].t # "ok"
    <3>1. ASSUME NEW j \in 1 .. Len(uart') PROVE ~IsAnswer(j + 1)
      BY <1>4, <1>5, <2>3
    <3> QED
      BY <1>5, <3>1 DEF IsAnswer
  <2>6. OkTaken' => a = "ok"
    BY <1>2, <1>5, <2>3, <2>4 DEF OkTaken
  <2>8. cmd.kind \in {"DISCONNECT", "CLOSE"} /\ a = "ok" => sockets[cmd.sock].conn = INVALID
    <3>1. \A j \in 1 .. 1 - 1 : FALSE
      OBVIOUS
    <3> QED
      BY <1>1, <1>5, <2>2, <3>1 DEF ClientInv, Stopping
  <2>9. Starting' /\ Stopping'
    BY <1>1, <1>2, <1>6, <1>10, <2>5, <2>6, <2>8 DEF ClientInv, Starting, Stopping
  <2> QED
    BY <1>6, <1>8, <1>9, <2>9 DEF ClientInv
<1> QED
  BY <1>11, <1>12

\* A payload of a connection that has a socket, or that will be dropped.
LEMMA PayloadLands ==
  ASSUME PayloadInv, RxPayload, ~Binds(uart[1].n) PROVE Receiving' /\ Tables' /\ ClientInv'
<1>1. /\ Types /\ Tokens /\ Command /\ Traffic /\ Tables /\ ClientInv
      /\ sockets \in [Sockets -> SocketType] /\ map \in [Conns -> Sockets \cup {INVALID}]
      /\ dest \in [Peers -> Sockets \cup {INVALID}] /\ conn \in [Conns -> ConnType]
      /\ \A b \in Sockets : sockets[b] \in SocketType
      /\ cmd.sock \in Sockets
  BY DEF PayloadInv, AnswerInv, Types, TaskType
<1>2. PICK c, q, s : c = uart[1].n /\ q = uart[1].p /\ s = PayloadSocket(c)
  OBVIOUS
<1>3. /\ Received("ipd") /\ c \in Conns /\ q \in Peers /\ q \in 1 .. peers
      /\ s \in Sockets \cup {INVALID} /\ map' = map
      /\ conn' = [conn EXCEPT ![c] = [active |-> s # INVALID, cb |-> s]]
      /\ sockets' = sockets /\ reading' = [conn |-> c, p |-> q]
      /\ dest' = (IF dest[q] = INVALID THEN [dest EXCEPT ![q] = s] ELSE dest)
      /\ UNCHANGED <<setup, result, link, todo, pc, cmd, ret, granted, peers>>
  BY <1>1, <1>2, PayloadIs
<1>4. /\ SamePayloads(1) /\ SameNotices(1) /\ SameOks(1) /\ Len(uart) \in Nat /\ Len(uart') \in Nat
  BY <1>1, <1>3, MovedUp, OksMoveUp
<1>5. 1 \in 1 .. Len(uart) /\ PayloadAt(1, c) /\ Clear(0, 1, c)
  BY <1>1, <1>2, <1>3, <1>4, Took DEF PayloadAt, Clear
<1>6. dest[q] = map[c]
  BY <1>1, <1>2, <1>3, <1>5 DEF Traffic, Arriving
<1>7. s = map[c]
  BY <1>1, <1>2, <1>3 DEF Binds, PayloadSocket, NewConnection, Tables, Ringed
<1>8. dest' = dest
  BY <1>1, <1>3, <1>6, <1>7
<1>10. \A d \in Conns : conn'[d] = IF d = c THEN [active |-> s # INVALID, cb |-> s] ELSE conn[d]
  BY <1>1, <1>3
<1>9. Receiving'
  BY <1>3, <1>6, <1>7, <1>8, <1>10 DEF Receiving
<1>11. Rings'
  BY <1>1, <1>3, <1>8 DEF Tables, Rings
<1>12. Ringed'
  BY <1>1, <1>3, <1>7, <1>10 DEF Tables, Ringed
<1>13. \A r \in Sockets : Busy(r)' <=> Busy(r)
  BY <1>3 DEF Busy
<1>14. Mapped'
  BY <1>1, <1>3, <1>13, MappedFrame DEF Tables
<1>15. ClientWire' /\ \A d : Quiet(d) => Quiet(d)'
  BY <1>1, <1>3, <1>4, WireMoves DEF ClientInv
<1>16. cmd.conn \in Conns /\ ~conn[cmd.conn].active /\ Quiet(cmd.conn) => ~conn'[cmd.conn].active
  BY <1>5, <1>10 DEF Quiet
<1>17. Starting' /\ Stopping'
  BY <1>1, <1>3, <1>4, <1>13, <1>15, <1>16, CommandMoves DEF ClientInv, Command, SameNotices, KeepsNotices
<1> QED
  BY <1>9, <1>11, <1>12, <1>14, <1>15, <1>17 DEF Tables, ClientInv

\* The first payload of a client of a server: it gets a socket of the backlog.
LEMMA PayloadBinds ==
  ASSUME PayloadInv, RxPayload, Binds(uart[1].n) PROVE Receiving' /\ Tables' /\ ClientInv'
<1>1. /\ Types /\ Tokens /\ Command /\ Traffic /\ Tables /\ ClientInv
      /\ sockets \in [Sockets -> SocketType] /\ map \in [Conns -> Sockets \cup {INVALID}]
      /\ dest \in [Peers -> Sockets \cup {INVALID}] /\ conn \in [Conns -> ConnType]
      /\ \A b \in Sockets : sockets[b] \in SocketType
  BY DEF PayloadInv, AnswerInv, Types
<1>2. PICK c, q, s : c = uart[1].n /\ q = uart[1].p /\ s = PayloadSocket(c) /\ Binds(c)
  OBVIOUS
<1>3. /\ Received("ipd") /\ c \in Conns /\ q \in Peers /\ q \in 1 .. peers
      /\ map' = [map EXCEPT ![c] = s]
      /\ conn' = [conn EXCEPT ![c] = [active |-> s # INVALID, cb |-> s]]
      /\ sockets' = Bound(s, c) /\ reading' = [conn |-> c, p |-> q]
      /\ dest' = (IF dest[q] = INVALID THEN [dest EXCEPT ![q] = s] ELSE dest)
      /\ UNCHANGED <<setup, result, link, todo, pc, cmd, ret, peers>>
  <2>1. /\ Received("ipd") /\ c \in Conns /\ q \in Peers /\ q \in 1 .. peers
        /\ map' = (IF Binds(c) THEN [map EXCEPT ![c] = s] ELSE map)
        /\ conn' = [conn EXCEPT ![c] = [active |-> s # INVALID, cb |-> s]]
        /\ sockets' = (IF Binds(c) THEN Bound(s, c) ELSE sockets)
        /\ reading' = [conn |-> c, p |-> q]
        /\ dest' = (IF dest[q] = INVALID THEN [dest EXCEPT ![q] = s] ELSE dest)
        /\ UNCHANGED <<setup, result, link, todo, pc, cmd, ret, peers>>
    BY <1>1, <1>2, PayloadIs
  <2> QED
    BY <1>2, <2>1
<1>4. setup.server /\ s \in Initialized /\ map[c] = INVALID /\ s # INVALID
  BY <1>2, FirstFound DEF Binds, PayloadSocket, NewConnection
<1>5. s \in Sockets /\ sockets[s].state = "DISCONNECTED" /\ cmd.kind \notin {"START", "DISCONNECT", "CLOSE"}
  BY <1>1, <1>4, Numbers DEF Initialized, Command
<1>6. 1 \in 1 .. Len(uart) /\ PayloadAt(1, c) /\ Clear(0, 1, c)
  BY <1>1, <1>2, <1>3, MovedUp, Took DEF PayloadAt, Clear
<1>7. dest[q] = INVALID
  BY <1>1, <1>2, <1>3, <1>4, <1>6 DEF Traffic, Arriving
<1>8. /\ \A d \in Conns : map'[d] = IF d = c THEN s ELSE map[d]
      /\ \A d \in Conns : conn'[d] = IF d = c THEN [active |-> s # INVALID, cb |-> s] ELSE conn[d]
      /\ \A p \in Peers : dest'[p] = IF p = q THEN s ELSE dest[p]
  BY <1>1, <1>3, <1>7
<1>9. \A r \in Sockets :
        IF r = s THEN /\ sockets'[r].conn = c /\ sockets'[r].state = "WAITING_ACCEPT"
                      /\ sockets'[r].ring = sockets[r].ring
        ELSE sockets'[r] = sockets[r]
  BY <1>1, <1>3, <1>5 DEF Bound, SocketType
<1>10. Rings'
  <2>1. ASSUME NEW r \in Sockets, NEW k \in 1 .. Len(sockets'[r].ring)
        PROVE  sockets'[r].ring[k] \in 1 .. peers /\ dest'[sockets'[r].ring[k]] = r
    <3>1. sockets[r].ring \in Seq(Peers)
      BY <1>1 DEF SocketType
    <3>2. ASSUME NEW j \in 1 .. Len(sockets[r].ring)
          PROVE  sockets[r].ring[j] \in 1 .. peers /\ dest'[sockets[r].ring[j]] = r
      <4>1. /\ sockets[r].ring[j] \in Peers /\ sockets[r].ring[j] \in 1 .. peers
            /\ dest[sockets[r].ring[j]] = r
        BY <1>1, <3>1 DEF Tables, Rings
      <4> QED
        BY <1>7, <1>8, <4>1, Numbers
    <3> QED
      BY <1>9, <3>2
  <2> QED
    BY <1>3, <2>1 DEF Rings
<1>11. Ringed'
  BY <1>1, <1>3, <1>4, <1>8 DEF Tables, Ringed
<1>12. /\ Busy(s)' /\ ~Busy(s) /\ \A r \in Sockets : r # s => (Busy(r)' <=> Busy(r))
  BY <1>3, <1>5, <1>9 DEF Busy
<1>13. Mapped'
  <2>1. ASSUME NEW d \in Conns, map'[d] # INVALID
        PROVE  sockets'[map'[d]].conn = d /\ Busy(map[d])'
    <3>1. CASE d = c
      BY <1>5, <1>8, <1>9, <1>12, <3>1
    <3>2. CASE d # c
      <4>1. PICK b \in Sockets : b = map[d] /\ b = map'[d]
        BY <1>1, <1>8, <2>1, <3>2
      <4>2. sockets[b].conn = d /\ Busy(b)
        BY <1>1, <2>1, <4>1 DEF Tables, Mapped
      <4> QED
        BY <1>9, <1>12, <4>1, <4>2
    <3> QED
      BY <3>1, <3>2
  <2>2. ASSUME NEW b \in Sockets, Busy(b)', sockets'[b].conn # INVALID
        PROVE  map'[sockets'[b].conn] = b
    <3>1. CASE b = s
      BY <1>3, <1>8, <1>9, <3>1
    <3>2. CASE b # s
      <4>1. map[sockets[b].conn] = b /\ sockets[b].conn \in Conns
        BY <1>1, <1>9, <1>12, <2>2, <3>2 DEF Tables, Mapped, SocketType
      <4>2. sockets[b].conn # c
        BY <1>4, <4>1, Numbers
      <4> QED
        BY <1>8, <1>9, <3>2, <4>1, <4>2
    <3> QED
      BY <3>1, <3>2
  <2> QED
    BY <2>1, <2>2 DEF Mapped
<1>14. ClientInv'
  BY <1>3, <1>4, <1>5 DEF ClientInv, ClientWire, Starting, Stopping
<1>15. Receiving'
  BY <1>3, <1>8 DEF Receiving
<1> QED
  BY <1>10, <1>11, <1>13, <1>14, <1>15 DEF Tables

\* The header of a payload.
LEMMA PayloadStep ==
  ASSUME PayloadInv, RxPayload
  PROVE  Command' /\ Receiving' /\ Traffic' /\ Tables' /\ ClientInv'
<1>1. Command'
  BY DEF RxPayload, PayloadInv, Command
<1> QED
  BY <1>1, TrafficPayload, PayloadLands, PayloadBinds

\* The payload is in its ring.
LEMMA PayloadEndStep ==
  ASSUME PayloadInv, RxPayloadEnd PROVE Command' /\ Traffic' /\ Tables' /\ ClientInv'
<1> USE DEF module, history
<1>1. /\ Types /\ Reads /\ Command /\ Receiving /\ Traffic /\ Tables /\ ClientInv
      /\ sockets \in [Sockets -> SocketType] /\ \A s \in Sockets : sockets[s] \in SocketType
      /\ cmd.sock \in Sockets
  BY DEF PayloadInv, AnswerInv, Types, TaskType
<1>2. /\ reading # NoPayload /\ sockets' = Stored
      /\ UNCHANGED <<setup, map, conn, result, link, todo, uart, pc, cmd, ret, dest, granted, peers>>
  BY DEF RxPayloadEnd
<1>3. PICK q, b : /\ q = reading.p /\ q \in 1 .. peers
                  /\ sockets' = sockets \/ sockets' = [sockets EXCEPT ![b].ring = Append(@, q)]
                  /\ sockets' # sockets => dest[q] = b
  BY <1>1, <1>2 DEF Reads, Receiving, Stored
<1>4. \A s \in Sockets :
        /\ sockets'[s].conn = sockets[s].conn /\ sockets'[s].state = sockets[s].state
        /\ \/ sockets'[s].ring = sockets[s].ring
           \/ sockets'[s].ring = Append(sockets[s].ring, q) /\ dest[q] = s
  BY <1>1, <1>3 DEF SocketType
<1>5. Rings'
  <2>1. ASSUME NEW s \in Sockets, NEW k \in 1 .. Len(sockets'[s].ring)
        PROVE  sockets'[s].ring[k] \in 1 .. peers /\ dest[sockets'[s].ring[k]] = s
    <3>1. sockets[s].ring \in Seq(Peers) /\ q \in Peers
      BY <1>1, <1>3, Numbers DEF SocketType, Types
    <3>2. CASE sockets'[s].ring = sockets[s].ring
      BY <1>1, <2>1, <3>2 DEF Tables, Rings
    <3>3. CASE sockets'[s].ring = Append(sockets[s].ring, q) /\ dest[q] = s
      <4>1. \/ k \in 1 .. Len(sockets[s].ring) /\ sockets'[s].ring[k] = sockets[s].ring[k]
            \/ sockets'[s].ring[k] = q
        BY <3>1, <3>3
      <4> QED
        BY <1>1, <1>3, <3>3, <4>1 DEF Tables, Rings
    <3> QED
      BY <1>4, <3>2, <3>3
  <2> QED
    BY <1>2, <2>1 DEF Rings
<1>6. \A s \in Sockets : Busy(s)' <=> Busy(s)
  BY <1>2, <1>4 DEF Busy
<1>7. Ringed' /\ Mapped'
  BY <1>1, <1>2, <1>4, <1>6, MappedFrame DEF Tables, Ringed
<1>8. Traffic' /\ ClientWire'
  BY <1>1, <1>2, TrafficFrame, WireFrame DEF ClientInv
<1>9. \A c : /\ Quiet(c)' <=> Quiet(c)
             /\ \A k : ClosedAt(k, c)' <=> ClosedAt(k, c)
  BY <1>2 DEF Quiet, ClosedAt, PayloadAt
<1>10. (OkTaken' <=> OkTaken) /\ (Busy(cmd.sock)' <=> Busy(cmd.sock))
       /\ sockets'[cmd.sock].conn = sockets[cmd.sock].conn
  BY <1>1, <1>2, <1>4, <1>6 DEF OkTaken
<1>11. Starting' /\ Stopping'
  BY <1>1, <1>2, <1>9, <1>10 DEF ClientInv, Starting, Stopping
<1>12. Command'
  BY <1>1, <1>2 DEF Command
<1> QED
  BY <1>5, <1>7, <1>8, <1>11, <1>12 DEF Tables, ClientInv

\* A notice: the connection and its socket are released.
LEMMA ClosedTables ==
  ASSUME PayloadInv, RxClosed PROVE Tables'
<1>1. /\ Types /\ Tokens /\ Tables /\ Mapped
      /\ sockets \in [Sockets -> SocketType] /\ map \in [Conns -> Sockets \cup {INVALID}]
      /\ \A b \in Sockets : sockets[b] \in SocketType
  BY DEF PayloadInv, AnswerInv, Types, Tables
<1>2. PICK c : c = uart[1].n
  OBVIOUS
<1>3. /\ c \in Conns
      /\ \A d \in Conns : map'[d] = IF d = c THEN INVALID ELSE map[d]
      /\ \A r \in Sockets :
           IF map[c] # INVALID /\ r = map[c]
           THEN /\ sockets'[r].state = "DISCONNECTED" /\ sockets'[r].conn = INVALID
                /\ sockets'[r].ring = sockets[r].ring
           ELSE sockets'[r] = sockets[r]
      /\ ~conn'[c].active /\ \A d \in Conns : d # c => conn'[d] = conn[d]
      /\ UNCHANGED <<cmd, dest, peers>>
  BY <1>1, <1>2, ClosedIs
<1>4. Rings' /\ Ringed'
  BY <1>1, <1>3 DEF Tables, Rings, Ringed
<1>5. ASSUME NEW r \in Sockets, r # map[c] PROVE sockets'[r] = sockets[r] /\ (Busy(r)' <=> Busy(r))
  BY <1>3, <1>5 DEF Busy
<1>6. ASSUME NEW d \in Conns, map'[d] # INVALID
      PROVE  sockets'[map'[d]].conn = d /\ Busy(map[d])'
  <2>1. PICK b \in Sockets : b = map[d] /\ b = map'[d] /\ d # c
    BY <1>1, <1>3, <1>6
  <2>2. sockets[b].conn = d /\ Busy(b)
    BY <1>1, <1>6, <2>1 DEF Mapped
  <2>3. b # map[c]
    BY <1>1, <1>3, <2>1, <2>2, Numbers DEF Mapped
  <2> QED
    BY <1>5, <2>1, <2>2, <2>3
<1>7. ASSUME NEW b \in Sockets, Busy(b)', sockets'[b].conn # INVALID
      PROVE  map'[sockets'[b].conn] = b
  <2>1. b # map[c]
    BY <1>3, <1>7, Numbers
  <2>2. sockets'[b] = sockets[b] /\ Busy(b)
    BY <1>5, <1>7, <2>1
  <2>3. map[sockets[b].conn] = b /\ sockets[b].conn \in Conns
    BY <1>1, <1>7, <2>2 DEF Mapped, SocketType
  <2> QED
    BY <1>3, <2>1, <2>2, <2>3
<1>8. Mapped'
  BY <1>6, <1>7 DEF Mapped
<1> QED
  BY <1>4, <1>8 DEF Tables

\* A notice: what a client knows of its connections and its command.
LEMMA ClosedStep ==
  ASSUME PayloadInv, RxClosed PROVE Command' /\ Traffic' /\ Tables' /\ ClientInv'
<1>1. /\ Types /\ Tokens /\ Command /\ Tables /\ Mapped /\ ClientInv
      /\ cmd.sock \in Sockets /\ map \in [Conns -> Sockets \cup {INVALID}]
  BY DEF PayloadInv, AnswerInv, Types, Tables, TaskType
<1>2. PICK c : c = uart[1].n
  OBVIOUS
<1>3. /\ Received("closed") /\ c \in Conns
      /\ \A d \in Conns : map'[d] = IF d = c THEN INVALID ELSE map[d]
      /\ \A r \in Sockets :
           IF map[c] # INVALID /\ r = map[c]
           THEN sockets'[r].conn = INVALID
           ELSE sockets'[r] = sockets[r]
      /\ \A d \in Conns : d # c => conn'[d] = conn[d]
      /\ UNCHANGED <<setup, result, link, todo, pc, cmd, ret>>
  BY <1>1, <1>2, ClosedIs
<1>4. /\ Len(uart) > 0 /\ Len(uart') = Len(uart) - 1
      /\ Len(uart) \in Nat /\ Len(uart') \in Nat /\ SameOks(1)
      /\ \A k \in 1 .. Len(uart') : uart'[k] = uart[k + 1]
      /\ uart[1].t = "closed"
  BY <1>1, <1>3, Took, MovedUp, OksMoveUp
<1>5. /\ \A k \in 1 .. Len(uart') : /\ k + 1 \in 1 .. Len(uart) /\ k + 1 > 1
                                    /\ \A d : /\ ClosedAt(k, d)' <=> ClosedAt(k + 1, d)
                                              /\ PayloadAt(k, d)' <=> PayloadAt(k + 1, d)
      /\ 1 \in 1 .. Len(uart) /\ ClosedAt(1, c)
  BY <1>2, <1>4 DEF ClosedAt, PayloadAt
<1>6. Command'
  BY <1>1, <1>3 DEF Command
<1>7. \A d : Quiet(d) => Quiet(d)'
  BY <1>5 DEF Quiet
<1>8. ClientWire'
  <2>1. SUFFICES ASSUME ~setup.server, NEW d \in Conns
                 PROVE  /\ map'[d] = INVALID => link[d] = NoPeer /\ Quiet(d)'
                        /\ link[d] # NoPeer => Clear(0, End, d)'
                        /\ \A i, j \in 1 .. Len(uart') : i < j /\ ClosedAt(i, d)'
                             => ~ClosedAt(j, d)' /\ ~PayloadAt(j, d)'
    BY <1>3 DEF ClientWire
  <2>2. /\ map[d] = INVALID => link[d] = NoPeer /\ Quiet(d)
        /\ link[d] # NoPeer => Clear(0, End, d)
        /\ \A i, j \in 1 .. Len(uart) : i < j /\ ClosedAt(i, d)
             => ~ClosedAt(j, d) /\ ~PayloadAt(j, d)
    BY <1>1, <2>1 DEF ClientInv, ClientWire
  <2>3. ASSUME link[d] # NoPeer PROVE Clear(0, End, d)' /\ d # c
    <3>1. \A k \in 1 .. Len(uart) : ~ClosedAt(k, d)
      BY <1>4, <2>2, <2>3 DEF Clear, End
    <3> QED
      BY <1>5, <3>1 DEF Clear
  <2>4. ASSUME d = c PROVE Quiet(d)'
    BY <1>5, <2>2, <2>4 DEF Quiet
  <2>5. ASSUME NEW i \in 1 .. Len(uart'), NEW j \in 1 .. Len(uart'), i < j, ClosedAt(i, d)'
        PROVE  ~ClosedAt(j, d)' /\ ~PayloadAt(j, d)'
    <3>1. i + 1 < j + 1
      BY <2>5
    <3> QED
      BY <1>5, <2>2, <2>5, <3>1
  <2> QED
    BY <1>3, <1>7, <2>2, <2>3, <2>4, <2>5
<1>9. (OkTaken' <=> OkTaken) /\ UNCHANGED granted
  BY <1>3 DEF OkTaken, RxClosed, history
<1>10. Starting'
  <2>1. SUFFICES ASSUME cmd.kind = "START"
                 PROVE  /\ sockets'[cmd.sock].conn \in {cmd.conn, INVALID}
                        /\ granted # cmd.n => /\ sockets'[cmd.sock].conn = cmd.conn
                                              /\ ~conn'[cmd.conn].active
                                              /\ link[cmd.conn] = NoPeer /\ Quiet(cmd.conn)'
    BY <1>3, <1>9 DEF Starting
  <2>2. sockets[cmd.sock].conn \in {cmd.conn, INVALID} /\ cmd.conn \in Conns
    BY <1>1, <2>1 DEF ClientInv, Starting, Command
  <2>3. ASSUME granted # cmd.n
        PROVE  /\ sockets'[cmd.sock].conn = cmd.conn /\ ~conn'[cmd.conn].active
               /\ link[cmd.conn] = NoPeer /\ Quiet(cmd.conn)'
    <3>1. /\ sockets[cmd.sock].conn = cmd.conn /\ ~conn[cmd.conn].active
          /\ link[cmd.conn] = NoPeer /\ Quiet(cmd.conn)
      BY <1>1, <1>9, <2>1, <2>3 DEF ClientInv, Starting
    <3>2. c # cmd.conn
      BY <1>5, <3>1 DEF Quiet
    <3>3. ~(map[c] # INVALID /\ cmd.sock = map[c])
      BY <1>1, <1>3, <3>1, <3>2 DEF Mapped
    <3>4. Quiet(cmd.conn)'
      BY <1>3, <1>7, <3>1
    <3> QED
      BY <1>1, <1>3, <2>2, <3>1, <3>2, <3>3, <3>4
  <2> QED
    BY <1>1, <1>3, <2>2, <2>3
<1>11. Stopping'
  <2>1. SUFFICES ASSUME cmd.kind \in {"DISCONNECT", "CLOSE"}, sockets'[cmd.sock].conn # INVALID
                 PROVE  /\ sockets'[cmd.sock].conn = cmd.conn /\ Busy(cmd.sock)'
                        /\ ~OkTaken'
                        /\ \A k \in 1 .. Len(uart') : uart'[k].t = "ok" =>
                             \E j \in 1 .. k - 1 : ClosedAt(j, cmd.conn)'
    BY <1>3 DEF Stopping
  <2>2. sockets'[cmd.sock] = sockets[cmd.sock] /\ ~(map[c] # INVALID /\ cmd.sock = map[c])
    BY <1>1, <1>3, <2>1
  <2>3. sockets[cmd.sock].conn = cmd.conn /\ Busy(cmd.sock) /\ ~OkTaken
    BY <1>1, <2>1, <2>2 DEF ClientInv, Stopping
  <2>4. Busy(cmd.sock)'
    BY <1>3, <2>2, <2>3 DEF Busy
  <2>5. cmd.conn # c
    <3>1. map[sockets[cmd.sock].conn] = cmd.sock
      BY <1>1, <2>1, <2>2, <2>3 DEF Mapped
    <3> QED
      BY <1>1, <2>2, <2>3, <3>1, Numbers
  <2>6. ASSUME NEW k \in 1 .. Len(uart'), uart'[k].t = "ok"
        PROVE  \E j \in 1 .. k - 1 : ClosedAt(j, cmd.conn)'
    <3>1. k + 1 \in 1 .. Len(uart) /\ uart[k + 1].t = "ok"
      BY <1>4, <1>5, <2>6
    <3>2. PICK j \in 1 .. (k + 1) - 1 : ClosedAt(j, cmd.conn)
      BY <1>1, <2>1, <2>2, <3>1 DEF ClientInv, Stopping
    <3>3. j # 1
      BY <1>2, <2>5, <3>2 DEF ClosedAt
    <3>4. PICK i : i = j - 1
      OBVIOUS
    <3>5. i \in 1 .. k - 1 /\ i \in 1 .. Len(uart') /\ i + 1 = j
      BY <1>4, <3>1, <3>2, <3>3, <3>4
    <3>6. ClosedAt(i, cmd.conn)'
      BY <1>3, <1>4, <3>2, <3>5 DEF ClosedAt
    <3> QED
      BY <3>5, <3>6
  <2> QED
    BY <1>9, <2>2, <2>3, <2>4, <2>6
<1> QED
  BY <1>6, <1>8, <1>10, <1>11, TrafficClosed, ClosedTables DEF ClientInv

\* Something is said of an open connection of a client: nothing was said of its end.
LEMMA WireNews ==
  ASSUME Types, ClientWire, NEW c \in Conns, link[c] # NoPeer, UNCHANGED <<setup, map>>,
         \A d \in Conns : d # c => link'[d] = link[d],
         Len(uart') \in Nat, Len(uart') > Len(uart),
         \A k \in 1 .. Len(uart) : uart'[k] = uart[k],
         uart'[Len(uart) + 1].t \in {"closed", "ipd"}, uart'[Len(uart) + 1].n = c,
         uart'[Len(uart) + 1].t = "closed" => link'[c] = NoPeer,
         \A k \in 1 .. Len(uart') : k > Len(uart) + 1 => uart'[k].t \notin {"closed", "ipd"}
  PROVE  ClientWire' /\ \A d : d # c /\ Quiet(d) => Quiet(d)'
<1>0. Len(uart) \in Nat
  BY DEF Types
<1>1. PICK n : n = Len(uart) + 1
  OBVIOUS
<1>2. \A k \in 1 .. Len(uart') : k \in 1 .. Len(uart) \/ k = n \/ k > n
  BY <1>0, <1>1
<1>3. /\ \A k \in 1 .. Len(uart) : \A d : /\ ClosedAt(k, d)' <=> ClosedAt(k, d)
                                          /\ PayloadAt(k, d)' <=> PayloadAt(k, d)
      /\ \A d : ClosedAt(n, d)' => d = c /\ link'[c] = NoPeer
      /\ \A d : PayloadAt(n, d)' => d = c
      /\ \A k \in 1 .. Len(uart') : k > n => \A d : ~ClosedAt(k, d)' /\ ~PayloadAt(k, d)'
  BY <1>1 DEF ClosedAt, PayloadAt
<1>4. \A d : d # c /\ Quiet(d) => Quiet(d)'
  BY <1>2, <1>3 DEF Quiet
<1>5. ASSUME ~setup.server, NEW d \in Conns
      PROVE  /\ map'[d] = INVALID => link'[d] = NoPeer /\ Quiet(d)'
             /\ link'[d] # NoPeer => Clear(0, End, d)'
             /\ \A i, j \in 1 .. Len(uart') : i < j /\ ClosedAt(i, d)'
                  => ~ClosedAt(j, d)' /\ ~PayloadAt(j, d)'
  <2>1. /\ map[d] = INVALID => link[d] = NoPeer /\ Quiet(d)
        /\ link[d] # NoPeer => Clear(0, End, d)
        /\ \A i, j \in 1 .. Len(uart) : i < j /\ ClosedAt(i, d)
             => ~ClosedAt(j, d) /\ ~PayloadAt(j, d)
    BY <1>5 DEF ClientWire
  <2>2. link[d] # NoPeer => \A k \in 1 .. Len(uart) : ~ClosedAt(k, d)
    BY <1>0, <2>1 DEF Clear, End
  <2>3. ASSUME link'[d] # NoPeer PROVE Clear(0, End, d)'
    <3>1. link[d] # NoPeer
      BY <2>3
    <3>2. \A k \in 1 .. Len(uart') : ~ClosedAt(k, d)'
      BY <1>2, <1>3, <2>2, <2>3, <3>1
    <3> QED
      BY <3>2 DEF Clear
  <2>4. ASSUME NEW i \in 1 .. Len(uart'), NEW j \in 1 .. Len(uart'), i < j, ClosedAt(i, d)'
        PROVE  ~ClosedAt(j, d)' /\ ~PayloadAt(j, d)'
    <3>1. CASE i \in 1 .. Len(uart)
      <4>1. ClosedAt(i, d) /\ d # c
        BY <1>3, <2>2, <2>4, <3>1
      <4>2. j \in 1 .. Len(uart) => ~ClosedAt(j, d) /\ ~PayloadAt(j, d)
        BY <2>1, <2>4, <3>1, <4>1
      <4> QED
        BY <1>2, <1>3, <4>1, <4>2
    <3>2. CASE i \notin 1 .. Len(uart)
      <4>1. j > n
        BY <1>0, <1>1, <1>2, <2>4, <3>2
      <4> QED
        BY <1>3, <4>1
    <3> QED
      BY <3>1, <3>2
  <2>5. ASSUME map'[d] = INVALID PROVE link'[d] = NoPeer /\ Quiet(d)'
    BY <1>4, <2>1, <2>5
  <2> QED
    BY <2>3, <2>4, <2>5
<1>6. ClientWire'
  BY <1>5 DEF ClientWire
<1> QED
  BY <1>4, <1>6

\* A command that waits for its answer has none yet.
LEMMA Unanswered ==
  ASSUME AnswerInv, todo # NoTask
  PROVE  /\ ~OkTaken /\ result = <<>> /\ pc \in {"answer", "written", "send"}
         /\ \A k \in 1 .. Len(uart) : uart[k].t # "ok"
<1>1. /\ result = <<>> /\ pc \in {"answer", "written", "send"}
      /\ \A k \in 1 .. Len(uart) : uart[k].t # "ok"
  BY DEF AnswerInv, OneAnswer, IsAnswer
<1> QED
  BY <1>1 DEF OkTaken

\* The module grants a connection: the line is silent on it, and its socket is the
\* one that asked.
LEMMA GrantStep ==
  ASSUME PayloadInv, Answer, todo.kind = "START", link[todo.conn] = NoPeer,
         peers' = peers + 1, peers < NbPeers,
         link' = [link EXCEPT ![todo.conn] = peers'],
         dest' = [dest EXCEPT ![peers'] = todo.sock], granted' = todo.n,
         Says(<<Token("ok", todo.n)>>)
  PROVE  Command' /\ Traffic' /\ Tables' /\ ClientInv'
<1>1. /\ Types /\ Tokens /\ AnswerInv /\ Command /\ Traffic /\ Tables /\ ClientInv
      /\ link \in [Conns -> 0 .. peers] /\ dest \in [Peers -> Sockets \cup {INVALID}]
      /\ peers \in Nat /\ Len(uart) \in Nat /\ todo.n \in Nat /\ cmd.sock \in Sockets
  <2>1. /\ Types /\ Tokens /\ AnswerInv /\ Command /\ Traffic /\ Tables /\ ClientInv
    BY DEF PayloadInv, AnswerInv
  <2>2. /\ link \in [Conns -> 0 .. peers] /\ dest \in [Peers -> Sockets \cup {INVALID}]
        /\ Len(uart) \in Nat /\ todo.n \in Nat /\ cmd.sock \in Sockets
    BY <2>1 DEF Types, TaskType
  <2>3. peers \in Nat
    BY <2>1, Numbers DEF Types
  <2> QED
    BY <2>1, <2>2, <2>3
<1>2. /\ todo # NoTask /\ todo' = NoTask
      /\ UNCHANGED <<setup, sockets, map, conn, result, pc, cmd, ret>>
  BY <1>1, AnswerIs
<1>3. PICK c, s : /\ c = todo.conn /\ s = todo.sock /\ c = cmd.conn /\ s = cmd.sock
                  /\ c \in Conns /\ cmd.kind = "START" /\ ~setup.server
  BY <1>1, <1>2 DEF Command
<1>4. /\ sockets[s].conn = c /\ ~conn[c].active /\ link[c] = NoPeer /\ Quiet(c)
  <2>1. granted < cmd.n /\ granted \in Nat /\ cmd.n \in Nat
    BY <1>1 DEF PayloadInv, Granted, Types, TaskType
  <2>2. granted # cmd.n
    BY <2>1
  <2> QED
    BY <1>1, <1>3, <2>2 DEF ClientInv, Starting
<1>5. map[c] = s /\ s # INVALID
  <2>1. Busy(s) /\ s \in Sockets /\ sockets[s].conn # INVALID
    BY <1>1, <1>3, <1>4, Numbers DEF Busy
  <2>2. map[sockets[s].conn] = s
    BY <1>1, <2>1 DEF Tables, Mapped
  <2> QED
    BY <1>4, <2>1, <2>2, Numbers
<1>6. Clear(0, End, c)
  BY <1>4 DEF Clear, Quiet
<1>7. PICK x \in TokenType : x = Token("ok", todo.n) /\ x.t = "ok"
  BY <1>1, Numbers DEF Token, TokenType, NoPeer
<1>8. /\ Len(uart') = Len(uart) + 1 /\ \A k \in 1 .. Len(uart) : uart'[k] = uart[k]
      /\ uart'[Len(uart) + 1].t = "ok" /\ Len(uart') \in Nat
  BY <1>1, <1>7, Said
<1>9. SameNotices(0) /\ SamePayloads(0)
  <2>1. \A k \in 1 .. Len(uart') : k > Len(uart) => uart'[k].t = "ok"
    BY <1>1, <1>8
  <2> QED
    BY <1>1, <1>8, <2>1, Added
<1>10. /\ peers' \in Peers /\ dest'[peers'] = s
       /\ \A p \in Peers : p # peers' => dest'[p] = dest[p]
       /\ \A p \in 1 .. peers : p \in 1 .. peers' /\ dest'[p] = dest[p]
  BY <1>1, <1>3, Numbers
<1>11. Traffic'
  BY <1>1, <1>2, <1>3, <1>4, <1>5, <1>6, <1>8, <1>9, <1>10, TrafficConnects
<1>12. \A b \in Sockets : Busy(b)' <=> Busy(b)
  BY <1>2 DEF Busy
<1>13. Tables'
  BY <1>1, <1>2, <1>10, <1>12, TablesFrame
<1>14. ClientWire'
  <2>1. \A d \in Conns : link'[d] # link[d] => d = c
    BY <1>1, <1>3
  <2>2. 0 \in {0, 1}
    OBVIOUS
  <2> QED
    BY <1>1, <1>2, <1>5, <1>6, <1>8, <1>9, <2>1, <2>2, WireMoves DEF ClientInv
<1>15. granted' = cmd.n
  BY <1>1, <1>2 DEF AnswerInv, OneAnswer
<1>16. Starting' /\ Stopping'
  BY <1>2, <1>3, <1>4, <1>15 DEF Starting, Stopping
<1>17. Command'
  BY <1>1, <1>2 DEF Command, NoTask
<1> QED
  BY <1>11, <1>13, <1>14, <1>16, <1>17 DEF ClientInv

\* The module refuses, or takes what is sent.
LEMMA ReplyStep ==
  ASSUME PayloadInv, Answer, UNCHANGED <<link, dest, granted, peers>>,
         \/ Says(<<Token("error", todo.n)>>)
         \/ /\ todo.kind \in {"SEND", "PAYLOAD"}
            /\ \/ Says(<<Token("ok", todo.n), Token("prompt", todo.n)>>)
               \/ Says(<<Token("ok", todo.n)>>)
  PROVE  Command' /\ Traffic' /\ Tables' /\ ClientInv'
<1>1. /\ Types /\ Tokens /\ AnswerInv /\ Command /\ Traffic /\ Tables /\ ClientInv
      /\ Len(uart) \in Nat /\ todo.n \in Nat
  BY DEF PayloadInv, AnswerInv, Types, TaskType
<1>2. /\ todo # NoTask /\ todo' = NoTask
      /\ UNCHANGED <<setup, sockets, map, conn, result, pc, cmd, ret>>
  BY <1>1, AnswerIs
<1>3. \A t \in {"ok", "error", "prompt"} : /\ Token(t, todo.n) \in TokenType
                                           /\ Token(t, todo.n).t = t
  BY <1>1, Numbers DEF Token, TokenType, NoPeer
<1>4. /\ Len(uart') \in Nat /\ Len(uart') >= Len(uart)
      /\ \A k \in 1 .. Len(uart) : uart'[k] = uart[k]
      /\ \A k \in 1 .. Len(uart') : k > Len(uart) =>
           /\ uart'[k].t \notin {"closed", "ipd"}
           /\ uart'[k].t = "ok" => todo.kind \in {"SEND", "PAYLOAD"}
  <2>1. CASE Says(<<Token("error", todo.n)>>)
    <3>1. /\ Len(uart') = Len(uart) + 1 /\ \A k \in 1 .. Len(uart) : uart'[k] = uart[k]
          /\ uart'[Len(uart) + 1].t = "error"
      BY <1>1, <1>3, <2>1, Said
    <3> QED
      BY <1>1, <3>1
  <2>2. CASE todo.kind \in {"SEND", "PAYLOAD"} /\ Says(<<Token("ok", todo.n)>>)
    <3>1. /\ Len(uart') = Len(uart) + 1 /\ \A k \in 1 .. Len(uart) : uart'[k] = uart[k]
          /\ uart'[Len(uart) + 1].t = "ok"
      BY <1>1, <1>3, <2>2, Said
    <3> QED
      BY <1>1, <2>2, <3>1
  <2>3. CASE /\ todo.kind \in {"SEND", "PAYLOAD"}
             /\ Says(<<Token("ok", todo.n), Token("prompt", todo.n)>>)
    <3>1. /\ Len(uart') = Len(uart) + 2 /\ \A k \in 1 .. Len(uart) : uart'[k] = uart[k]
          /\ uart'[Len(uart) + 1].t = "ok" /\ uart'[Len(uart) + 2].t = "prompt"
      BY <1>1, <1>3, <2>3, SaidBoth
    <3>2. \A k \in 1 .. Len(uart') : k > Len(uart) => k = Len(uart) + 1 \/ k = Len(uart) + 2
      BY <1>1, <3>1
    <3> QED
      BY <1>1, <2>3, <3>1, <3>2
  <2> QED
    BY <2>1, <2>2, <2>3
<1>5. SameNotices(0) /\ SamePayloads(0) /\ 0 \in {0, 1}
  BY <1>1, <1>4, Added
<1>6. Traffic' /\ ClientWire' /\ (\A c : Quiet(c) => Quiet(c)')
  BY <1>1, <1>2, <1>4, <1>5, Named, TrafficMoves, WireMoves DEF ClientInv
<1>7. \A b \in Sockets : Busy(b)' <=> Busy(b)
  BY <1>2 DEF Busy
<1>8. Tables'
  BY <1>1, <1>2, <1>7, TablesFrame
<1>9. Starting' /\ Stopping'
  <2>1. CASE todo.kind \in {"SEND", "PAYLOAD"}
    BY <1>1, <1>2, <2>1 DEF Command, Starting, Stopping
  <2>2. CASE todo.kind \notin {"SEND", "PAYLOAD"}
    <3>1. SameOks(0)
      BY <1>1, <1>4, <2>2 DEF SameOks
    <3>2. KeepsNotices(0)
      BY <1>5 DEF SameNotices, KeepsNotices
    <3>3. Busy(cmd.sock)' <=> Busy(cmd.sock)
      BY <1>2 DEF Busy
    <3>4. cmd.kind = "START" => cmd.conn \in Conns
      BY <1>1 DEF Command
    <3> QED
      BY <1>1, <1>2, <1>4, <1>5, <1>6, <3>1, <3>2, <3>3, <3>4, CommandMoves DEF ClientInv
  <2> QED
    BY <2>1, <2>2
<1>10. Command'
  BY <1>1, <1>2 DEF Command, NoTask
<1> QED
  BY <1>6, <1>8, <1>9, <1>10 DEF ClientInv

\* The module ends a connection: its notice goes before its answer.
LEMMA EndStep ==
  ASSUME PayloadInv, Answer, todo.kind = "STOP", todo.conn \in Conns, link[todo.conn] # NoPeer,
         link' = [link EXCEPT ![todo.conn] = NoPeer], UNCHANGED <<dest, granted, peers>>,
         Says(<<Token("closed", todo.conn), Token("ok", todo.n)>>)
  PROVE  Command' /\ Traffic' /\ Tables' /\ ClientInv'
<1>1. /\ Types /\ Tokens /\ AnswerInv /\ Command /\ Traffic /\ Tables /\ ClientInv
      /\ Len(uart) \in Nat /\ todo.n \in Nat /\ link \in [Conns -> 0 .. peers]
  BY DEF PayloadInv, AnswerInv, Types, TaskType
<1>2. /\ todo # NoTask /\ todo' = NoTask
      /\ UNCHANGED <<setup, sockets, map, conn, result, pc, cmd, ret>>
  BY <1>1, AnswerIs
<1>3. PICK c : c = todo.conn /\ c = cmd.conn /\ c \in Conns /\ cmd.kind \in {"DISCONNECT", "CLOSE"}
  BY <1>1, <1>2 DEF Command
<1>4. /\ Token("closed", c) \in TokenType /\ Token("closed", c).t = "closed"
      /\ Token("closed", c).n = c
      /\ Token("ok", todo.n) \in TokenType /\ Token("ok", todo.n).t = "ok"
  BY <1>1, <1>3, Numbers DEF Token, TokenType, NoPeer
<1>5. /\ Len(uart') = Len(uart) + 2 /\ \A k \in 1 .. Len(uart) : uart'[k] = uart[k]
      /\ uart'[Len(uart) + 1].t = "closed" /\ uart'[Len(uart) + 1].n = c
      /\ uart'[Len(uart) + 2].t = "ok" /\ Len(uart') \in Nat /\ Len(uart') > Len(uart)
  BY <1>1, <1>3, <1>4, SaidBoth
<1>6. \A k \in 1 .. Len(uart') : k > Len(uart) + 1 => uart'[k].t = "ok"
  <2>1. \A k \in 1 .. Len(uart') : k > Len(uart) + 1 => k = Len(uart) + 2
    BY <1>1, <1>5
  <2> QED
    BY <1>5, <2>1
<1>7. Traffic'
  BY <1>1, <1>2, <1>3, <1>5, <1>6, TrafficCloses
<1>8. link'[c] = NoPeer /\ link[c] # NoPeer /\ \A d \in Conns : d # c => link'[d] = link[d]
  BY <1>1, <1>3
<1>9. ClientWire'
  BY <1>1, <1>2, <1>3, <1>5, <1>6, <1>8, WireNews DEF ClientInv
<1>10. \A b \in Sockets : Busy(b)' <=> Busy(b)
  BY <1>2 DEF Busy
<1>11. Tables'
  BY <1>1, <1>2, <1>10, TablesFrame
<1>12. Stopping'
  <2>1. ~OkTaken'
    BY <1>1, <1>2, Unanswered DEF OkTaken
  <2>2. Busy(cmd.sock)' <=> Busy(cmd.sock)
    BY <1>2 DEF Busy
  <2>3. ASSUME NEW k \in 1 .. Len(uart'), uart'[k].t = "ok"
        PROVE  \E j \in 1 .. k - 1 : ClosedAt(j, cmd.conn)'
    <3>1. k \notin 1 .. Len(uart) /\ k # Len(uart) + 1
      BY <1>1, <1>2, <1>5, <2>3, Unanswered
    <3>2. PICK j : j = Len(uart) + 1
      OBVIOUS
    <3>3. j \in 1 .. k - 1
      BY <1>1, <1>5, <3>1, <3>2
    <3>4. ClosedAt(j, cmd.conn)'
      BY <1>2, <1>3, <1>5, <3>2 DEF ClosedAt
    <3> QED
      BY <3>3, <3>4
  <2> QED
    BY <1>1, <1>2, <2>1, <2>2, <2>3 DEF ClientInv, Stopping
<1>13. Starting'
  BY <1>2, <1>3 DEF Starting
<1>14. Command'
  BY <1>1, <1>2 DEF Command, NoTask
<1> QED
  BY <1>7, <1>9, <1>11, <1>12, <1>13, <1>14 DEF ClientInv

\* A peer closes or sends: nothing is under way on a connection that is not granted.
LEMMA PeerStep ==
  ASSUME PayloadInv, NEW c \in Conns, PeerCloses(c) \/ PeerSends(c)
  PROVE  Command' /\ Traffic' /\ Tables' /\ ClientInv'
<1>1. /\ Types /\ Tokens /\ AnswerInv /\ Command /\ Traffic /\ Tables /\ ClientInv
      /\ Len(uart) \in Nat /\ link \in [Conns -> 0 .. peers] /\ c \in Int
  <2>1. /\ Types /\ Tokens /\ AnswerInv /\ Command /\ Traffic /\ Tables /\ ClientInv
    BY DEF PayloadInv, AnswerInv
  <2>2. Len(uart) \in Nat /\ link \in [Conns -> 0 .. peers]
    BY <2>1 DEF Types
  <2>3. c \in Int
    BY Numbers
  <2> QED
    BY <2>1, <2>2, <2>3
<1>2. /\ link[c] # NoPeer
      /\ UNCHANGED <<setup, sockets, map, conn, result, todo, pc, cmd, ret, dest, granted, peers>>
  BY DEF PeerCloses, PeerSends, host, parser, history
<1>3. PICK x \in TokenType : /\ Says(<<x>>) /\ x.n = c /\ x.t \in {"closed", "ipd"}
                             /\ x.t = "closed" => link' = [link EXCEPT ![c] = NoPeer]
                             /\ x.t = "ipd" => link' = link
  <2>1. CASE PeerCloses(c)
    <3>1. Token("closed", c) \in TokenType /\ Token("closed", c).n = c
          /\ Token("closed", c).t = "closed"
      BY <1>1, Numbers DEF Token, TokenType, NoPeer
    <3> QED
      BY <2>1, <3>1 DEF PeerCloses
  <2>2. CASE PeerSends(c)
    <3>1. PICK y : y = [Token("ipd", c) EXCEPT !.p = link[c]] /\ Says(<<y>>) /\ link' = link
      BY <2>2 DEF PeerSends
    <3>2. link[c] \in 0 .. NbPeers
      BY <1>1, Numbers DEF Types
    <3>3. y \in TokenType /\ y.t = "ipd" /\ y.n = c
      BY <1>1, <3>1, <3>2, Numbers DEF Token, TokenType, NoPeer
    <3> QED
      BY <3>1, <3>3
  <2> QED
    BY <2>1, <2>2
<1>4. /\ Len(uart') = Len(uart) + 1 /\ \A k \in 1 .. Len(uart) : uart'[k] = uart[k]
      /\ uart'[Len(uart) + 1] = x /\ Len(uart') \in Nat /\ Len(uart') > Len(uart)
      /\ \A k \in 1 .. Len(uart') : ~(k > Len(uart) + 1)
  BY <1>1, <1>3, Said
<1>5. Traffic'
  <2>1. CASE PeerCloses(c)
    <3>1. link' = [link EXCEPT ![c] = NoPeer] /\ Says(<<Token("closed", c)>>)
      BY <2>1 DEF PeerCloses
    <3>2. /\ Token("closed", c) \in TokenType /\ Token("closed", c).t = "closed"
          /\ Token("closed", c).n = c
      BY <1>1, Numbers DEF Token, TokenType, NoPeer
    <3>3. uart'[Len(uart) + 1].t = "closed" /\ uart'[Len(uart) + 1].n = c
      BY <1>1, <3>1, <3>2, Said
    <3> QED
      BY <1>1, <1>2, <1>4, <3>1, <3>3, TrafficCloses
  <2>2. CASE PeerSends(c)
    BY <1>1, <2>2, TrafficSends
  <2> QED
    BY <2>1, <2>2
<1>6. /\ \A d \in Conns : d # c => link'[d] = link[d]
      /\ x.t = "closed" => link'[c] = NoPeer
  BY <1>1, <1>3
<1>7. ClientWire' /\ \A d : d # c /\ Quiet(d) => Quiet(d)'
  BY <1>1, <1>2, <1>3, <1>4, <1>6, WireNews DEF ClientInv
<1>8. \A b \in Sockets : Busy(b)' <=> Busy(b)
  BY <1>2 DEF Busy
<1>9. Tables'
  BY <1>1, <1>2, <1>8, TablesFrame
<1>10. Starting' /\ Stopping'
  <2>1. SameOks(0) /\ KeepsNotices(0) /\ 0 \in {0, 1}
    <3>1. \A k \in 1 .. Len(uart') : uart'[k].t = "ok" => k \in 1 .. Len(uart)
      BY <1>1, <1>3, <1>4
    <3> QED
      BY <1>1, <1>4, <3>1 DEF SameOks, KeepsNotices
  <2>2. Busy(cmd.sock)' <=> Busy(cmd.sock)
    BY <1>2 DEF Busy
  <2>3. cmd.kind = "START" => cmd.conn \in Conns
    BY <1>1 DEF Command
  <2>4. \A d : d = cmd.conn /\ Quiet(d) /\ link[d] = NoPeer => Quiet(d)'
    BY <1>2, <1>7
  <2>5. \A d \in Conns : d = cmd.conn /\ link[d] = NoPeer => link'[d] = NoPeer
    BY <1>2, <1>6
  <2> QED
    BY <1>1, <1>2, <1>4, <2>1, <2>2, <2>3, <2>4, <2>5, CommandMoves DEF ClientInv
<1>11. Command'
  BY <1>1, <1>2 DEF Command
<1> QED
  BY <1>5, <1>7, <1>9, <1>10, <1>11 DEF ClientInv

\* A client connects to a server: the connection has no socket yet.
LEMMA ConnectsStep ==
  ASSUME PayloadInv, NEW c \in Conns, PeerConnects(c)
  PROVE  Command' /\ Traffic' /\ Tables' /\ ClientInv'
<1>1. /\ Types /\ Tokens /\ Command /\ Traffic /\ Tables
      /\ Len(uart) \in Nat /\ link \in [Conns -> 0 .. peers] /\ peers \in Nat
  BY Numbers DEF PayloadInv, AnswerInv, Types
<1>2. /\ setup.server /\ link[c] = NoPeer /\ peers < NbPeers /\ peers' = peers + 1
      /\ link' = [link EXCEPT ![c] = peers']
      /\ UNCHANGED <<setup, sockets, map, conn, result, todo, uart, pc, cmd, ret, dest>>
  BY DEF PeerConnects, host, parser, history
<1>3. SameNotices(0) /\ SamePayloads(0)
  <2>1. ~\E k \in 1 .. Len(uart') : k > Len(uart)
    BY <1>1, <1>2
  <2> QED
    BY <1>1, <1>2, <2>1, Added
<1>4. peers' \in Peers /\ peers' > peers
  BY <1>1, <1>2, Numbers
<1>5. dest[peers'] = INVALID
  BY <1>1, <1>4 DEF Traffic, Unseen
<1>6. Clear(0, End, c) => map[c] = INVALID
  BY <1>1, <1>2 DEF Traffic, Vacant
<1>7. Traffic'
  BY <1>1, <1>2, <1>3, <1>5, <1>6, TrafficConnects
<1>8. \A b \in Sockets : Busy(b)' <=> Busy(b)
  BY <1>2 DEF Busy
<1>9. \A p \in 1 .. peers : p \in 1 .. peers' /\ dest'[p] = dest[p]
  BY <1>1, <1>2
<1>10. Tables'
  BY <1>1, <1>2, <1>8, <1>9, TablesFrame
<1>11. Command'
  BY <1>1, <1>2 DEF Command
<1>12. ClientInv'
  BY <1>1, <1>2 DEF Command, ClientInv, ClientWire, Starting, Stopping
<1> QED
  BY <1>7, <1>10, <1>11, <1>12

-----------------------------------------------------------------------------
(* OwnPayload: the theorem *)

\* At the start there is no connection and nothing on the line.
LEMMA PayloadInit == Init => PayloadInv
<1> SUFFICES ASSUME Init PROVE PayloadInv
  OBVIOUS
<1>1. Types /\ Tokens /\ Reads /\ OneAnswer /\ EveryAnswerMatches
  BY TypeInit DEF Init, OneAnswer, EveryAnswerMatches, IsAnswer, Reads
<1>2. Len(uart) = 0 /\ cmd.kind = "none" /\ todo.kind = "none" /\ pc = "idle"
  BY DEF Init, NoTask
<1>3. Command
  BY <1>2 DEF Init, Command
<1>4. /\ \A c \in Conns : link[c] = NoPeer /\ map[c] = INVALID /\ ~conn[c].active
      /\ \A p \in Peers : dest[p] = INVALID
  BY DEF Init
<1>5. \A s \in Sockets : /\ sockets[s].state \notin {"CONNECTED", "WAITING_ACCEPT"}
                         /\ Len(sockets[s].ring) = 0
  BY DEF Init, NoSocket
<1>6. Traffic
  BY <1>2, <1>4 DEF Traffic, Arriving, Leaving, Among, Links, Vacant, Unseen
<1>7. Tables
  BY <1>2, <1>4, <1>5 DEF Tables, Rings, Ringed, Mapped, Busy
<1>8. ClientInv
  BY <1>2, <1>4 DEF ClientInv, ClientWire, Starting, Stopping, Quiet, Clear
<1>9. Granted /\ Receiving
  BY DEF Init, Granted, Receiving, NoTask, NoAnswer
<1> QED
  BY <1>1, <1>3, <1>6, <1>7, <1>8, <1>9 DEF PayloadInv, AnswerInv

\* The answers of the module.
LEMMA ModuleStep ==
  ASSUME PayloadInv, Answer PROVE Command' /\ Traffic' /\ Tables' /\ ClientInv'
<1>1. Types
  BY DEF PayloadInv, AnswerInv
<1> QED
  BY <1>1, AnswerIs, GrantStep, ReplyStep, EndStep, Zenon

\* Which START was granted.
LEMMA GrantedStep ==
  ASSUME PayloadInv, [Next]_vars PROVE Granted'
<1> USE DEF host, module, parser, history
<1>1. /\ Types /\ OneAnswer /\ granted \in Nat /\ granted <= cmd.n /\ cmd.n \in Nat /\ todo.n \in Nat
      /\ todo.kind = "START" => granted < cmd.n
      /\ \A s \in Sockets : sockets[s].conn \in Conns \cup {INVALID}
  BY DEF PayloadInv, AnswerInv, Granted, Types, TaskType, SocketType
<1>2. ASSUME NEW k \in {"START", "SEND", "DISCONNECT", "CLOSE"}, NEW s \in Sockets,
             NEW c \in Conns \cup {INVALID}, Issue(k, s, c)
      PROVE  Granted'
  <2>1. cmd'.n = cmd.n + 1 /\ UNCHANGED granted
    BY <1>1, <1>2, IssueIs
  <2> QED
    BY <1>1, <2>1 DEF Granted
<1>3. CASE \E s \in Sockets : \/ Connect(s) \/ Send(s)
                              \/ \E k \in {"DISCONNECT", "CLOSE"} : Disconnect(s, k)
  BY <1>1, <1>2, <1>3, FirstFound DEF Connect, Send, Disconnect
<1>4. ASSUME Done PROVE Granted'
  <2>1. cmd'.n = cmd.n /\ UNCHANGED <<granted, todo>>
    BY <1>1, <1>4, DoneIs
  <2> QED
    BY <1>1, <2>1 DEF Granted
<1>5. CASE Answer
  <2>1. todo # NoTask /\ todo' = NoTask /\ UNCHANGED cmd /\ granted' \in {granted, todo.n}
    BY <1>1, <1>5, AnswerIs
  <2>2. todo.n = cmd.n /\ todo'.kind = "none"
    BY <1>1, <2>1 DEF OneAnswer, NoTask
  <2> QED
    BY <1>1, <2>1, <2>2 DEF Granted
<1>6. ASSUME UNCHANGED <<granted, cmd>>, todo' = todo \/ todo'.kind # "START" PROVE Granted'
  BY <1>1, <1>6 DEF Granted
<1>7. CASE TakeAnswer \/ TakeSendOk
  BY <1>1, <1>6, <1>7, TakeIs
<1>8. CASE WaitingSend \/ Timeout \/ Rx \/ Environment \/ UNCHANGED vars
  <2>1. UNCHANGED <<granted, cmd, todo>>
    BY <1>8 DEF WaitingSend, Timeout, Rx, RxPayload, RxPayloadEnd, RxOverwritten, RxBroken, AsText,
                RxClosed, RxPrompt, RxAnswer, Environment, UartError, PeerCloses, PeerSends,
                PeerConnects, vars
  <2> QED
    BY <1>6, <2>1
<1>9. CASE Lose
  <2>1. UNCHANGED <<granted, cmd>> /\ todo'.kind = "none"
    BY <1>9 DEF Lose, NoTask
  <2> QED
    BY <1>6, <2>1
<1>10. CASE WritePayload
  <2>1. UNCHANGED <<granted, cmd>> /\ todo' = [cmd EXCEPT !.kind = "PAYLOAD"] /\ cmd \in TaskType
    BY <1>1, <1>10 DEF WritePayload, Types
  <2>2. todo'.kind = "PAYLOAD"
    BY <2>1 DEF TaskType
  <2> QED
    BY <1>6, <2>1, <2>2
<1> QED
  BY <1>3, <1>4, <1>5, <1>7, <1>8, <1>9, <1>10
  DEF Next, Calls, Wait, Open, Accept, Close, Recv, Connected, Disconnected, SendReturns

\* A payload keeps its ring while it is read.
LEMMA ReceivingStep ==
  ASSUME PayloadInv, [Next]_vars PROVE Receiving'
<1> USE DEF host, module, parser, history
<1>1. /\ Types /\ Tokens /\ Reads /\ Receiving /\ peers \in Nat
  BY Numbers DEF PayloadInv, AnswerInv, Types
<1>2. CASE RxPayload
  BY <1>2, PayloadStep
<1>3. ASSUME ~RxPayload
      PROVE  \/ reading' = NoPayload
             \/ /\ UNCHANGED <<reading, conn>>
                /\ \A p \in 1 .. peers : dest'[p] = dest[p]
  <2>1. CASE Calls
    BY <2>1 DEF Calls, Open, Accept, Connect, Close, Send, Recv, Disconnect, Done, Issue
  <2>2. CASE Wait
    BY <2>2 DEF Wait, WaitingSend, TakeAnswer, TakeSendOk, Take, WritePayload, Timeout, Connected,
                Disconnected, SendReturns, Done
  <2>3. CASE Rx
    BY <1>3, <2>3 DEF Rx, RxPayloadEnd, RxOverwritten, RxBroken, AsText, RxClosed, RxPrompt,
                      RxAnswer, Received
  <2>4. CASE Answer
    <3>1. /\ UNCHANGED <<reading, conn>> /\ dest \in [Peers -> Sockets \cup {INVALID}]
          /\ dest' = dest \/ (peers' = peers + 1 /\ dest' = [dest EXCEPT ![peers'] = todo.sock])
      BY <1>1, <2>4, AnswerIs DEF Types
    <3>2. \A p \in 1 .. peers : p \in Peers /\ p # peers + 1
      BY <1>1, Numbers DEF Types
    <3> QED
      BY <3>1, <3>2
  <2>5. CASE Lose \/ Environment \/ UNCHANGED vars
    BY <2>5 DEF Lose, Environment, UartError, PeerCloses, PeerSends, PeerConnects, vars
  <2> QED
    BY <2>1, <2>2, <2>3, <2>4, <2>5 DEF Next
<1> QED
  BY <1>1, <1>2, <1>3 DEF Receiving, Reads

\* PayloadInv is inductive as long as nothing went wrong.
LEMMA PayloadInvStep ==
  ASSUME StaysOn, PayloadInv, [Next]_vars, spoiled' = {} PROVE PayloadInv'
<1>1. AnswerInv'
  <2>1. Calm'
    BY DEF Calm
  <2> QED
    BY <2>1, AnswerStep, TypeStep, ReadsStep DEF AnswerInv, PayloadInv
<1>2. ~RxOverwritten /\ ~RxBroken
  BY DEF RxOverwritten, RxBroken, AsText
<1>3. Command' /\ Traffic' /\ Tables' /\ ClientInv'
  BY <1>2, CallStep, ConnectedStep, DisconnectedStep, IssueStep, ConnectStep, WaitStep, RxTextStep,
     PayloadStep, PayloadEndStep, ClosedStep, ModuleStep, PeerStep, ConnectsStep
  DEF Next, Calls, Wait, Rx, Environment
<1> QED
  BY <1>1, <1>3, GrantedStep, ReceivingStep DEF PayloadInv

\* A payload lands in the ring of the socket its peer belongs to and no two open
\* links belong to one socket, for every number of connections, peers and payloads,
\* whatever the order of notices, payloads, answers and calls, with answers that are
\* lost or overwritten, until the program is out of step with the module or releases
\* an id the module has opened; as long as a server leaves it to its clients to close.
THEOREM OwnsPayload ==
  ASSUME StaysOn PROVE Spec => []OwnPayload
<1> DEFINE Inv == spoiled = {} => PayloadInv
           Base == Types /\ Tokens /\ Reads
<1>1. PayloadInv => EveryOwnPayload
  <2> SUFFICES ASSUME PayloadInv PROVE EveryOwnPayload
    OBVIOUS
  <2>1. /\ Types /\ Traffic /\ Tables /\ map \in [Conns -> Sockets \cup {INVALID}]
        /\ \A s \in Sockets : sockets[s].ring \in Seq(Peers)
    BY DEF PayloadInv, AnswerInv, Types, SocketType
  <2>2. ASSUME NEW s \in Sockets, NEW p \in ToSet(sockets[s].ring) PROVE dest[p] = s
    <3>1. PICK k \in DOMAIN sockets[s].ring : p = sockets[s].ring[k]
      BY DEF ToSet
    <3>2. k \in 1 .. Len(sockets[s].ring)
      BY <2>1, <3>1
    <3> QED
      BY <2>1, <3>1, <3>2 DEF Tables, Rings
  <2>3. ASSUME NEW c \in Conns, NEW d \in Conns, link[c] # NoPeer, link[d] # NoPeer, c # d
        PROVE  dest[link[c]] # dest[link[d]] \/ dest[link[c]] = INVALID
    <3>1. /\ dest[link[c]] \in {map[c], INVALID} /\ dest[link[d]] \in {map[d], INVALID}
      BY <2>1, <2>3 DEF Traffic, Links
    <3>2. map[c] # INVALID /\ map[d] # INVALID => map[c] # map[d]
      BY <2>1, <2>3 DEF Tables, Mapped
    <3> QED
      BY <3>1, <3>2
  <2> QED
    BY <2>2, <2>3 DEF EveryOwnPayload
<1>2. Inv => OwnPayload
  BY <1>1 DEF OwnPayload
<1>3. Init => Base /\ Inv
  BY PayloadInit DEF PayloadInv, AnswerInv
<1>4. Base /\ Inv /\ [Next]_vars => Base' /\ Inv'
  <2> SUFFICES ASSUME Base, Inv, [Next]_vars PROVE Base' /\ Inv'
    OBVIOUS
  <2>1. Base'
    BY TypeStep, ReadsStep
  <2>2. ASSUME spoiled' = {} PROVE PayloadInv'
    <3>1. spoiled = {}
      BY <2>2, KeepStep
    <3> QED
      BY <2>2, <3>1, PayloadInvStep
  <2> QED
    BY <2>1, <2>2
<1> QED
  BY <1>2, <1>3, <1>4, PTL DEF Spec
=============================================================================
