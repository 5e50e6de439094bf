-------------------------------- MODULE Wifi --------------------------------
(***************************************************************************)
(* Sockets over a WiFi module driven by AT commands: network/wifi/wifi.c   *)
(* over network/wifi/at_parser.c.  The program sends a command and polls   *)
(* the buffer of received text for its answer; the interrupt of the UART   *)
(* takes what the module sends apart: payloads (+IPD) and closed           *)
(* connections are handled there, everything else is added to the buffer.  *)
(*                                                                         *)
(* The text is abstracted to tokens: the answer to a command, the prompt   *)
(* for a payload, a payload of a peer, the notice of a closed connection.  *)
(* A peer is a remote end, numbered in the order of appearance.  The       *)
(* module (external) keeps a link per connection id.                       *)
(***************************************************************************)
EXTENDS Integers, Sequences, FiniteSets, FiniteSetsExt, SequencesExt

CONSTANTS
  NbConns,   \* MAX_CONNECTIONS
  NbPeers,   \* bound: remote ends in the life of the program
  Setups     \* the programs and modules that are considered

ASSUME WifiAssumption ==
  /\ NbConns \in Nat \ {0} /\ NbPeers \in Nat
  /\ Setups \subseteq
       [cmds : Nat,         \* bound: commands
        data : Nat,         \* bound: payloads the peers send
        server : BOOLEAN,   \* the program listens, else it connects
        hangsUp : BOOLEAN,  \* a server closes the sockets it accepted
        noise : SUBSET {"uart",       \* the UART may report an error
                        "overflow"},  \* other text may fill the buffer
        answers : {"sure",  \* the module answers every command in time
                   "lost",  \* a command or payload may be lost on its way
                   "late"}] \* an answer may take more than MODULE_TIMEOUT

Conns == 0 .. NbConns - 1
Sockets == 0 .. NbConns          \* NB_SOCKETS
Backlog == 1 .. NbConns          \* server.client_ids when socket 0 listens
Peers == 1 .. NbPeers
INVALID == -1                    \* INVALID_ID
NoPeer == 0
NoAnswer == 0
STRAY == -1                      \* number of an answer no command has

VARIABLES
  setup,    \* member of Setups, fixed
  sockets,  \* desc->sockets: state, conn_id and what the ring cb holds
  map,      \* desc->conn_id_to_sock_id
  conn,     \* at_desc.conn: active and the socket whose ring is cbuff
  operation, \* at_desc.callback_operation
  reading,  \* the payload for which a read is submitted
  result,   \* at_desc.result
  errors,   \* at_desc.errors is not 0
  link,     \* module: the peer behind each connection id
  todo,     \* module: the command or the payload it has to answer
  uart,     \* what the module has sent and the interrupt has not taken
  pc, cmd,  \* where the program is, and its command
  held,     \* sockets the program got from open or accept and has not closed
  ret,      \* what at_run_cmd or wait_for_response returned
  dest,     \* history: the socket each peer belongs to
  got,      \* history: number of the command whose answer was taken last
  granted,  \* history: number of the START that last opened a link
  spoiled,  \* history: what went wrong so far
  peers, sent  \* how many peers have appeared, how many payloads were sent

parser == <<operation, reading, result, errors>>
host == <<sockets, map, conn, parser>>
module == <<link, todo, uart>>
history == <<dest, got, granted, spoiled>>
vars == <<setup, host, module, pc, cmd, held, ret, history, peers, sent>>

NoTask == [kind |-> "none", sock |-> 0, conn |-> INVALID, n |-> 0]
Token(t, n) == [t |-> t, n |-> n, p |-> NoPeer]
NoPayload == [conn |-> INVALID, p |-> NoPeer]
NoSocket == [state |-> "UNUSED", conn |-> 0, ring |-> <<>>]

\* wifi_init; a server has called bind and listen.
Init ==
  /\ setup \in Setups
  /\ sockets = [s \in Sockets |->
       IF ~setup.server THEN NoSocket
       ELSE [NoSocket EXCEPT !.state = IF s \in Backlog THEN "DISCONNECTED"
                                                        ELSE "LISTENING"]]
  /\ map = [c \in Conns |-> INVALID]
  /\ conn = [c \in Conns |-> [active |-> FALSE, cb |-> INVALID]]
  /\ operation = "READING_RESPONSES" /\ reading = NoPayload
  /\ result = <<>> /\ errors = FALSE
  /\ link = [c \in Conns |-> NoPeer]
  /\ todo = NoTask
  /\ uart = <<>>
  /\ pc = "idle" /\ cmd = NoTask /\ ret = 0 /\ held = {}
  /\ dest = [p \in Peers |-> INVALID]
  /\ got = NoAnswer /\ granted = NoAnswer /\ spoiled = {}
  /\ peers = 0 /\ sent = 0

-----------------------------------------------------------------------------
(* The module, as the driver uses it.  (external) *)

Says(tokens) == uart' = uart \o tokens

\* Answers to AT+CIPSTART, AT+CIPCLOSE and AT+CIPSEND, and to the payload.
AnswerStart ==
  /\ todo.kind = "START"
  /\ \/ /\ link[todo.conn] = NoPeer
        /\ peers < NbPeers
        /\ peers' = peers + 1
        /\ link' = [link EXCEPT ![todo.conn] = peers']
        /\ dest' = [dest EXCEPT ![peers'] = todo.sock]
        /\ granted' = todo.n
        /\ Says(<<Token("ok", todo.n)>>)
     \/ /\ Says(<<Token("error", todo.n)>>)
        /\ UNCHANGED <<link, dest, granted, peers>>

AnswerStop ==
  /\ todo.kind = "STOP"
  /\ IF todo.conn \in Conns /\ link[todo.conn] # NoPeer
     THEN /\ link' = [link EXCEPT ![todo.conn] = NoPeer]
          /\ Says(<<Token("closed", todo.conn), Token("ok", todo.n)>>)
     ELSE Says(<<Token("error", todo.n)>>) /\ UNCHANGED link
  /\ UNCHANGED <<dest, granted, peers>>

AnswerSend ==
  /\ todo.kind \in {"SEND", "PAYLOAD"}
  /\ Says(IF ~(todo.conn \in Conns /\ link[todo.conn] # NoPeer)
          THEN <<Token("error", todo.n)>>
          ELSE IF todo.kind = "SEND"
               THEN <<Token("ok", todo.n), Token("prompt", todo.n)>>
               ELSE <<Token("ok", todo.n)>>)
  /\ UNCHANGED <<link, dest, granted, peers>>

Answer ==
  /\ AnswerStart \/ AnswerStop \/ AnswerSend
  /\ todo' = NoTask
  /\ UNCHANGED <<setup, held, host, pc, cmd, ret, got, spoiled, sent>>

Lose ==
  /\ setup.answers = "lost" /\ todo # NoTask
  /\ todo' = NoTask
  /\ UNCHANGED <<setup, held, host, link, uart, pc, cmd, ret, history, peers, sent>>

PeerCloses(c) ==
  /\ link[c] # NoPeer
  /\ link' = [link EXCEPT ![c] = NoPeer]
  /\ Says(<<Token("closed", c)>>)
  /\ UNCHANGED <<setup, held, host, todo, pc, cmd, ret, history, peers, sent>>

PeerSends(c) ==
  /\ link[c] # NoPeer
  /\ sent < setup.data
  /\ sent' = sent + 1
  /\ Says(<<[Token("ipd", c) EXCEPT !.p = link[c]]>>)
  /\ UNCHANGED <<setup, held, host, link, todo, pc, cmd, ret, history, peers>>

PeerConnects(c) ==
  /\ setup.server
  /\ link[c] = NoPeer
  /\ peers < NbPeers
  /\ peers' = peers + 1
  /\ link' = [link EXCEPT ![c] = peers']
  /\ UNCHANGED <<setup, held, host, todo, uart, pc, cmd, ret, history, sent>>

-----------------------------------------------------------------------------
(* The interrupt of the UART: at_callback_rd_done *)

Received(t) ==
  reading = NoPayload /\ uart # <<>> /\ Head(uart).t = t /\ uart' = Tail(uart)

\* _get_initialized_client_id.
Initialized == {s \in Backlog : sockets[s].state = "DISCONNECTED"}

\* The socket _wifi_connection_callback answers AT_NEW_CONNECTION with.
NewConnection(c) ==
  IF map[c] # INVALID THEN map[c]
  ELSE IF setup.server /\ Initialized # {} THEN Min(Initialized) ELSE INVALID

\* The header of a payload: start_conn_read asks for a ring when the connection
\* has none, and submits a read.
RxPayload ==
  /\ Received("ipd")
  /\ LET c == Head(uart).n
         p == Head(uart).p
         s == IF conn[c].active THEN conn[c].cb ELSE NewConnection(c)
         binds == ~conn[c].active /\ map[c] = INVALID /\ s # INVALID
     IN /\ map' = IF binds THEN [map EXCEPT ![c] = s] ELSE map
        /\ conn' = [conn EXCEPT ![c] = [active |-> s # INVALID, cb |-> s]]
        /\ sockets' = IF binds
                      THEN [sockets EXCEPT ![s].state = "WAITING_ACCEPT", ![s].conn = c]
                      ELSE sockets
        /\ dest' = IF dest[p] = INVALID THEN [dest EXCEPT ![p] = s] ELSE dest
        /\ reading' = [conn |-> c, p |-> p]
  /\ operation' = "READING_PAYLOAD"
  /\ UNCHANGED <<setup, held, result, errors, link, todo, pc, cmd, ret, got, granted,
                 spoiled, peers, sent>>

\* Its bytes are in the ring, or dropped when the connection has none.
Stored ==
  IF conn[reading.conn].active
  THEN [sockets EXCEPT ![conn[reading.conn].cb].ring = Append(@, reading.p)]
  ELSE sockets

\* The last read is done: end_conn_read.
RxPayloadEnd ==
  /\ reading # NoPayload /\ operation = "READING_PAYLOAD"
  /\ sockets' = Stored
  /\ reading' = NoPayload
  /\ operation' = "READING_RESPONSES"
  /\ UNCHANGED <<setup, held, map, conn, result, errors, module, pc, cmd, ret, history,
                 peers, sent>>

\* What is left of a payload is parsed as text, in which an answer or a prompt
\* may be found.
AsText ==
  /\ reading' = NoPayload
  /\ spoiled' = spoiled \union {"text"}
  /\ result' \in {result} \union {Append(result, Token(t, STRAY)) : t \in {"ok", "error"}}
  /\ operation' \in {"READING_RESPONSES", "WAITING_SEND"}
  /\ operation = "READING_PAYLOAD" => operation' = "READING_RESPONSES"
  /\ UNCHANGED <<setup, held, map, conn, module, pc, cmd, ret, dest, got, granted,
                 peers, sent>>

\* A read is done, but WAITING_SEND was stored over READING_PAYLOAD: the ring
\* gets nothing.
RxOverwritten ==
  /\ reading # NoPayload /\ operation # "READING_PAYLOAD"
  /\ AsText
  /\ UNCHANGED <<sockets, errors>>

\* at_callback_error while a payload is read: one character is read instead, at
\* which end_conn_read counts the whole payload as written.
RxBroken ==
  /\ "uart" \in setup.noise
  /\ reading # NoPayload /\ operation = "READING_PAYLOAD"
  /\ AsText
  /\ sockets' = Stored
  /\ errors' = TRUE

\* at_callback_error between two characters of text.
UartError ==
  /\ "uart" \in setup.noise /\ reading = NoPayload
  /\ errors' = TRUE
  /\ UNCHANGED <<setup, held, sockets, map, conn, operation, reading, result, module, pc,
                 cmd, ret, history, peers, sent>>

\* _wifi_release_conn, on the pair of tables.
Release(s, socks, m) ==
  LET c == socks[s].conn IN
    IF c = INVALID THEN <<socks, m>>
    ELSE <<[socks EXCEPT ![s].conn = INVALID], [m EXCEPT ![c] = INVALID]>>

\* Mutant: the parser keeps the ring of the connection.
Inactive_KeepsRing(cn) == cn

\* check_conn_id: the connection is closed and its ring forgotten.
Inactive(cn) == [active |-> FALSE, cb |-> INVALID]

\* CLOSED: check_conn_id and _wifi_connection_callback(AT_CLOSED_CONNECTION).
RxClosed ==
  /\ Received("closed")
  /\ LET c == Head(uart).n
         s == map[c]
     IN /\ conn' = [conn EXCEPT ![c] = Inactive(@)]
        /\ IF s = INVALID
           THEN UNCHANGED <<sockets, map>>
           ELSE LET r == Release(s, sockets, map) IN
                  /\ sockets' = [r[1] EXCEPT ![s].state = "DISCONNECTED"]
                  /\ map' = r[2]
  /\ UNCHANGED <<setup, held, parser, link, todo, pc, cmd, ret, history, peers, sent>>

\* '>' ends WAITING_SEND; in READING_RESPONSES it is text no one looks for.
RxPrompt ==
  /\ Received("prompt")
  /\ operation' = "READING_RESPONSES"
  /\ UNCHANGED <<setup, held, reading, result, errors, sockets, map, conn, link, todo, pc,
                 cmd, ret, history, peers, sent>>

\* An answer is added to the buffer, or, with RESULT_BUFF_LEN bytes in it, a
\* character of the answer and all that came before are thrown away.
RxAnswer ==
  /\ \E t \in {"ok", "error"} : Received(t)
  /\ \/ result' = Append(result, Head(uart)) /\ UNCHANGED errors
     \/ "overflow" \in setup.noise /\ result' = <<>> /\ errors' = TRUE
  /\ UNCHANGED <<setup, held, sockets, map, conn, operation, reading, link, todo, pc, cmd,
                 ret, history, peers, sent>>

Rx == RxPayload \/ RxPayloadEnd \/ RxOverwritten \/ RxBroken
      \/ RxClosed \/ RxPrompt \/ RxAnswer

-----------------------------------------------------------------------------
(* at_run_cmd *)

\* build_cmd and the first write of send_cmd.
Issue(kind, s, c) ==
  /\ cmd.n < setup.cmds
  /\ cmd' = [kind |-> kind, sock |-> s, conn |-> c, n |-> cmd.n + 1]
  /\ todo' = [cmd' EXCEPT !.kind = IF kind \in {"CLOSE", "DISCONNECT"} THEN "STOP"
                                   ELSE kind]
  /\ pc' = IF kind = "SEND" THEN "written" ELSE "answer"
  /\ UNCHANGED <<setup, held, conn, parser, link, uart, ret, history, peers, sent>>

\* AT_SEND: WAITING_SEND is stored after the write, whatever the interrupt is in.
WaitingSend ==
  /\ pc = "written"
  /\ operation' = "WAITING_SEND"
  /\ pc' = "send"
  /\ UNCHANGED <<setup, held, sockets, map, conn, reading, result, errors, module, cmd, ret,
                 history, peers, sent>>

\* Mutant: an answer of failure stays in the buffer.
Cut_KeepsError(r) == IF r[1].t = "error" THEN r ELSE Tail(r)

\* End of wait_for_response: the answer leaves the buffer.
Cut(r) == Tail(r)

\* wait_for_response finds an answer.
Take ==
  /\ result # <<>>
  /\ got' = Head(result).n
  /\ UNCHANGED <<setup, held, sockets, map, conn, operation, reading, module, cmd, dest,
                 granted, spoiled, peers, sent>>
TakesOk == Head(result).t = "ok"

\* The answer: a success empties the buffer, and is reported as a failure when
\* there were errors.
TakeAnswer ==
  /\ pc = "answer" /\ Take
  /\ ret' = IF TakesOk /\ ~errors THEN 0 ELSE -1
  /\ result' = IF TakesOk THEN <<>> ELSE Cut(result)
  /\ errors' = (errors /\ ~TakesOk)
  /\ pc' = "finish"

\* AT_SEND: the first OK.
TakeSendOk ==
  /\ pc = "send" /\ Take
  /\ ret' = IF TakesOk THEN 0 ELSE -1
  /\ result' = Cut(result)
  /\ pc' = IF TakesOk THEN "prompt" ELSE "finish"
  /\ UNCHANGED errors

\* Mutant: the wait has no end.
Expired_Never == FALSE

\* MODULE_TIMEOUT has passed: nothing that could be an answer is on its way, or
\* it is late.
Silent == todo = NoTask /\ \A k \in DOMAIN uart : uart[k].t \in {"ipd", "closed"}
Elapsed == setup.answers = "late" \/ Silent
Expired == result = <<>> /\ Elapsed

\* AT_SEND: WAITING_SEND is over (or its wait is), the payload is written.
WritePayload ==
  /\ pc = "prompt"
  /\ operation # "WAITING_SEND" \/ Elapsed
  /\ todo = NoTask
  /\ todo' = [cmd EXCEPT !.kind = "PAYLOAD"]
  /\ pc' = "answer"
  /\ UNCHANGED <<setup, held, host, link, uart, cmd, ret, history, peers, sent>>

\* No answer within MODULE_TIMEOUT: the buffer is left as it is.
Timeout ==
  /\ pc \in {"answer", "send"} /\ Expired
  /\ ret' = -1 /\ got' = NoAnswer
  /\ spoiled' = IF Silent THEN spoiled ELSE spoiled \union {"late"}
  /\ pc' = "finish"
  /\ UNCHANGED <<setup, held, host, module, cmd, dest, granted, peers, sent>>

-----------------------------------------------------------------------------
(* The sockets *)

Idle == pc = "idle" /\ todo = NoTask
Returned(kinds) == pc = "finish" /\ cmd.kind \in kinds
Done == /\ pc' = "idle"
        /\ cmd' = [NoTask EXCEPT !.n = cmd.n]
        /\ ret' = 0 /\ got' = NoAnswer
        /\ UNCHANGED <<setup, conn, parser, module, dest, granted, peers, sent>>

SocketsIn(state) == {s \in Sockets : sockets[s].state = state}

\* wifi_socket_open: the first unused socket.
Open ==
  /\ ~setup.server /\ Idle
  /\ SocketsIn("UNUSED") # {}
  /\ LET s == Min(SocketsIn("UNUSED")) IN
       /\ sockets' = [sockets EXCEPT ![s].state = "DISCONNECTED"]
       /\ held' = held \cup {s}
  /\ UNCHANGED map
  /\ UNCHANGED spoiled
  /\ Done

\* wifi_socket_connect: take the first free connection id, start it.
Connect(s) ==
  /\ ~setup.server /\ Idle
  /\ sockets[s].state = "DISCONNECTED"
  /\ LET free == {c \in Conns : map[c] = INVALID}
         c == Min(free)
     IN /\ free # {}
        /\ map' = [map EXCEPT ![c] = s]
        /\ sockets' = [sockets EXCEPT ![s].conn = c]
        /\ Issue("START", s, c)

\* A connection that is reported as failed loses its id, also when the module
\* has opened it.
Connected ==
  /\ Returned({"START"})
  /\ IF ret = 0
     THEN /\ sockets' = [sockets EXCEPT ![cmd.sock].state = "CONNECTED"]
          /\ UNCHANGED map
     ELSE LET r == Release(cmd.sock, sockets, map) IN
            sockets' = r[1] /\ map' = r[2]
  /\ spoiled' = IF ret # 0 /\ granted = cmd.n THEN spoiled \union {"link"} ELSE spoiled
  /\ UNCHANGED held
  /\ Done

MayHangUp(s) == s \in held /\ (setup.server => setup.hangsUp)

\* wifi_socket_disconnect, and wifi_socket_close of a connected socket.
Disconnect(s, kind) ==
  /\ Idle /\ MayHangUp(s)
  /\ sockets[s].state \in {"CONNECTED", "WAITING_ACCEPT"}
  /\ Issue(kind, s, sockets[s].conn)
  /\ UNCHANGED <<sockets, map>>

\* The end of wifi_socket_close: the ring of a client socket is removed, that of
\* the backlog of a server stays.
Closed(sock) == [sock EXCEPT !.state = "UNUSED",
                             !.ring = IF setup.server THEN @ ELSE <<>>]

Disconnected ==
  /\ Returned({"DISCONNECT", "CLOSE"})
  /\ IF ret = 0
     THEN LET r == Release(cmd.sock, sockets, map) IN
            /\ sockets' = [r[1] EXCEPT ![cmd.sock] =
                             IF cmd.kind = "CLOSE" THEN Closed(@)
                             ELSE [@ EXCEPT !.state = "DISCONNECTED"]]
            /\ map' = r[2]
            /\ held' = IF cmd.kind = "CLOSE" THEN held \ {cmd.sock} ELSE held
     ELSE UNCHANGED <<sockets, map, held>>
  /\ UNCHANGED spoiled
  /\ Done

\* wifi_socket_close of a socket that is not connected.
Close(s) ==
  /\ Idle /\ MayHangUp(s)
  /\ sockets[s].state = "DISCONNECTED"
  /\ sockets' = [sockets EXCEPT ![s] = Closed(@)]
  /\ held' = held \ {s}
  /\ UNCHANGED map
  /\ UNCHANGED spoiled
  /\ Done

\* wifi_socket_send of one piece.
Send(s) ==
  /\ Idle
  /\ sockets[s].state = "CONNECTED"
  /\ Issue("SEND", s, sockets[s].conn)
  /\ UNCHANGED <<sockets, map>>

SendReturns ==
  /\ Returned({"SEND"})
  /\ UNCHANGED <<sockets, map, held>>
  /\ UNCHANGED spoiled
  /\ Done

\* wifi_socket_recv of all there is.
Recv(s) ==
  /\ Idle
  /\ sockets[s].state = "CONNECTED" /\ sockets[s].ring # <<>>
  /\ sockets' = [sockets EXCEPT ![s].ring = <<>>]
  /\ UNCHANGED <<map, held>>
  /\ UNCHANGED spoiled
  /\ Done

\* wifi_socket_accept: the first socket that waits.
Accept ==
  /\ setup.server /\ Idle
  /\ SocketsIn("WAITING_ACCEPT") # {}
  /\ LET s == Min(SocketsIn("WAITING_ACCEPT")) IN
       /\ sockets' = [sockets EXCEPT ![s].state = "CONNECTED"]
       /\ held' = held \cup {s}
  /\ UNCHANGED map
  /\ UNCHANGED spoiled
  /\ Done

-----------------------------------------------------------------------------

Wait == WaitingSend \/ TakeAnswer \/ TakeSendOk \/ WritePayload \/ Timeout
            \/ Connected \/ Disconnected \/ SendReturns

Calls == \/ Open \/ Accept
         \/ \E s \in Sockets : \/ Connect(s) \/ Close(s) \/ Send(s) \/ Recv(s)
                               \/ \E k \in {"DISCONNECT", "CLOSE"} : Disconnect(s, k)

Environment == \/ UartError
               \/ \E c \in Conns : PeerCloses(c) \/ PeerSends(c) \/ PeerConnects(c)

Next == Calls \/ Wait \/ Rx \/ Answer \/ Lose \/ Environment

Spec == Init /\ [][Next]_vars

\* The program runs on, the interrupt is served, the module answers
\* or loses the command.
FairSpec == Spec /\ WF_vars(Wait) /\ WF_vars(Rx) /\ WF_vars(Answer \/ Lose)

-----------------------------------------------------------------------------
(* Properties *)

\* "Wait the response for the last command": the answer at_run_cmd acts on is
\* the module's answer to that very command, whatever payloads, prompts and
\* notices arrived in between and however the previous commands ended.
EveryAnswerMatches == pc \in {"finish", "prompt"} => got \in {cmd.n, NoAnswer}

\* Only two things can put the program out of step with the module: a command was
\* given up before its answer came, and text of a payload was taken for one.
AnswersMatch == spoiled \intersect {"late", "text"} = {} => EveryAnswerMatches

\* A payload lands in the ring of the socket its peer belongs to: the one that
\* was connected to it, or the one its first payload was given.  No two open
\* links belong to one socket.  It must survive connection ids that are closed by
\* the peer, in the interrupt, and taken by another socket.
EveryOwnPayload ==
  /\ \A s \in Sockets : \A p \in ToSet(sockets[s].ring) : dest[p] = s
  /\ \A c, d \in Conns : link[c] # NoPeer /\ link[d] # NoPeer /\ c # d
       => dest[link[c]] # dest[link[d]] \/ dest[link[c]] = INVALID

\* It does until the program is out of step, or has released the id of a
\* connection that the module opened.
OwnPayload == spoiled = {} => EveryOwnPayload

\* Every command returns: no answer is missed and no prompt waited for in vain.
CommandsReturn == pc \in {"answer", "written", "send", "prompt"} ~> pc = "idle"

\* A connected socket has a connection (SOCKET_CONNECTED, "Socket connected to a
\* server or to a client").
ConnectedHasConn ==
  \A s \in Sockets : sockets[s].state = "CONNECTED" => sockets[s].conn # INVALID

\* A server whose clients all left can take a new one.
ServerKeepsServing ==
  setup.server /\ (\A s \in Backlog : sockets[s].state \in {"UNUSED", "DISCONNECTED"})
    => Initialized # {}
=============================================================================
