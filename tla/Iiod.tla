-------------------------------- MODULE Iiod --------------------------------
(***************************************************************************)
(* One connection of the IIO daemon, iio/iiod.c: the state machine of      *)
(* iiod_run_state, driven by iiod_conn_step, between a client that sends   *)
(* command lines and payload bytes and the operations of iio/iio.c.  A     *)
(* step is one pass through a case of iiod_run_state, or the part of it    *)
(* between two calls of the transport.                                     *)
(*                                                                         *)
(* A line is a record of what iiod_parse_line makes of it.  The text of a  *)
(* result value, an attribute, the XML or the mask is one character; the   *)
(* data of READBUF, WRITEBUF and WRITE is counted in bytes.                *)
(***************************************************************************)
EXTENDS Integers, Sequences

CONSTANTS
  PayloadLen,  \* conn->payload_buf_len
  Setups,      \* the builds, devices and clients that are considered
  MaxInp       \* bound: units in transit to the server

BufferCmds == {"READBUF", "WRITEBUF"}
NoDevCmds == {"HELP", "EXIT", "PRINT", "VERSION", "TIMEOUT"}
SimpleCmds == {"HELP", "TIMEOUT", "OPEN", "CLOSE", "SETTRIG", "SET"}
Cmds == SimpleCmds \union BufferCmds \union
        {"EXIT", "PRINT", "VERSION", "READ", "GETTRIG", "WRITE"}

\* struct comand_desc; kind tells a line that parses from one that does not,
\* from an empty and an overlong one, and from a byte of payload.
\* The device is "none" before one has been named.
CmdData == [cmd : Cmds, dev : {"none", "a", "b"}, count : Nat, cyclic : BOOLEAN]
Units == [kind : {"line", "bad", "empty", "long", "byte"}, cmd : Cmds,
          dev : {"a", "b"}, count : Nat, cyclic : BOOLEAN]

\* What the daemon is built for and runs with.
Setup ==
  [network : BOOLEAN,        \* desc->phy_type = USE_NETWORK
   dev_size : Nat \ {0},     \* bytes of the ring of a device
   lines : SUBSET {u \in Units : u.kind # "byte"},  \* what clients send
   dev_fails : SUBSET {"refill", "push", "read", "write"},  \* may fail
   newline_short : BOOLEAN,  \* the transport may refuse a lone newline
   push_drains : BOOLEAN,    \* push_buffer empties the ring
   disconnects : BOOLEAN,    \* clients may vanish
   max_cmds : Nat,           \* bound: lines sent in all
   max_short : Nat]          \* bound: sends that are cut short

ASSUME IiodAssumption ==
  PayloadLen \in Nat \ {0} /\ MaxInp \in Nat /\ Setups \subseteq Setup

VARIABLES
  setup,      \* member of Setups, fixed
  used, state, cmd_data, res, nb_buf, is_cyclic_buffer,  \* iiod_conn_priv
  parsing,    \* conn->parser_idx # 0, with payload bytes in the line
  stepping,   \* iiod_conn_step has been called and has not returned
  ret,        \* what it returned last
  up, inp,    \* client: connected; what it sent and is not yet received
  owed,       \* client: payload bytes still to be sent
  nsent,      \* client: lines sent
  shorts,     \* transport: sends cut short
  data,       \* device: bytes in its ring for READBUF
  room,       \* device: free bytes in its ring for WRITEBUF
  request,    \* history: the unit of the command being served
  out,        \* history: what was sent in reply to it
  stored,     \* history: its payload bytes stored in the ring
  cyclic_dev  \* history: device opened as cyclic and not closed since

conn == <<used, state, cmd_data, res, nb_buf, is_cyclic_buffer, parsing>>
call == <<stepping, ret>>
client == <<up, inp, owed, nsent>>
device == <<data, room>>
history == <<request, out, stored, cyclic_dev>>
env == <<setup, shorts>>
vars == <<conn, call, client, env, device, history>>

MinOf(a, b) == IF a < b THEN a ELSE b

Buff(len, idx) == [len |-> len, idx |-> idx]
NoCmd == [cmd |-> "HELP", dev |-> "none", count |-> 0, cyclic |-> FALSE]
NoUnit == [kind |-> "empty", cmd |-> "HELP", dev |-> "a", count |-> 0,
           cyclic |-> FALSE]
NoResult == [write_val |-> FALSE, val |-> "ok", buf |-> Buff(0, 0)]

\* Stores into conn->res, which conn_clean_state has zeroed: a value to be
\* written, and a text.
Value(val) == [res EXCEPT !.write_val = TRUE, !.val = val]
Text(result) == [result EXCEPT !.buf = Buff(1, @.idx)]

\* iiod_conn_add: the slot is zeroed.
Init ==
  /\ setup \in Setups
  /\ used = TRUE
  /\ state = "READING_LINE"
  /\ cmd_data = NoCmd
  /\ res = NoResult
  /\ nb_buf = Buff(0, 0)
  /\ is_cyclic_buffer = FALSE
  /\ parsing = FALSE
  /\ stepping = FALSE
  /\ ret = "none"
  /\ up = TRUE
  /\ inp = <<>>
  /\ owed = 0
  /\ nsent = 0
  /\ shorts = 0
  /\ data = 0
  /\ room = setup.dev_size
  /\ request = NoUnit
  /\ out = <<>>
  /\ stored = 0
  /\ cyclic_dev = "none"

-----------------------------------------------------------------------------
(* Client and device *)

ClientSend ==
  /\ used /\ up
  /\ owed = 0
  /\ nsent < setup.max_cmds
  /\ Len(inp) < MaxInp
  /\ \E line \in setup.lines :
       /\ inp' = Append(inp, line)
       /\ owed' = IF line.kind = "line" /\ line.cmd \in {"WRITE", "WRITEBUF"}
                  THEN line.count ELSE 0
  /\ nsent' = nsent + 1
  /\ UNCHANGED <<conn, call, up, env, device, history>>

ClientByte ==
  /\ used /\ up
  /\ owed > 0
  /\ Len(inp) < MaxInp
  /\ inp' = Append(inp, [NoUnit EXCEPT !.kind = "byte"])
  /\ owed' = owed - 1
  /\ UNCHANGED <<conn, call, up, nsent, env, device, history>>

ClientGone ==
  /\ setup.disconnects
  /\ used /\ up
  /\ up' = FALSE
  /\ UNCHANGED <<conn, call, inp, owed, nsent, env, device, history>>

\* A DMA engine or a trigger handler moves a byte.
DeviceFills ==
  /\ data < setup.dev_size
  /\ data' = data + 1
  /\ UNCHANGED <<conn, call, client, env, room, history>>

DeviceDrains ==
  /\ room < setup.dev_size
  /\ room' = room + 1
  /\ UNCHANGED <<conn, call, client, env, data, history>>

-----------------------------------------------------------------------------
(* iiod_conn_step *)

\* Called by iio_step when the connection comes to the front of the queue.
ConnStep ==
  /\ used /\ ~stepping
  /\ stepping' = TRUE
  /\ ret' = "none"
  /\ UNCHANGED <<conn, client, env, device, history>>

\* iiod_run_state returned 0 and the loop goes on.
Go(s) == state' = s /\ UNCHANGED call

\* Mutant: the loop goes on after -EAGAIN.
Again_Spins == UNCHANGED <<stepping, ret, state>>

\* It returned -EAGAIN: everything is kept for the next call.
Again == stepping' = FALSE /\ ret' = "again" /\ UNCHANGED state

\* Mutant: the result of the command is kept.
Clean_KeptResult(result) ==
  /\ stepping' = FALSE
  /\ ret' = result
  /\ state' = "READING_LINE"
  /\ cmd_data' = NoCmd
  /\ nb_buf' = Buff(0, 0)
  /\ parsing' = FALSE
  /\ UNCHANGED <<res, is_cyclic_buffer>>

\* Mutant: the state is left at IIOD_LINE_DONE.
Clean_KeptState(result) ==
  /\ stepping' = FALSE
  /\ ret' = result
  /\ state' = "LINE_DONE"
  /\ cmd_data' = NoCmd
  /\ res' = NoResult
  /\ nb_buf' = Buff(0, 0)
  /\ parsing' = FALSE
  /\ UNCHANGED is_cyclic_buffer

\* It reached IIOD_LINE_DONE, or failed: conn_clean_state.
Clean(result) ==
  /\ stepping' = FALSE
  /\ ret' = result
  /\ state' = "READING_LINE"
  /\ cmd_data' = NoCmd
  /\ res' = NoResult
  /\ nb_buf' = Buff(0, 0)
  /\ parsing' = FALSE
  /\ UNCHANGED is_cyclic_buffer

\* On -ENOTCONN iio_step also removes the connection.
Gone ==
  /\ Clean("notconn")
  /\ used' = FALSE
  /\ UNCHANGED <<client, env, device, history>>

\* States in which iiod_run_state receives, or sends, next.
Receiving ==
  \/ state = "READING_LINE"
  \/ state = "READING_WRITE_DATA" /\ nb_buf.idx < nb_buf.len
  \/ state = "RW_BUF" /\ cmd_data.cmd # "READBUF" /\ nb_buf.idx < nb_buf.len
Sending ==
  \/ /\ state = "WRITING_CMD_RESULT"
     /\ res.buf.idx < res.buf.len \/ (res.write_val /\ nb_buf.idx < nb_buf.len)
  \/ /\ state = "RW_BUF" /\ cmd_data.cmd = "READBUF"
     /\ ~setup.network /\ nb_buf.idx < nb_buf.len

\* send and recv on a closed socket.
Disconnected ==
  /\ stepping /\ ~up
  /\ Receiving \/ Sending
  /\ Gone

-----------------------------------------------------------------------------
(* rw_iiod_buff *)

\* IIOD_WR: n bytes of b, then (endl = 1) the newline, are accepted; anything
\* less than all of it is -EAGAIN.
Unsent(b) == b.len - b.idx
Complete(b, endl, o) == o.n = Unsent(b) /\ o.nl = endl
WrOutcomes(b, endl) ==
  {o \in [n : 0 .. Unsent(b), nl : 0 .. endl] :
     \/ Complete(b, endl, o)
     \/ /\ shorts < setup.max_short
        /\ o.nl = 0
        /\ o.n = Unsent(b) => endl = 1 /\ setup.newline_short}

Sent(b, endl, o, what) ==
  /\ out' = out \o [i \in 1 .. o.n |-> what]
                \o [i \in 1 .. o.nl |-> "nl"]
  /\ shorts' = IF Complete(b, endl, o) THEN shorts ELSE shorts + 1
  /\ UNCHANGED <<setup, request, stored, cyclic_dev>>

\* IIOD_RD: the payload bytes that have arrived.
Arrived == IF \E i \in 1 .. Len(inp) : inp[i].kind # "byte"
           THEN (CHOOSE i \in 1 .. Len(inp) :
                   /\ inp[i].kind # "byte"
                   /\ \A j \in 1 .. i - 1 : inp[j].kind = "byte") - 1
           ELSE Len(inp)

Take(n) ==
  /\ inp' = SubSeq(inp, n + 1, Len(inp))
  /\ UNCHANGED <<up, owed, nsent>>

-----------------------------------------------------------------------------
(* IIOD_READING_LINE *)

ReadLineAgain ==
  /\ stepping /\ up
  /\ state = "READING_LINE"
  /\ inp = <<>>
  /\ Again
  /\ UNCHANGED <<used, cmd_data, res, nb_buf, is_cyclic_buffer, parsing,
                 client, env, device, history>>

\* A newline at the start of the line is skipped, other bytes are kept.
ReadLineByte ==
  /\ stepping /\ up
  /\ state = "READING_LINE"
  /\ inp # <<>>
  /\ \/ Head(inp).kind = "empty" /\ ~parsing /\ UNCHANGED parsing
     \/ Head(inp).kind = "byte" /\ parsing' = TRUE
  /\ Take(1)
  /\ UNCHANGED <<used, state, cmd_data, res, nb_buf, is_cyclic_buffer, call,
                 env, device, history>>

\* -EIO, with the rest of the line still to come.
ReadLineTooLong ==
  /\ stepping /\ up
  /\ state = "READING_LINE"
  /\ inp # <<>>
  /\ Head(inp).kind = "long"
  /\ Clean("error")
  /\ inp' = <<[NoUnit EXCEPT !.kind = "bad"]>> \o Tail(inp)
  /\ UNCHANGED <<used, up, owed, nsent, env, device, history>>

\* iiod_parse_line: an unknown command (HELP and "bad"), or a line that
\* starts with stray payload, changes nothing; any other command is stored
\* with its device, even when the rest of the line does not parse.
Unknown(unit) == parsing \/ (unit.kind # "line" /\ unit.cmd = "HELP")
Parsed(unit) ==
  IF Unknown(unit) THEN cmd_data
  ELSE [cmd |-> unit.cmd,
        dev |-> IF unit.cmd \in NoDevCmds THEN cmd_data.dev ELSE unit.dev,
        count |-> IF unit.kind = "line" THEN unit.count ELSE 0,
        cyclic |-> unit.cyclic]

\* Mutant: the payload of WRITE is not read.
AfterParse_NoPayload(ok, cmd) ==
  IF ~ok THEN "WRITING_CMD_RESULT" ELSE "RUNNING_CMD"

AfterParse(ok, cmd) ==
  IF ~ok THEN "WRITING_CMD_RESULT"
  ELSE IF cmd = "WRITE" THEN "READING_WRITE_DATA"
  ELSE "RUNNING_CMD"

ReadLine ==
  /\ stepping /\ up
  /\ state = "READING_LINE"
  /\ inp # <<>>
  /\ Head(inp).kind \in {"line", "bad"} \/ (Head(inp).kind = "empty" /\ parsing)
  /\ LET unit == Head(inp)
         ok == unit.kind = "line" /\ ~parsing
     IN /\ cmd_data' = Parsed(unit)
        /\ res' = IF ok THEN res ELSE Value("err")
        /\ nb_buf' = IF ok /\ unit.cmd = "WRITE" THEN Buff(unit.count, 0)
                                                 ELSE nb_buf
        /\ Go(AfterParse(ok, unit.cmd))
        /\ request' = IF ok THEN unit ELSE [unit EXCEPT !.kind = "bad"]
  /\ parsing' = FALSE
  /\ out' = <<>>
  /\ stored' = 0
  /\ Take(1)
  /\ UNCHANGED <<used, is_cyclic_buffer, env, device, cyclic_dev>>

\* Mutant: one byte more than announced is waited for.
ReadWriteData_OneMore ==
  /\ stepping
  /\ up \/ nb_buf.idx = nb_buf.len
  /\ state = "READING_WRITE_DATA"
  /\ LET n == MinOf(Arrived, Unsent(nb_buf) + 1)
     IN /\ Take(n)
        /\ nb_buf' = Buff(nb_buf.len, nb_buf.idx + n)
        /\ IF n = Unsent(nb_buf) + 1 THEN Go("RUNNING_CMD") ELSE Again
  /\ UNCHANGED <<used, cmd_data, res, is_cyclic_buffer, parsing, env,
                 device, history>>

\* IIOD_READING_WRITE_DATA: as many bytes as the line announced, whatever the
\* size of the payload buffer.
ReadWriteData ==
  /\ stepping
  /\ up \/ nb_buf.idx = nb_buf.len
  /\ state = "READING_WRITE_DATA"
  /\ LET n == MinOf(Arrived, Unsent(nb_buf))
     IN /\ Take(n)
        /\ nb_buf' = Buff(nb_buf.len, nb_buf.idx + n)
        /\ IF n = Unsent(nb_buf) THEN Go("RUNNING_CMD") ELSE Again
  /\ UNCHANGED <<used, cmd_data, res, is_cyclic_buffer, parsing, env,
                 device, history>>

-----------------------------------------------------------------------------
(* IIOD_RUNNING_CMD: iiod_run_cmd *)

CyclicAfter(d) ==
  CASE d.cmd = "OPEN" -> is_cyclic_buffer \/ d.cyclic
    [] d.cmd = "CLOSE" -> FALSE
    [] OTHER -> is_cyclic_buffer

\* call_op, which may change the ring of the device.
RunSimple ==
  /\ stepping
  /\ state = "RUNNING_CMD"
  /\ cmd_data.cmd \in SimpleCmds
  /\ \E val \in {"ok", "err"} :
       /\ cmd_data.cmd = "HELP" => val = "err"
       /\ res' = Value(val)
       /\ IF cmd_data.cmd = "OPEN" /\ val = "ok"
          THEN data' = 0 /\ room' = setup.dev_size
          ELSE UNCHANGED device
  /\ is_cyclic_buffer' = CyclicAfter(cmd_data)
  /\ cyclic_dev' = CASE cmd_data.cmd = "OPEN" /\ cmd_data.cyclic ->
                          cmd_data.dev
                     [] cmd_data.cmd = "CLOSE" /\ cmd_data.dev = cyclic_dev ->
                          "none"
                     [] OTHER -> cyclic_dev
  /\ Go("WRITING_CMD_RESULT")
  /\ UNCHANGED <<used, cmd_data, nb_buf, parsing, client, env, request,
                 out, stored>>

RunExit ==
  /\ stepping
  /\ state = "RUNNING_CMD"
  /\ cmd_data.cmd = "EXIT"
  /\ Gone

\* Commands that answer with a text: the XML, the version, an attribute, the
\* trigger, or for READBUF the mask.
RunText ==
  /\ stepping
  /\ state = "RUNNING_CMD"
  /\ \/ cmd_data.cmd = "VERSION" /\ res' = Text(res)
     \/ /\ cmd_data.cmd \in {"PRINT", "READ", "GETTRIG", "READBUF"}
        /\ res' = Text(Value("ok"))
     \/ /\ \/ cmd_data.cmd \in {"READ", "GETTRIG"}
           \/ cmd_data.cmd = "READBUF" /\ "refill" \in setup.dev_fails
        /\ res' = Value("err")
  /\ Go("WRITING_CMD_RESULT")
  /\ UNCHANGED <<used, cmd_data, nb_buf, is_cyclic_buffer, parsing, client,
                 env, device, history>>

RunWrite ==
  /\ stepping
  /\ state = "RUNNING_CMD"
  /\ \/ /\ cmd_data.cmd = "WRITE"
        /\ nb_buf' = Buff(0, nb_buf.idx)
        /\ res' \in {Value("ok"), Value("err")}
     \/ /\ cmd_data.cmd = "WRITEBUF"
        /\ res' = Value("ok")
        /\ UNCHANGED nb_buf
  /\ Go("WRITING_CMD_RESULT")
  /\ UNCHANGED <<used, cmd_data, is_cyclic_buffer, parsing, client, env,
                 device, history>>

-----------------------------------------------------------------------------
(* IIOD_WRITING_CMD_RESULT *)

\* sprintf of the value, once.
FormatResult ==
  /\ stepping
  /\ state = "WRITING_CMD_RESULT"
  /\ res.write_val /\ nb_buf.len = 0
  /\ nb_buf' = Buff(1, 0)
  /\ UNCHANGED <<used, state, cmd_data, res, is_cyclic_buffer, parsing, call,
                 client, env, device, history>>

ValuePending == res.write_val /\ nb_buf.idx < nb_buf.len
ValueDone == res.write_val => nb_buf.len # 0 /\ ~ValuePending
\* Mutant: the text is never sent.
TextPending_Never == FALSE
TextPending == res.buf.idx < res.buf.len

SendValue ==
  /\ stepping /\ up
  /\ state = "WRITING_CMD_RESULT"
  /\ ValuePending
  /\ \E o \in WrOutcomes(nb_buf, 1) :
       /\ Sent(nb_buf, 1, o, res.val)
       /\ nb_buf' = Buff(nb_buf.len, nb_buf.idx + o.n)
       /\ IF Complete(nb_buf, 1, o) THEN Go(state) ELSE Again
  /\ UNCHANGED <<used, cmd_data, res, is_cyclic_buffer, parsing, client,
                 device>>

SendText ==
  /\ stepping /\ up
  /\ state = "WRITING_CMD_RESULT"
  /\ ValueDone
  /\ TextPending
  /\ \E o \in WrOutcomes(res.buf, 1) :
       /\ Sent(res.buf, 1, o, "text")
       /\ res' = [res EXCEPT !.buf = Buff(@.len, @.idx + o.n)]
       /\ IF Complete(res.buf, 1, o) THEN Go(state) ELSE Again
  /\ UNCHANGED <<used, cmd_data, nb_buf, is_cyclic_buffer, parsing, client,
                 device>>

ResultSent ==
  /\ stepping
  /\ state = "WRITING_CMD_RESULT"
  /\ ValueDone
  /\ ~TextPending
  /\ \/ /\ cmd_data.cmd \in BufferCmds
        /\ nb_buf' = Buff(0, 0)
        /\ Go("RW_BUF")
        /\ UNCHANGED <<cmd_data, res, is_cyclic_buffer, parsing>>
     \/ /\ cmd_data.cmd \notin BufferCmds
        /\ is_cyclic_buffer /\ cmd_data.cmd # "OPEN"
        /\ Go("PUSH_CYCLIC_BUFFER")
        /\ UNCHANGED <<cmd_data, res, nb_buf, is_cyclic_buffer, parsing>>
     \/ /\ cmd_data.cmd \notin BufferCmds
        /\ ~is_cyclic_buffer \/ cmd_data.cmd = "OPEN"
        /\ Clean("done")
  /\ UNCHANGED <<used, client, env, device, history>>

-----------------------------------------------------------------------------
(* IIOD_RW_BUF: chunks of at most PayloadLen bytes *)

ChunkDone == [cmd_data EXCEPT !.count = @ - nb_buf.len]

\* Mutant: the first chunk is taken for the last.
MoreChunks_Never == FALSE
MoreChunks == cmd_data.count > nb_buf.len

-----------------------------------------------------------------------------
(* IIOD_RW_BUF with READBUF: do_read_buff, do_read_buff_delayed *)

\* iio_read_buffer hands over what the ring holds; nothing is -EAGAIN.
Readable(len) == MinOf(data, len)

ReadBuf == stepping /\ state = "RW_BUF" /\ cmd_data.cmd = "READBUF"

\* Mutant: the size of the payload buffer is ignored.
Wanted_Whole == cmd_data.count

\* How much do_read_buff, or do_read_buff_delayed, asks for.
Wanted == IF setup.network
          THEN MinOf(PayloadLen, cmd_data.count) - nb_buf.len
          ELSE MinOf(PayloadLen, cmd_data.count)
Fetching == ReadBuf /\ (setup.network \/ nb_buf.len = 0)

ReadBufAgain ==
  /\ Fetching
  /\ Readable(Wanted) = 0
  /\ Again
  /\ UNCHANGED <<used, cmd_data, res, nb_buf, is_cyclic_buffer, parsing,
                 client, env, device, history>>

\* read_buffer fails, with -NO_OS_EOVERRUN for instance.
ReadBufFails ==
  /\ "read" \in setup.dev_fails
  /\ Fetching
  /\ Clean("error")
  /\ UNCHANGED <<used, client, env, device, history>>

ReadBufFetch ==
  /\ Fetching /\ ~setup.network
  /\ Readable(Wanted) > 0
  /\ nb_buf' = Buff(Readable(Wanted), 0)
  /\ data' = data - Readable(Wanted)
  /\ UNCHANGED <<used, state, cmd_data, res, is_cyclic_buffer, parsing, call,
                 client, env, room, history>>

ReadBufSend ==
  /\ ReadBuf /\ ~setup.network
  /\ up
  /\ nb_buf.idx < nb_buf.len
  /\ \E o \in WrOutcomes(nb_buf, 0) :
       /\ Sent(nb_buf, 0, o, "data")
       /\ IF ~Complete(nb_buf, 0, o)
          THEN /\ Again
               /\ nb_buf' = Buff(nb_buf.len, nb_buf.idx + o.n)
               /\ UNCHANGED <<cmd_data, res, parsing, is_cyclic_buffer>>
          ELSE IF MoreChunks
          THEN /\ Again
               /\ cmd_data' = ChunkDone
               /\ nb_buf' = Buff(0, nb_buf.len)
               /\ UNCHANGED <<res, parsing, is_cyclic_buffer>>
          ELSE Clean("done")
  /\ UNCHANGED <<used, client, device>>

\* The network backend sends nothing until everything has been fetched.
ReadBufDelayed ==
  /\ Fetching /\ setup.network
  /\ Readable(Wanted) > 0
  /\ data' = data - Readable(Wanted)
  /\ LET b == Buff(nb_buf.len + Readable(Wanted), nb_buf.idx)
     IN \/ /\ b.len < cmd_data.count
           /\ nb_buf' = b
           /\ Again
           /\ UNCHANGED <<used, cmd_data, res, parsing, is_cyclic_buffer,
                          env, history>>
        \/ /\ b.len = cmd_data.count
           /\ ~up
           /\ Clean("notconn")
           /\ used' = FALSE
           /\ UNCHANGED <<env, history>>
        \/ /\ b.len = cmd_data.count
           /\ up
           /\ \E o \in WrOutcomes(b, 0) :
                /\ Sent(b, 0, o, "data")
                /\ IF Complete(b, 0, o)
                   THEN Clean("done")
                   ELSE /\ Again
                        /\ nb_buf' = Buff(b.len, b.idx + o.n)
                        /\ UNCHANGED <<cmd_data, res, parsing,
                                       is_cyclic_buffer>>
           /\ UNCHANGED used
  /\ UNCHANGED <<client, room>>

-----------------------------------------------------------------------------
(* IIOD_RW_BUF with WRITEBUF: do_write_buff *)

WriteBuf == stepping /\ state = "RW_BUF" /\ cmd_data.cmd = "WRITEBUF"

WriteBufStart ==
  /\ WriteBuf
  /\ nb_buf.len = 0
  /\ cmd_data.count > 0
  /\ nb_buf' = Buff(MinOf(PayloadLen, cmd_data.count), 0)
  /\ UNCHANGED <<used, state, cmd_data, res, is_cyclic_buffer, parsing, call,
                 client, env, device, history>>

WriteBufRecv ==
  /\ WriteBuf /\ up
  /\ nb_buf.idx < nb_buf.len
  /\ LET n == MinOf(Arrived, Unsent(nb_buf))
     IN /\ Take(n)
        /\ nb_buf' = Buff(nb_buf.len, nb_buf.idx + n)
        /\ IF n = Unsent(nb_buf) THEN Go(state) ELSE Again
  /\ UNCHANGED <<used, cmd_data, res, is_cyclic_buffer, parsing, env,
                 device, history>>

\* iio_write_buffer stores what there is room for; with no room, or nothing
\* to store, no_os_cb_write fails.
Storable == MinOf(room, nb_buf.len)
Storing ==
  /\ WriteBuf
  /\ nb_buf.len = 0 => cmd_data.count = 0
  /\ nb_buf.idx >= nb_buf.len

WriteBufFails ==
  /\ Storing
  /\ Storable = 0 \/ "write" \in setup.dev_fails
  /\ Clean("error")
  /\ UNCHANGED <<used, client, env, device, history>>

\* do_write_buff counts the whole chunk as written.  After the last one
\* push_buffer is called, and its result sent as that of a PRINT.
WriteBufStore ==
  /\ Storing
  /\ Storable > 0
  /\ stored' = stored + Storable
  /\ \/ /\ MoreChunks
        /\ cmd_data' = ChunkDone
        /\ nb_buf' = Buff(0, nb_buf.idx)
        /\ room' = room - Storable
        /\ Again
        /\ UNCHANGED <<res, parsing, is_cyclic_buffer>>
     \/ /\ ~MoreChunks
        /\ cmd_data' = [cmd_data EXCEPT !.cmd = "PRINT", !.count = 0]
        /\ nb_buf' = Buff(0, nb_buf.idx)
        /\ room' = IF setup.push_drains THEN setup.dev_size
                   ELSE room - Storable
        /\ res' = [Value("ok") EXCEPT !.buf = Buff(0, 0)]
        /\ Go("WRITING_CMD_RESULT")
        /\ UNCHANGED <<parsing, is_cyclic_buffer>>
     \/ /\ ~MoreChunks
        /\ "push" \in setup.dev_fails
        /\ room' = room - Storable
        /\ Clean("done")
  /\ UNCHANGED <<used, client, env, data, request, out, cyclic_dev>>

-----------------------------------------------------------------------------
(* IIOD_PUSH_CYCLIC_BUFFER: push_buffer, then a look at the next line *)

Pushing == stepping /\ state = "PUSH_CYCLIC_BUFFER"
\* push_buffer succeeds: the last command named a device.
Pushed == Pushing /\ cmd_data.dev # "none"

\* A push that fails closes the device; no result is sent.
PushFails ==
  /\ Pushing
  /\ "push" \in setup.dev_fails \/ cmd_data.dev = "none"
  /\ stepping' = FALSE
  /\ ret' = "done"
  /\ state' = "READING_LINE"
  /\ cmd_data' = NoCmd
  /\ res' = NoResult
  /\ nb_buf' = Buff(0, 0)
  /\ parsing' = FALSE
  /\ is_cyclic_buffer' = FALSE
  /\ cyclic_dev' = IF cmd_data.dev = cyclic_dev THEN "none" ELSE cyclic_dev
  /\ UNCHANGED <<used, client, env, device, request, out, stored>>

\* Without a complete line iiod_run_state returns 0 and is called again:
\* iiod_conn_step stays in its loop, and this state does not change.
PushAnother ==
  /\ Pushed
  /\ inp = <<>> \/ ~up
  /\ UNCHANGED vars

\* Of an overlong line the rest, an unknown command, is ignored as well.
PushByte ==
  /\ Pushed /\ up
  /\ inp # <<>>
  /\ \/ Head(inp).kind = "empty" /\ ~parsing /\ UNCHANGED parsing
     \/ Head(inp).kind = "byte" /\ parsing' = TRUE
     \/ Head(inp).kind = "long" /\ parsing' = FALSE
  /\ Take(1)
  /\ UNCHANGED <<used, state, cmd_data, res, nb_buf, is_cyclic_buffer, call,
                 env, device, history>>

\* Mutant: every command is ignored.
IsClose_Never(unit) == FALSE
IsClose(unit) == unit.kind = "line" /\ ~parsing /\ unit.cmd = "CLOSE"

PushLine ==
  /\ Pushed /\ up
  /\ inp # <<>>
  /\ Head(inp).kind \in {"line", "bad"} \/ (Head(inp).kind = "empty" /\ parsing)
  /\ LET unit == Head(inp)
     IN /\ cmd_data' = Parsed(unit)
        /\ IF IsClose(unit)
           THEN /\ nb_buf' = Buff(0, nb_buf.idx)
                /\ is_cyclic_buffer' = FALSE
                /\ Go("RUNNING_CMD")
                /\ request' = unit
                /\ out' = <<>>
           ELSE UNCHANGED <<state, call, nb_buf, is_cyclic_buffer, request,
                            out>>
  /\ parsing' = FALSE
  /\ Take(1)
  /\ UNCHANGED <<used, res, env, device, stored, cyclic_dev>>

-----------------------------------------------------------------------------
\* accept_network_clients gives the slot to a new client.
ConnAdd ==
  /\ ~used
  /\ used' = TRUE
  /\ is_cyclic_buffer' = FALSE
  /\ up' = TRUE
  /\ inp' = <<>>
  /\ owed' = 0
  /\ ret' = "none"
  /\ cyclic_dev' = "none"
  /\ UNCHANGED <<state, cmd_data, res, nb_buf, parsing, stepping, nsent,
                 env, device, request, out, stored>>

Reading == ReadLineAgain \/ ReadLineByte \/ ReadLineTooLong \/ ReadLine
           \/ ReadWriteData
Running == RunSimple \/ RunExit \/ RunText \/ RunWrite
Writing == FormatResult \/ SendValue \/ SendText \/ ResultSent
Buffering == \/ ReadBufAgain \/ ReadBufFails \/ ReadBufFetch \/ ReadBufSend
             \/ ReadBufDelayed
             \/ WriteBufStart \/ WriteBufRecv \/ WriteBufFails \/ WriteBufStore
Cyclic == PushFails \/ PushAnother \/ PushByte \/ PushLine

RunState == Reading \/ Running \/ Writing \/ Buffering \/ Cyclic \/ Disconnected
Client == ClientSend \/ ClientByte \/ ClientGone
Device == DeviceFills \/ DeviceDrains

Next == Client \/ Device \/ ConnStep \/ RunState \/ ConnAdd

Spec == Init /\ [][Next]_vars

\* The main loop serves every connection in turn, clients send the payload
\* they announced, and devices keep producing and consuming.
Fairness ==
  /\ WF_vars(ConnStep) /\ WF_vars(RunState)
  /\ WF_vars(ClientByte) /\ WF_vars(DeviceFills) /\ WF_vars(DeviceDrains)

FairSpec == Spec /\ Fairness
-----------------------------------------------------------------------------
(* Properties *)

\* The connection, its cursors and the environment stay in their ranges.
TypeOK ==
  /\ setup \in Setups
  /\ used \in BOOLEAN /\ stepping \in BOOLEAN /\ up \in BOOLEAN
  /\ parsing \in BOOLEAN /\ is_cyclic_buffer \in BOOLEAN
  /\ state \in {"READING_LINE", "RUNNING_CMD", "WRITING_CMD_RESULT", "RW_BUF",
                "READING_WRITE_DATA", "PUSH_CYCLIC_BUFFER"}
  /\ cmd_data \in CmdData
  /\ res \in [write_val : BOOLEAN, val : {"ok", "err"},
              buf : [len : {0, 1}, idx : {0, 1}]]
  /\ nb_buf \in [len : Nat, idx : Nat]
  /\ ret \in {"none", "again", "done", "error", "notconn"}
  /\ inp \in Seq(Units) /\ owed \in Nat /\ nsent \in Nat /\ shorts \in Nat
  /\ data \in 0 .. setup.dev_size /\ room \in 0 .. setup.dev_size
  /\ request \in Units /\ stored \in Nat
  /\ out \in Seq({"ok", "err", "nl", "text", "data"})
  /\ cyclic_dev \in {"none", "a", "b"}

\* The replies that a client can tell apart: what it reads for each command.
Refused == <<"err", "nl">>
Accepted == <<"ok", "nl">>
WithText == <<"ok", "nl", "text", "nl">>

Replies(u) ==
  IF u.kind # "line" THEN {Refused} ELSE
  CASE u.cmd \in SimpleCmds \union {"WRITE"} -> {Accepted, Refused}
    [] u.cmd = "EXIT" -> {<<>>}
    [] u.cmd = "PRINT" -> {WithText}
    [] u.cmd = "VERSION" -> {<<"text", "nl">>}
    [] u.cmd \in {"READ", "GETTRIG"} -> {WithText, Refused}
    [] u.cmd = "READBUF" ->
         {WithText \o [i \in 1 .. u.count |-> "data"], Refused}
    [] u.cmd = "WRITEBUF" -> {Accepted \o Accepted, Accepted \o Refused, Refused}

\* What is sent is at every moment the beginning of a reply the client
\* expects to the command it sent: no line end is missing, and nothing
\* follows an error.
ReplyWellFormed ==
  \E reply \in Replies(request) :
    Len(out) <= Len(reply) /\ out = SubSeq(reply, 1, Len(out))

\* When the daemon goes back to reading lines, having reported nothing to
\* its caller, the client has got a complete reply ...
CompleteReply == ret = "done" => out \in Replies(request)

\* ... unless push_buffer failed.
ReplyComplete == "push" \notin setup.dev_fails => CompleteReply

\* A client that announced payload never has it taken for a command line,
\* as long as no transfer fails.
InSync ==
  (ret = "done" /\ inp # <<>> /\ setup.dev_fails = {} /\ setup.push_drains)
    => Head(inp).kind # "byte"

\* A WRITEBUF that is reported as done has stored every byte of its payload.
StoredAll ==
  (ret = "done" /\ request.kind = "line" /\ request.cmd = "WRITEBUF"
     /\ out = Accepted \o Accepted) => stored = request.count

\* On a device that takes what is pushed to it, WRITEBUF loses nothing.
AllStored == setup.push_drains => StoredAll

\* The chunks of READBUF and WRITEBUF stay inside the payload buffer ...
ChunksInPayload ==
  (state = "RW_BUF" /\ nb_buf.len > 0) =>
    nb_buf.idx <= nb_buf.len /\ nb_buf.len <= PayloadLen

\* ... and so does the value of WRITE, with the NUL that follows it, if clients
\* keep to the size of the buffer, which the code does not compare with.
ValueInPayload == state = "READING_WRITE_DATA" => nb_buf.len < PayloadLen

\* A cyclic buffer is pushed to the device that was opened as cyclic and has not
\* been closed since, whatever other lines arrive ...
CyclicDevice == Pushed => cmd_data.dev = cyclic_dev

\* ... and pushing does not end because of a command that names no device.
CyclicKept == Pushing => cmd_data.dev # "none"

\* A CLOSE that arrives while a cyclic buffer is pushed is answered, and the
\* connection takes commands again.
CloseStopsCyclic ==
  (Pushing /\ up /\ inp # <<>> /\ ~parsing /\ Head(inp).kind = "line"
     /\ Head(inp).cmd = "CLOSE")
    ~> (state = "READING_LINE" /\ request.cmd = "CLOSE"
          /\ out \in Replies(request))

\* READBUF asks the device for nothing, to which the answer is -EAGAIN however
\* often it asks: its line had no count, or a count of 0, or over the network
\* the payload buffer is full or was sent in part.
Stuck ==
  /\ state = "RW_BUF" /\ cmd_data.cmd = "READBUF"
  /\ setup.network \/ nb_buf.len = 0
  /\ Wanted = 0

\* Every command is answered, or begins a cyclic push, and leaves the
\* connection ready for the next, and only a READBUF that asks for nothing
\* keeps it for ever ...
Answered ==
  (state # "READING_LINE" /\ ~Pushing)
    ~> (state = "READING_LINE" \/ Pushing \/ Stuck)

\* ... which is less than that every command is answered.
EveryAnswered ==
  (state # "READING_LINE" /\ ~Pushing) ~> (state = "READING_LINE" \/ Pushing)

\* iiod_conn_step gives control back to the main loop, unless it pushes a
\* cyclic buffer ...
StepReturns == (stepping /\ ~Pushing) ~> (~stepping \/ Pushing)

\* ... or, as its documentation says, always: "Will not block".
NeverBlocks == stepping ~> ~stepping
=============================================================================
