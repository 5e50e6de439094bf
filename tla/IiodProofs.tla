----------------------------- MODULE IiodProofs -----------------------------
(***************************************************************************)
(* What holds of a connection of the IIO daemon for every size of its      *)
(* payload buffer and of the rings, and for any lines that clients send.   *)
(***************************************************************************)
EXTENDS Iiod, WellFoundedInduction, TLAPS

\* The transport does not refuse a lone newline, and refilling a buffer does not
\* fail.
Replying == \A s \in Setups : ~s.newline_short /\ "refill" \notin s.dev_fails

\* A payload fits the ring, which push_buffer empties, and a transfer of several
\* chunks is not broken off.
Fits ==
  \A s \in Setups : s.push_drains =>
    /\ "push" \notin s.dev_fails
    /\ \A l \in s.lines : l.kind = "line" /\ l.cmd = "WRITEBUF" =>
         /\ l.count <= s.dev_size
         /\ l.count <= PayloadLen \/ ("write" \notin s.dev_fails /\ ~s.disconnects)

-----------------------------------------------------------------------------
(* Inductive invariants *)

\* The cursor of a transfer stays inside it, and a chunk inside the payload buffer
\* and the request.
Cursors ==
  /\ state = "READING_WRITE_DATA" => nb_buf.idx <= nb_buf.len
  /\ state = "RW_BUF" =>
       /\ cmd_data.cmd \in BufferCmds
       /\ nb_buf.len > 0 \/ (cmd_data.cmd = "READBUF" /\ setup.network) =>
            nb_buf.idx <= nb_buf.len
       /\ nb_buf.len <= PayloadLen /\ nb_buf.len <= cmd_data.count
TypeInv == TypeOK /\ Cursors

\* The two halves of TypeOK.
Flags == /\ used \in BOOLEAN /\ stepping \in BOOLEAN /\ up \in BOOLEAN
         /\ parsing \in BOOLEAN /\ is_cyclic_buffer \in BOOLEAN
Values ==
  /\ setup \in Setups
  /\ state \in {"READING_LINE", "RUNNING_CMD", "WRITING_CMD_RESULT", "RW_BUF",
                "READING_WRITE_DATA", "PUSH_CYCLIC_BUFFER"}
  /\ cmd_data \in CmdData
  /\ res \in [write_val : BOOLEAN, val : {"ok", "err"},
              buf : [len : {0, 1}, idx : {0, 1}]]
  /\ nb_buf \in [len : Nat, idx : Nat]
  /\ ret \in {"none", "again", "done", "error", "notconn"}
  /\ inp \in Seq(Units) /\ owed \in Nat /\ nsent \in Nat /\ shorts \in Nat
  /\ data \in 0 .. setup.dev_size /\ room \in 0 .. setup.dev_size
  /\ request \in Units /\ stored \in Nat
  /\ out \in Seq({"ok", "err", "nl", "text", "data"})
  /\ cyclic_dev \in {"none", "a", "b"}

\* conn_clean_state, and what iiod_conn_step has returned.
AtRest ==
  /\ state = "READING_LINE" =>
       cmd_data = NoCmd /\ res = NoResult /\ nb_buf = Buff(0, 0)
  /\ ~used => state = "READING_LINE" /\ ~stepping
  /\ stepping => ret = "none"
  /\ state # "READING_LINE" /\ ~stepping => ret = "again"

Ok == request.kind = "line"

\* The payload of WRITEBUF has been stored and its second result is sent.
Second == Ok /\ request.cmd = "WRITEBUF" /\ cmd_data.cmd = "PRINT"

\* A command that is about to run, or to receive its payload.
Fresh ==
  state \in {"RUNNING_CMD", "READING_WRITE_DATA"} =>
    /\ Ok /\ cmd_data.cmd = request.cmd /\ cmd_data.count = request.count
    /\ out = <<>>
    /\ cmd_data.cmd # "WRITE" => nb_buf.len = 0
    /\ state = "READING_WRITE_DATA" => cmd_data.cmd = "WRITE"
    /\ IF cmd_data.cmd = "CLOSE" THEN res.buf.idx = res.buf.len ELSE res = NoResult

\* The result that iiod_run_cmd prepares for each command.
Plain == res.write_val /\ res.buf.idx = res.buf.len
Failed == res.write_val /\ res.val = "err" /\ res.buf = Buff(0, 0)
Done == res.write_val /\ res.val = "ok" /\ res.buf = Buff(0, 0)
Long == res.write_val /\ res.val = "ok" /\ res.buf.len = 1
HasText == Ok /\ request.cmd \in {"PRINT", "VERSION", "READ", "GETTRIG", "READBUF"}

Result ==
  /\ ~Ok => Failed
  /\ Ok => /\ request.cmd # "EXIT"
           /\ cmd_data.cmd = request.cmd \/ Second
           /\ request.cmd \in SimpleCmds \union {"WRITE"} => Plain
           /\ request.cmd = "PRINT" => Long
           /\ request.cmd = "VERSION" => ~res.write_val /\ res.buf.len = 1
           /\ request.cmd \in {"READ", "GETTRIG"} => Long \/ Failed
           /\ request.cmd = "READBUF" => Long
           /\ request.cmd = "WRITEBUF" => Done
  /\ ~Second => cmd_data.count = IF Ok THEN request.count ELSE 0
  /\ nb_buf.len \in {0, 1}
  /\ nb_buf.len = 1 => nb_buf.idx \in {0, 1}

\* What has been sent of it.
ValueSent == res.write_val /\ nb_buf.len = 1 /\ nb_buf.idx = 1
TextSent == HasText /\ res.buf.idx = 1
Said ==
  /\ TextSent /\ res.write_val => ValueSent
  /\ ~ValueSent /\ ~TextSent => out = IF Second THEN <<"ok", "nl">> ELSE <<>>
  /\ ValueSent /\ ~TextSent =>
       out = IF Second THEN <<"ok", "nl", "ok", "nl">> ELSE <<res.val, "nl">>
  /\ TextSent => out = IF ValueSent THEN <<"ok", "nl", "text", "nl">> ELSE <<"text", "nl">>
Answering == state = "WRITING_CMD_RESULT" => Result /\ Said

\* The reply to READBUF with n bytes of data.
Data(n) == WithText \o [i \in 1 .. n |-> "data"]

\* The data of READBUF that was sent, the bytes still to be transferred.
Transferring ==
  state = "RW_BUF" =>
    /\ ~Ok => cmd_data.count = 0 /\ out = Refused
    /\ Ok => cmd_data.cmd = request.cmd /\ cmd_data.count <= request.count
    /\ Ok /\ request.cmd = "WRITEBUF" => out = Accepted
    /\ Ok /\ request.cmd = "READBUF" =>
         /\ setup.network => cmd_data.count = request.count /\ out = Data(nb_buf.idx)
         /\ ~setup.network =>
              out = Data(request.count - cmd_data.count
                           + (IF nb_buf.len = 0 THEN 0 ELSE nb_buf.idx))

Repeating ==
  state = "PUSH_CYCLIC_BUFFER" => out \in Replies(request) /\ res.buf.idx = res.buf.len

Concluded ==
  state = "READING_LINE" => ReplyWellFormed /\ ReplyComplete

ReplyInv == /\ TypeInv /\ AtRest /\ Fresh /\ Answering /\ Transferring /\ Repeating
            /\ Concluded

\* A unit on the way: a line of the client, a byte of payload, or what is left of
\* an overlong line.
Known(u) == u \in setup.lines \union {[NoUnit EXCEPT !.kind = "byte"],
                                      [NoUnit EXCEPT !.kind = "bad"]}
Sources == \A i \in 1 .. Len(inp) : Known(inp[i])

\* The command that is served is the one that was requested, or the PRINT that stands
\* for the second result of WRITEBUF.
Paired ==
  /\ state \in {"RUNNING_CMD", "READING_WRITE_DATA"} =>
       Ok /\ cmd_data.cmd = request.cmd /\ cmd_data.count = request.count
  /\ state = "READING_WRITE_DATA" => request.cmd = "WRITE"
  /\ state \in {"WRITING_CMD_RESULT", "RW_BUF"} =>
       IF Ok THEN cmd_data.cmd \in {request.cmd, "PRINT"} ELSE cmd_data.count = 0

\* A client that cannot vanish stays, and a slot is freed with -ENOTCONN.
Linked == (~setup.disconnects => up) /\ (~used => ret = "notconn" /\ ~parsing)

WriteRequest == Ok /\ request.cmd = "WRITEBUF"
Moving == state = "RW_BUF" /\ WriteRequest

\* The room in the ring,
Ring ==
  /\ ~Moving => room = setup.dev_size
  /\ Moving => room >= cmd_data.count /\ (stored = 0 => room = setup.dev_size)

\* what was stored in it,
Tally ==
  /\ WriteRequest => request \in setup.lines
  /\ Moving =>
       /\ stored + cmd_data.count = request.count
       /\ stored > 0 => cmd_data.count > 0 /\ request.count > PayloadLen
       /\ nb_buf.len = 0 \/ nb_buf.len = MinOf(PayloadLen, cmd_data.count)
  /\ WriteRequest /\ state = "RUNNING_CMD" => stored = 0
  /\ WriteRequest /\ state = "WRITING_CMD_RESULT" =>
       IF cmd_data.cmd = "PRINT" THEN stored = request.count
       ELSE stored = 0 /\ cmd_data.count = request.count

\* and what the client was told about it.
Told ==
  /\ WriteRequest /\ Len(out) > 2 => stored = request.count
  /\ WriteRequest /\ state = "RUNNING_CMD" =>
       out = <<>> /\ nb_buf.len = 0 /\ res.buf = Buff(0, 0)
  /\ WriteRequest /\ state = "WRITING_CMD_RESULT" /\ cmd_data.cmd = "WRITEBUF" =>
       ~TextPending /\ nb_buf.len <= 1 /\ Len(out) <= IF ValueDone THEN 2 ELSE 0
  /\ Moving => Len(out) <= 2

Kept == setup.push_drains => Ring /\ Tally /\ Told

\* The payload that follows a line, and the bytes of payload that iiod_run_state has
\* still to receive for the command it serves.
Payload(u) == IF u.kind = "line" /\ u.cmd \in {"WRITE", "WRITEBUF"} THEN u.count ELSE 0
Expected ==
  IF state = "READING_WRITE_DATA" THEN nb_buf.len - nb_buf.idx
  ELSE IF Moving THEN cmd_data.count - (IF nb_buf.len = 0 THEN 0 ELSE nb_buf.idx)
  ELSE IF WriteRequest /\ (\/ state = "RUNNING_CMD"
                           \/ state = "WRITING_CMD_RESULT" /\ cmd_data.cmd = "WRITEBUF")
  THEN request.count ELSE 0

\* In what the client sent, exactly the next e units and the payload of each line are
\* bytes; what is missing at the end is owed.
Covered(e, j) == j <= e \/ \E i \in 1 .. Len(inp) : i < j /\ j <= i + Payload(inp[i])
Aligned(e) ==
  /\ \A j \in 1 .. Len(inp) : inp[j].kind = "byte" <=> Covered(e, j)
  /\ e <= Len(inp) + owed
  /\ \A i \in 1 .. Len(inp) : i + Payload(inp[i]) <= Len(inp) + owed
  /\ owed > 0 => Covered(e, Len(inp) + owed)

\* The daemon and the client agree on it; while a cyclic buffer is pushed, the payload
\* of commands that are ignored is skipped.
Stream ==
  used /\ setup.dev_fails = {} /\ setup.push_drains =>
    IF state = "PUSH_CYCLIC_BUFFER" /\ cmd_data.dev # "none"
    THEN \E e \in Nat : Aligned(e)
    ELSE Aligned(Expected) /\ ~parsing

-----------------------------------------------------------------------------
(* Lemmas *)

LEMMA MinFacts ==
  ASSUME NEW a \in Nat, NEW b \in Nat
  PROVE  MinOf(a, b) \in Nat /\ MinOf(a, b) <= a /\ MinOf(a, b) <= b
         /\ (MinOf(a, b) = a \/ MinOf(a, b) = b)
  BY DEF MinOf

\* A non-empty set of numbers has a least element.
LEMMA Least ==
  ASSUME NEW S \in SUBSET Nat, S # {}
  PROVE  \E m \in S : \A y \in S : m <= y
<1> DEFINE Less == {ss \in Nat \X Nat : ss[1] < ss[2]}
<1>1. IsWellFoundedOn(Less, Nat)
  BY NatLessThanWellFounded, Zenon DEF OpToRel
<1>2. \A x, y \in Nat : x < y => <<x, y>> \in Less
  OBVIOUS
<1> HIDE DEF Less
<1>3. PICK m \in S : \A y \in S : ~(<<y, m>> \in Less)
  BY <1>1, WFMin
<1>4. ASSUME NEW y \in S PROVE m <= y
  <2>1. m \in Nat /\ y \in Nat
    OBVIOUS
  <2>2. ~(y < m)
    BY <1>2, <1>3, <2>1
  <2> QED
    BY <2>1, <2>2
<1> QED
  BY <1>4

\* The bytes before the first line.
LEMMA ArrivedFacts ==
  ASSUME inp \in Seq(Units)
  PROVE  /\ Arrived \in 0 .. Len(inp)
         /\ \A j \in 1 .. Arrived : inp[j].kind = "byte"
         /\ Arrived < Len(inp) => inp[Arrived + 1].kind # "byte"
<1> DEFINE n == Len(inp)
           S == {i \in 1 .. n : inp[i].kind # "byte"}
<1>0. n \in Nat
  OBVIOUS
<1>1. CASE S = {}
  <2>1. Arrived = n
    BY <1>1 DEF Arrived
  <2> QED
    BY <1>0, <1>1, <2>1
<1>2. CASE S # {}
  <2>0. S \in SUBSET Nat
    BY <1>0
  <2>1. PICK m \in S : \A y \in S : m <= y
    BY <1>2, <2>0, Least
  <2>2. m \in 1 .. n /\ inp[m].kind # "byte"
    OBVIOUS
  <2>3. \A j \in 1 .. m - 1 : inp[j].kind = "byte"
    BY <1>0, <2>1, <2>2
  <2>4. PICK k : /\ Arrived = k - 1 /\ k \in 1 .. n /\ inp[k].kind # "byte"
                 /\ \A j \in 1 .. k - 1 : inp[j].kind = "byte"
    BY <2>2, <2>3, Zenon DEF Arrived
  <2> QED
    BY <1>0, <2>4
<1> QED
  BY <1>1, <1>2

LEMMA SubSeqFacts ==
  ASSUME NEW S, NEW s \in Seq(S), NEW n \in 0 .. Len(s)
  PROVE  /\ SubSeq(s, n + 1, Len(s)) \in Seq(S)
         /\ Len(SubSeq(s, n + 1, Len(s))) = Len(s) - n
         /\ \A i \in 1 .. Len(s) - n : SubSeq(s, n + 1, Len(s))[i] = s[i + n]
  OBVIOUS

\* What Take(n) leaves.
LEMMA TakeFacts ==
  ASSUME inp \in Seq(Units), NEW n \in 0 .. Len(inp), Take(n)
  PROVE  /\ inp' \in Seq(Units) /\ Len(inp') = Len(inp) - n
         /\ \A i \in 1 .. Len(inp) - n : inp'[i] = inp[i + n]
         /\ UNCHANGED <<up, owed, nsent>>
  BY SubSeqFacts DEF Take

\* What a receive of the rest of nb_buf takes.
Received == MinOf(Arrived, Unsent(nb_buf))

LEMMA RecvFacts ==
  ASSUME inp \in Seq(Units), nb_buf \in [len : Nat, idx : Nat], nb_buf.idx <= nb_buf.len
  PROVE  /\ Received \in 0 .. Len(inp) /\ Received <= Unsent(nb_buf) /\ Received <= Arrived
         /\ Received = Arrived \/ Received = Unsent(nb_buf)
         /\ Unsent(nb_buf) \in Nat /\ Unsent(nb_buf) = nb_buf.len - nb_buf.idx
<1>1. Unsent(nb_buf) \in Nat /\ Unsent(nb_buf) = nb_buf.len - nb_buf.idx
  BY DEF Unsent
<1>2. Arrived \in 0 .. Len(inp) /\ Len(inp) \in Nat
  BY ArrivedFacts
<1> QED
  BY <1>1, <1>2 DEF Received, MinOf

LEMMA SetupFacts ==
  ASSUME setup \in Setups
  PROVE  /\ setup.dev_size \in Nat \ {0} /\ setup.lines \subseteq Units
         /\ \A l \in setup.lines : l.kind # "byte"
         /\ setup.network \in BOOLEAN /\ setup.newline_short \in BOOLEAN
         /\ setup.push_drains \in BOOLEAN /\ setup.disconnects \in BOOLEAN
         /\ setup.max_cmds \in Nat /\ setup.max_short \in Nat
         /\ PayloadLen \in Nat \ {0} /\ MaxInp \in Nat
<1>1. setup \in Setup
  BY IiodAssumption
<1> QED
  BY <1>1, IiodAssumption DEF Setup

LEMMA NoUnitTypes ==
  /\ NoUnit \in Units /\ [NoUnit EXCEPT !.kind = "byte"] \in Units
  /\ [NoUnit EXCEPT !.kind = "bad"] \in Units
  BY DEF NoUnit, Units, Cmds, SimpleCmds

LEMMA NoCmdTypes ==
  /\ NoCmd \in CmdData /\ Buff(0, 0) \in [len : Nat, idx : Nat]
  /\ NoResult \in [write_val : BOOLEAN, val : {"ok", "err"},
                   buf : [len : {0, 1}, idx : {0, 1}]]
  BY DEF NoCmd, CmdData, Cmds, SimpleCmds, Buff, NoResult

LEMMA TypeHalves ==
  /\ TypeOK <=> Flags /\ Values
  /\ TypeOK' <=> Flags' /\ Values'
  BY DEF TypeOK, Flags, Values

Words == {"ok", "err", "nl", "text", "data"}

\* What a send may append, and how far it moves its cursor.
LEMMA SentFacts ==
  ASSUME NEW b \in [len : Nat, idx : Nat], NEW endl \in {0, 1}, b.idx <= b.len,
         NEW o \in WrOutcomes(b, endl), NEW what \in Words, Sent(b, endl, o, what),
         out \in Seq(Words), shorts \in Nat
  PROVE  /\ o.n \in Nat /\ b.idx + o.n <= b.len /\ o.nl \in {0, 1}
         /\ Complete(b, endl, o) => b.idx + o.n = b.len
         /\ out' \in Seq(Words) /\ shorts' \in Nat
         /\ UNCHANGED <<setup, request, stored, cyclic_dev>>
<1>1. /\ o.n \in 0 .. Unsent(b) /\ o.nl \in 0 .. endl
      /\ Unsent(b) \in Nat /\ Unsent(b) = b.len - b.idx
  BY DEF WrOutcomes, Unsent
<1>2. [i \in 1 .. o.n |-> what] \in Seq(Words) /\ [i \in 1 .. o.nl |-> "nl"] \in Seq(Words)
  BY <1>1 DEF Words
<1>3. out' \in Seq(Words)
  BY <1>2 DEF Sent
<1>4. shorts' \in Nat
  BY DEF Sent
<1>5. o.n \in Nat /\ b.idx + o.n <= b.len /\ o.nl \in {0, 1}
  BY <1>1
<1>6. Complete(b, endl, o) => b.idx + o.n = b.len
  BY <1>1 DEF Complete
<1> QED
  BY <1>3, <1>4, <1>5, <1>6 DEF Sent

LEMMA TypeInit == Init => TypeInv
<1> SUFFICES ASSUME Init PROVE TypeInv
  OBVIOUS
<1>1. Flags
  BY DEF Init, Flags
<1>2. Values
  BY NoUnitTypes, NoCmdTypes, SetupFacts DEF Init, Values
<1>3. Cursors
  BY DEF Init, Cursors
<1> QED
  BY <1>1, <1>2, <1>3, TypeHalves DEF TypeInv

LEMMA EnvTypes ==
  ASSUME TypeInv, Client \/ Device \/ ConnStep \/ ConnAdd PROVE TypeInv'
<1>0. Flags /\ Values /\ Cursors
  BY TypeHalves DEF TypeInv
<1> SUFFICES Flags' /\ Values' /\ Cursors'
  BY TypeHalves DEF TypeInv
<1> USE DEF conn, call, client, device, history, env
<1>1. CASE ClientSend
  <2>1. PICK line \in setup.lines :
          /\ inp' = Append(inp, line)
          /\ owed' = IF line.kind = "line" /\ line.cmd \in {"WRITE", "WRITEBUF"}
                     THEN line.count ELSE 0
    BY <1>1 DEF ClientSend
  <2>2. line \in Units
    BY <1>0, SetupFacts DEF Values
  <2>3. inp' \in Seq(Units) /\ owed' \in Nat
    BY <1>0, <2>1, <2>2 DEF Units, Values
  <2> QED
    BY <1>0, <1>1, <2>3 DEF ClientSend, Flags, Values, Cursors
<1>2. CASE ClientByte
  <2>1. inp' \in Seq(Units) /\ owed' \in Nat
    BY <1>0, <1>2, NoUnitTypes DEF ClientByte, Values
  <2> QED
    BY <1>0, <1>2, <2>1 DEF ClientByte, Flags, Values, Cursors
<1>3. CASE ClientGone
  <2>1. Flags'
    BY <1>0, <1>3 DEF ClientGone, Flags
  <2> QED
    BY <1>0, <1>3, <2>1 DEF ClientGone, Values, Cursors
<1>4. CASE DeviceFills
  BY <1>0, <1>4, SetupFacts DEF DeviceFills, Flags, Values, Cursors
<1>5. CASE DeviceDrains
  BY <1>0, <1>5, SetupFacts DEF DeviceDrains, Flags, Values, Cursors
<1>6. CASE ConnStep
  <2>1. Flags'
    BY <1>0, <1>6 DEF ConnStep, Flags
  <2> QED
    BY <1>0, <1>6, <2>1 DEF ConnStep, Values, Cursors
<1>7. CASE ConnAdd
  <2>1. Flags'
    BY <1>0, <1>7 DEF ConnAdd, Flags
  <2>2. inp' \in Seq(Units)
    BY <1>7 DEF ConnAdd
  <2> QED
    BY <1>0, <1>7, <2>1, <2>2 DEF ConnAdd, Values, Cursors
<1> QED
  BY <1>1, <1>2, <1>3, <1>4, <1>5, <1>6, <1>7 DEF Client, Device

\* conn_clean_state keeps the types, whatever happens to the environment.
LEMMA CleanTypes ==
  ASSUME NEW result \in {"done", "error", "notconn"}, Clean(result), TypeInv
  PROVE  /\ state' = "READING_LINE" /\ stepping' = FALSE /\ ret' = result
         /\ cmd_data' \in CmdData /\ nb_buf' \in [len : Nat, idx : Nat]
         /\ res' \in [write_val : BOOLEAN, val : {"ok", "err"},
                      buf : [len : {0, 1}, idx : {0, 1}]]
         /\ parsing' \in BOOLEAN /\ is_cyclic_buffer' \in BOOLEAN
<1>1. parsing' \in BOOLEAN /\ is_cyclic_buffer' \in BOOLEAN
  BY DEF Clean, TypeInv, TypeOK
<1> QED
  BY <1>1, NoCmdTypes DEF Clean

LEMMA GoneTypes ==
  ASSUME TypeInv, Gone PROVE TypeInv'
<1>1. Flags'
  BY CleanTypes, TypeHalves DEF Gone, TypeInv, Flags, client
<1>2. Values' /\ Cursors'
  BY CleanTypes, TypeHalves DEF Gone, TypeInv, Values, Cursors, client, device, history, env
<1> QED
  BY <1>1, <1>2, TypeHalves DEF TypeInv

LEMMA ParsedType ==
  ASSUME TypeInv, NEW unit \in Units PROVE Parsed(unit) \in CmdData
  BY DEF TypeInv, TypeOK, Parsed, CmdData, Units

LEMMA ValueTypes ==
  ASSUME TypeInv, NEW val \in {"ok", "err"}
  PROVE  /\ Value(val) \in [write_val : BOOLEAN, val : {"ok", "err"},
                            buf : [len : {0, 1}, idx : {0, 1}]]
         /\ Value(val).write_val = TRUE /\ Value(val).val = val
         /\ Value(val).buf = res.buf
  BY DEF TypeInv, TypeOK, Value

LEMMA TextTypes ==
  ASSUME NEW r \in [write_val : BOOLEAN, val : {"ok", "err"},
                    buf : [len : {0, 1}, idx : {0, 1}]]
  PROVE  /\ Text(r) \in [write_val : BOOLEAN, val : {"ok", "err"},
                         buf : [len : {0, 1}, idx : {0, 1}]]
         /\ Text(r).write_val = r.write_val /\ Text(r).val = r.val
         /\ Text(r).buf.len = 1 /\ Text(r).buf.idx = r.buf.idx
  BY DEF Text, Buff

LEMMA InpHead ==
  ASSUME inp \in Seq(Units), inp # <<>>
  PROVE  Head(inp) \in Units /\ Len(inp) \in Nat /\ 1 \in 0 .. Len(inp) /\ Head(inp) = inp[1]
  OBVIOUS

LEMMA ReadingTypes ==
  ASSUME TypeInv, Reading PROVE TypeInv'
<1>0. Flags /\ Values /\ Cursors
  BY TypeHalves DEF TypeInv
<1> SUFFICES Flags' /\ Values' /\ Cursors'
  BY TypeHalves DEF TypeInv
<1> USE DEF conn, call, client, device, history, env
<1>1. CASE ReadLineAgain
  <2>1. Flags'
    BY <1>0, <1>1 DEF ReadLineAgain, Again, Flags
  <2> QED
    BY <1>0, <1>1, <2>1 DEF ReadLineAgain, Again, Values, Cursors
<1>2. CASE ReadLineByte
  <2>1. inp' \in Seq(Units) /\ UNCHANGED <<up, owed, nsent>>
    BY <1>0, <1>2, InpHead, TakeFacts DEF ReadLineByte, Values
  <2>2. parsing' \in BOOLEAN
    BY <1>0, <1>2 DEF ReadLineByte, Flags
  <2>3. Flags'
    BY <1>0, <1>2, <2>1, <2>2 DEF ReadLineByte, Flags
  <2> QED
    BY <1>0, <1>2, <2>1, <2>3 DEF ReadLineByte, Values, Cursors
<1>3. CASE ReadLineTooLong
  <2>1. inp' \in Seq(Units)
    BY <1>0, <1>3, NoUnitTypes DEF ReadLineTooLong, Values
  <2>2. Clean("error")
    BY <1>3 DEF ReadLineTooLong
  <2>3. Flags'
    BY <1>0, <1>3, <2>2, CleanTypes DEF ReadLineTooLong, Flags
  <2> QED
    BY <1>0, <1>3, <2>1, <2>2, <2>3, CleanTypes DEF ReadLineTooLong, Values, Cursors
<1>4. CASE ReadLine
  <2> DEFINE unit == Head(inp)
             ok == unit.kind = "line" /\ ~parsing
  <2>1. unit \in Units /\ inp' \in Seq(Units) /\ UNCHANGED <<up, owed, nsent>>
    BY <1>0, <1>4, InpHead, TakeFacts DEF ReadLine, Values
  <2>2. cmd_data' \in CmdData
    BY <1>4, <2>1, ParsedType DEF ReadLine
  <2>3. res' \in [write_val : BOOLEAN, val : {"ok", "err"},
                  buf : [len : {0, 1}, idx : {0, 1}]]
    BY <1>0, <1>4, ValueTypes DEF ReadLine, Values
  <2>4. /\ nb_buf' = IF ok /\ unit.cmd = "WRITE" THEN Buff(unit.count, 0) ELSE nb_buf
        /\ state' = AfterParse(ok, unit.cmd) /\ UNCHANGED <<stepping, ret>>
        /\ request' = IF ok THEN unit ELSE [unit EXCEPT !.kind = "bad"]
    BY <1>4 DEF ReadLine, Go
  <2>5. nb_buf' \in [len : Nat, idx : Nat] /\ request' \in Units
    BY <1>0, <2>1, <2>4 DEF Values, Units, Buff
  <2>6. state' \in {"WRITING_CMD_RESULT", "READING_WRITE_DATA", "RUNNING_CMD"}
        /\ (state' = "READING_WRITE_DATA" => nb_buf'.idx <= nb_buf'.len)
    BY <2>1, <2>4 DEF AfterParse, Buff, Units
  <2>7. Flags'
    BY <1>0, <1>4, <2>1, <2>4 DEF ReadLine, Flags
  <2>8. out' \in Seq({"ok", "err", "nl", "text", "data"}) /\ stored' \in Nat
    BY <1>4 DEF ReadLine
  <2>9. UNCHANGED <<setup, shorts, data, room, cyclic_dev>>
    BY <1>4 DEF ReadLine
  <2> QED
    BY <1>0, <2>1, <2>2, <2>3, <2>4, <2>5, <2>6, <2>7, <2>8, <2>9 DEF Values, Cursors
<1>5. CASE ReadWriteData
  <2> DEFINE n == Received
  <2>1. n \in 0 .. Len(inp) /\ n <= Unsent(nb_buf)
    BY <1>0, <1>5, RecvFacts DEF ReadWriteData, Values, Cursors, Received
  <2>2. inp' \in Seq(Units) /\ UNCHANGED <<up, owed, nsent>>
    BY <1>0, <1>5, <2>1, TakeFacts DEF ReadWriteData, Values, Received
  <2>3. /\ nb_buf' = Buff(nb_buf.len, nb_buf.idx + n)
        /\ IF n = Unsent(nb_buf) THEN Go("RUNNING_CMD") ELSE Again
    BY <1>5 DEF ReadWriteData, Received
  <2> HIDE DEF n
  <2>4. nb_buf' \in [len : Nat, idx : Nat] /\ nb_buf'.idx <= nb_buf'.len
    BY <1>0, <2>1, <2>3 DEF Values, Buff, Unsent
  <2>5. /\ state' \in {"RUNNING_CMD", "READING_WRITE_DATA"}
        /\ ret' \in {"none", "again", "done", "error", "notconn"}
    BY <1>0, <1>5, <2>3 DEF ReadWriteData, Go, Again, Values
  <2>6. stepping' \in BOOLEAN
    BY <1>0, <2>3 DEF Go, Again, Flags
  <2>7. Flags'
    BY <1>0, <1>5, <2>2, <2>6 DEF ReadWriteData, Flags
  <2> QED
    BY <1>0, <1>5, <2>2, <2>4, <2>5, <2>7 DEF ReadWriteData, Values, Cursors
<1> QED
  BY <1>1, <1>2, <1>3, <1>4, <1>5 DEF Reading

LEMMA RunningTypes ==
  ASSUME TypeInv, Running PROVE TypeInv'
<1>0. Flags /\ Values /\ Cursors
  BY TypeHalves DEF TypeInv
<1> SUFFICES Flags' /\ Values' /\ Cursors'
  BY TypeHalves DEF TypeInv
<1> USE DEF conn, call, client, device, history, env
<1>1. CASE RunSimple
  <2>1. res' \in [write_val : BOOLEAN, val : {"ok", "err"},
                  buf : [len : {0, 1}, idx : {0, 1}]]
    BY <1>1, ValueTypes DEF RunSimple
  <2>2. data' \in 0 .. setup.dev_size /\ room' \in 0 .. setup.dev_size
    BY <1>0, <1>1, SetupFacts DEF RunSimple, Values
  <2>3. cyclic_dev' \in {"none", "a", "b"}
    BY <1>0, <1>1 DEF RunSimple, Values, CmdData
  <2>4. is_cyclic_buffer' \in BOOLEAN
    <3>1. cmd_data.cyclic \in BOOLEAN
      BY <1>0 DEF Values, CmdData
    <3> QED
      BY <1>0, <1>1, <3>1 DEF RunSimple, CyclicAfter, Flags
  <2>5. Flags'
    BY <1>0, <1>1, <2>4 DEF RunSimple, Flags, Go
  <2> QED
    BY <1>0, <1>1, <2>1, <2>2, <2>3, <2>5 DEF RunSimple, Go, Values, Cursors
<1>2. CASE RunExit
  BY <1>2, GoneTypes, TypeHalves DEF RunExit, TypeInv
<1>3. CASE RunText
  <2>1. res' \in [write_val : BOOLEAN, val : {"ok", "err"},
                  buf : [len : {0, 1}, idx : {0, 1}]]
    <3>1. res' \in {Text(res), Text(Value("ok")), Value("err")}
      BY <1>3 DEF RunText
    <3> QED
      BY <1>0, <3>1, ValueTypes, TextTypes DEF Values
  <2> QED
    BY <1>0, <1>3, <2>1 DEF RunText, Go, Flags, Values, Cursors
<1>4. CASE RunWrite
  <2>1. res' \in {Value("ok"), Value("err")}
        /\ (nb_buf' = Buff(0, nb_buf.idx) \/ UNCHANGED nb_buf)
    BY <1>4 DEF RunWrite
  <2>2. /\ res' \in [write_val : BOOLEAN, val : {"ok", "err"},
                     buf : [len : {0, 1}, idx : {0, 1}]]
        /\ nb_buf' \in [len : Nat, idx : Nat]
    BY <1>0, <2>1, ValueTypes DEF Values, Buff
  <2> QED
    BY <1>0, <1>4, <2>2 DEF RunWrite, Go, Flags, Values, Cursors
<1> QED
  BY <1>1, <1>2, <1>3, <1>4 DEF Running

LEMMA WritingTypes ==
  ASSUME TypeInv, Writing PROVE TypeInv'
<1>0. Flags /\ Values /\ Cursors
  BY TypeHalves DEF TypeInv
<1> SUFFICES Flags' /\ Values' /\ Cursors'
  BY TypeHalves DEF TypeInv
<1> USE DEF conn, call, client, device, history, env
<1>1. CASE FormatResult
  <2>1. nb_buf' \in [len : Nat, idx : Nat]
    BY <1>1 DEF FormatResult, Buff
  <2> QED
    BY <1>0, <1>1, <2>1 DEF FormatResult, Flags, Values, Cursors
<1>2. CASE SendValue
  <2>1. PICK o \in WrOutcomes(nb_buf, 1) :
          /\ Sent(nb_buf, 1, o, res.val)
          /\ nb_buf' = Buff(nb_buf.len, nb_buf.idx + o.n)
          /\ IF Complete(nb_buf, 1, o) THEN Go(state) ELSE Again
    BY <1>2 DEF SendValue
  <2>2. nb_buf.idx <= nb_buf.len /\ res.val \in Words
    BY <1>0, <1>2 DEF SendValue, ValuePending, Values, Words
  <2>3. /\ o.n \in Nat /\ out' \in Seq(Words) /\ shorts' \in Nat
        /\ UNCHANGED <<setup, request, stored, cyclic_dev>>
    BY <1>0, <2>1, <2>2, SentFacts DEF Values, Words
  <2>4. nb_buf' \in [len : Nat, idx : Nat]
    BY <1>0, <2>1, <2>3 DEF Values, Buff
  <2>5. state' = "WRITING_CMD_RESULT" /\ ret' \in {"none", "again", "done", "error", "notconn"}
    BY <1>0, <1>2, <2>1 DEF SendValue, Go, Again, Values
  <2>6. stepping' \in BOOLEAN
    BY <1>0, <2>1 DEF Go, Again, Flags
  <2>7. Flags'
    BY <1>0, <1>2, <2>6 DEF SendValue, Flags
  <2> QED
    BY <1>0, <1>2, <2>3, <2>4, <2>5, <2>7 DEF SendValue, Values, Cursors, Words
<1>3. CASE SendText
  <2>1. PICK o \in WrOutcomes(res.buf, 1) :
          /\ Sent(res.buf, 1, o, "text")
          /\ res' = [res EXCEPT !.buf = Buff(@.len, @.idx + o.n)]
          /\ IF Complete(res.buf, 1, o) THEN Go(state) ELSE Again
    BY <1>3 DEF SendText
  <2>2. res.buf \in [len : Nat, idx : Nat] /\ res.buf.idx <= res.buf.len /\ "text" \in Words
    BY <1>0, <1>3 DEF SendText, TextPending, Values, Words
  <2>3. /\ o.n \in Nat /\ res.buf.idx + o.n <= res.buf.len
        /\ out' \in Seq(Words) /\ shorts' \in Nat
        /\ UNCHANGED <<setup, request, stored, cyclic_dev>>
    BY <1>0, <2>1, <2>2, SentFacts DEF Values, Words
  <2>4. res' \in [write_val : BOOLEAN, val : {"ok", "err"},
                  buf : [len : {0, 1}, idx : {0, 1}]]
    <3>1. PICK b : b = res.buf
      OBVIOUS
    <3>2. b.len \in {0, 1} /\ b.idx + o.n \in {0, 1}
      BY <1>0, <2>3, <3>1 DEF Values
    <3>3. Buff(b.len, b.idx + o.n) \in [len : {0, 1}, idx : {0, 1}]
      BY <3>2 DEF Buff
    <3>4. res' = [res EXCEPT !.buf = Buff(b.len, b.idx + o.n)]
      BY <2>1, <3>1
    <3> QED
      BY <1>0, <3>3, <3>4 DEF Values
  <2>5. state' = "WRITING_CMD_RESULT" /\ ret' \in {"none", "again", "done", "error", "notconn"}
    BY <1>0, <1>3, <2>1 DEF SendText, Go, Again, Values
  <2>6. stepping' \in BOOLEAN
    BY <1>0, <2>1 DEF Go, Again, Flags
  <2>7. Flags'
    BY <1>0, <1>3, <2>6 DEF SendText, Flags
  <2> QED
    BY <1>0, <1>3, <2>3, <2>4, <2>5, <2>7 DEF SendText, Values, Cursors, Words
<1>4. CASE ResultSent
  <2>1. CASE cmd_data.cmd \in BufferCmds
    <3>1. /\ nb_buf' = Buff(0, 0) /\ Go("RW_BUF")
          /\ UNCHANGED <<cmd_data, res, is_cyclic_buffer, parsing>>
      BY <1>4, <2>1 DEF ResultSent
    <3>2. Flags'
      BY <1>0, <1>4, <3>1 DEF ResultSent, Flags, Go
    <3>3. Cursors'
      <4>1. cmd_data.count \in Nat
        BY <1>0 DEF Values, CmdData
      <4> QED
        BY <2>1, <3>1, <4>1, IiodAssumption DEF Cursors, Go, Buff
    <3> QED
      BY <1>0, <1>4, <3>1, <3>2, <3>3, NoCmdTypes DEF ResultSent, Values, Go
  <2>2. CASE cmd_data.cmd \notin BufferCmds
    <3>1. \/ Go("PUSH_CYCLIC_BUFFER") /\ UNCHANGED <<cmd_data, res, nb_buf, is_cyclic_buffer, parsing>>
          \/ Clean("done")
      BY <1>4, <2>2 DEF ResultSent
    <3>2. UNCHANGED <<used, client, env, device, history>>
      BY <1>4 DEF ResultSent
    <3>3. CASE Go("PUSH_CYCLIC_BUFFER") /\ UNCHANGED <<cmd_data, res, nb_buf, is_cyclic_buffer, parsing>>
      BY <1>0, <3>2, <3>3 DEF Flags, Values, Cursors, Go
    <3>4. CASE Clean("done")
      <4>1. Flags'
        BY <1>0, <3>2, <3>4, CleanTypes DEF Flags
      <4> QED
        BY <1>0, <3>2, <3>4, <4>1, CleanTypes DEF Values, Cursors
    <3> QED
      BY <3>1, <3>3, <3>4
  <2> QED
    BY <2>1, <2>2
<1> QED
  BY <1>1, <1>2, <1>3, <1>4 DEF Writing

LEMMA CyclicTypes ==
  ASSUME TypeInv, Cyclic PROVE TypeInv'
<1>0. Flags /\ Values /\ Cursors
  BY TypeHalves DEF TypeInv
<1> SUFFICES Flags' /\ Values' /\ Cursors'
  BY TypeHalves DEF TypeInv
<1> USE DEF conn, call, client, device, history, env
<1>1. CASE PushFails
  <2>1. Flags'
    BY <1>0, <1>1 DEF PushFails, Flags
  <2> QED
    BY <1>0, <1>1, <2>1, NoCmdTypes DEF PushFails, Values, Cursors
<1>2. CASE PushAnother
  BY <1>0, <1>2 DEF PushAnother, vars, Flags, Values, Cursors
<1>3. CASE PushByte
  <2>1. inp' \in Seq(Units) /\ UNCHANGED <<up, owed, nsent>>
    BY <1>0, <1>3, InpHead, TakeFacts DEF PushByte, Values
  <2>2. parsing' \in BOOLEAN
    BY <1>0, <1>3 DEF PushByte, Flags
  <2>3. Flags'
    BY <1>0, <1>3, <2>1, <2>2 DEF PushByte, Flags
  <2> QED
    BY <1>0, <1>3, <2>1, <2>3 DEF PushByte, Values, Cursors
<1>4. CASE PushLine
  <2> DEFINE unit == Head(inp)
  <2>1. unit \in Units /\ inp' \in Seq(Units) /\ UNCHANGED <<up, owed, nsent>>
    BY <1>0, <1>4, InpHead, TakeFacts DEF PushLine, Values
  <2>2. cmd_data' \in CmdData
    BY <1>4, <2>1, ParsedType DEF PushLine
  <2>3. /\ nb_buf' \in [len : Nat, idx : Nat] /\ request' \in Units
        /\ out' \in Seq({"ok", "err", "nl", "text", "data"})
        /\ state' \in {"RUNNING_CMD", "PUSH_CYCLIC_BUFFER"} /\ UNCHANGED <<stepping, ret>>
    <3>1. CASE IsClose(unit)
      BY <1>0, <1>4, <2>1, <3>1 DEF PushLine, Go, Buff, Values
    <3>2. CASE ~IsClose(unit)
      BY <1>0, <1>4, <3>2 DEF PushLine, Pushed, Pushing, Values
    <3> QED
      BY <3>1, <3>2
  <2>4. is_cyclic_buffer' \in BOOLEAN
    BY <1>0, <1>4 DEF PushLine, Flags
  <2>5. Flags'
    BY <1>0, <1>4, <2>1, <2>3, <2>4 DEF PushLine, Flags
  <2> QED
    BY <1>0, <1>4, <2>1, <2>2, <2>3, <2>5 DEF PushLine, Values, Cursors
<1> QED
  BY <1>1, <1>2, <1>3, <1>4 DEF Cyclic

\* do_read_buff and do_read_buff_delayed stay inside the payload buffer.
LEMMA WantedFacts ==
  ASSUME TypeInv, Fetching
  PROVE  /\ Wanted \in Nat
         /\ Readable(Wanted) \in Nat /\ Readable(Wanted) <= data /\ Readable(Wanted) <= Wanted
         /\ setup.network => /\ nb_buf.len + Wanted <= PayloadLen
                             /\ nb_buf.len + Wanted <= cmd_data.count
         /\ ~setup.network => Wanted <= PayloadLen /\ Wanted <= cmd_data.count /\ nb_buf.len = 0
<1>1. /\ cmd_data.count \in Nat /\ nb_buf.len \in Nat /\ PayloadLen \in Nat /\ data \in Nat
      /\ nb_buf.len <= PayloadLen /\ nb_buf.len <= cmd_data.count
  BY SetupFacts DEF TypeInv, TypeOK, Cursors, CmdData, Fetching, ReadBuf
<1>2. ~setup.network => nb_buf.len = 0
  BY DEF Fetching
<1>3. PICK w : w = Wanted
  OBVIOUS
<1>4. /\ w \in Nat
      /\ setup.network => nb_buf.len + w <= PayloadLen /\ nb_buf.len + w <= cmd_data.count
      /\ ~setup.network => w <= PayloadLen /\ w <= cmd_data.count
  BY <1>1, <1>3 DEF Wanted, MinOf
<1>5. Readable(w) \in Nat /\ Readable(w) <= data /\ Readable(w) <= w
  BY <1>1, <1>4, MinFacts DEF Readable
<1> QED
  BY <1>2, <1>3, <1>4, <1>5

LEMMA ReadBufTypes ==
  ASSUME TypeInv,
         ReadBufAgain \/ ReadBufFails \/ ReadBufFetch \/ ReadBufSend \/ ReadBufDelayed
  PROVE  TypeInv'
<1>0. Flags /\ Values /\ Cursors
  BY TypeHalves DEF TypeInv
<1> SUFFICES Flags' /\ Values' /\ Cursors'
  BY TypeHalves DEF TypeInv
<1> USE DEF conn, call, client, device, history, env
<1>c. cmd_data.count \in Nat /\ PayloadLen \in Nat
  BY <1>0, SetupFacts DEF Values, CmdData
<1>1. CASE ReadBufAgain
  <2>1. Flags'
    BY <1>0, <1>1 DEF ReadBufAgain, Again, Flags
  <2> QED
    BY <1>0, <1>1, <2>1 DEF ReadBufAgain, Again, Values, Cursors
<1>2. CASE ReadBufFails
  <2>1. Clean("error") /\ UNCHANGED <<used, client, env, device, history>>
    BY <1>2 DEF ReadBufFails
  <2>2. Flags'
    BY <1>0, <2>1, CleanTypes DEF Flags
  <2> QED
    BY <1>0, <2>1, <2>2, CleanTypes DEF Values, Cursors
<1>3. CASE ReadBufFetch
  <2>1. PICK n : n = Readable(Wanted)
    OBVIOUS
  <2>2. /\ n \in Nat /\ n > 0 /\ n <= data /\ n <= PayloadLen /\ n <= cmd_data.count
        /\ nb_buf' = Buff(n, 0) /\ data' = data - n
    <3>1. Fetching /\ ~setup.network /\ Wanted \in Nat
      BY <1>3, WantedFacts DEF ReadBufFetch
    <3>2. n \in Nat /\ n <= data /\ n <= Wanted /\ Wanted <= PayloadLen /\ Wanted <= cmd_data.count
      BY <2>1, <3>1, WantedFacts
    <3> QED
      BY <1>3, <1>c, <2>1, <3>1, <3>2 DEF ReadBufFetch
  <2>3. nb_buf' \in [len : Nat, idx : Nat] /\ nb_buf'.len = n /\ nb_buf'.idx = 0
    BY <2>2 DEF Buff
  <2>4. data' \in 0 .. setup.dev_size
    BY <1>0, <2>2, SetupFacts DEF Values
  <2>5. Cursors'
    BY <1>0, <1>3, <2>2, <2>3 DEF ReadBufFetch, Cursors
  <2> QED
    BY <1>0, <1>3, <2>3, <2>4, <2>5 DEF ReadBufFetch, Flags, Values
<1>4. CASE ReadBufSend
  <2>1. PICK o \in WrOutcomes(nb_buf, 0) :
          /\ Sent(nb_buf, 0, o, "data")
          /\ IF ~Complete(nb_buf, 0, o)
             THEN /\ Again
                  /\ nb_buf' = Buff(nb_buf.len, nb_buf.idx + o.n)
                  /\ UNCHANGED <<cmd_data, res, parsing, is_cyclic_buffer>>
             ELSE IF MoreChunks
             THEN /\ Again
                  /\ cmd_data' = ChunkDone
                  /\ nb_buf' = Buff(0, nb_buf.len)
                  /\ UNCHANGED <<res, parsing, is_cyclic_buffer>>
             ELSE Clean("done")
    BY <1>4 DEF ReadBufSend
  <2>2. nb_buf.idx <= nb_buf.len /\ "data" \in Words /\ nb_buf.len \in Nat
        /\ state = "RW_BUF" /\ nb_buf.len > 0
    BY <1>0, <1>4 DEF ReadBufSend, ReadBuf, Values, Words
  <2>3. /\ o.n \in Nat /\ nb_buf.idx + o.n <= nb_buf.len
        /\ out' \in Seq(Words) /\ shorts' \in Nat
        /\ UNCHANGED <<setup, request, stored, cyclic_dev>>
    BY <1>0, <2>1, <2>2, SentFacts DEF Values, Words
  <2>4. UNCHANGED <<used, client, device>>
    BY <1>4 DEF ReadBufSend
  <2>5. CASE Again /\ nb_buf' = Buff(nb_buf.len, nb_buf.idx + o.n)
             /\ UNCHANGED <<cmd_data, res, parsing, is_cyclic_buffer>>
    <3>1. Flags'
      BY <1>0, <2>4, <2>5 DEF Flags, Again
    <3>2. nb_buf' \in [len : Nat, idx : Nat] /\ nb_buf'.len = nb_buf.len
          /\ nb_buf'.idx <= nb_buf'.len
      BY <1>0, <2>3, <2>5 DEF Values, Buff
    <3>3. Cursors'
      BY <1>0, <2>2, <2>3, <2>5, <3>2 DEF Cursors, Again
    <3> QED
      BY <1>0, <2>3, <2>4, <2>5, <3>1, <3>2, <3>3 DEF Values, Again, Words
  <2>6. CASE MoreChunks /\ Again /\ cmd_data' = ChunkDone /\ nb_buf' = Buff(0, nb_buf.len)
             /\ UNCHANGED <<res, parsing, is_cyclic_buffer>>
    <3>1. Flags'
      BY <1>0, <2>4, <2>6 DEF Flags, Again
    <3>2. nb_buf' \in [len : Nat, idx : Nat] /\ nb_buf'.len = 0
      BY <2>2, <2>6 DEF Buff
    <3>3. cmd_data' \in CmdData /\ cmd_data'.cmd = cmd_data.cmd /\ cmd_data'.count \in Nat
      <4>1. cmd_data.count - nb_buf.len \in Nat
        BY <1>c, <2>2, <2>6 DEF MoreChunks
      <4> QED
        BY <1>0, <2>6, <4>1 DEF ChunkDone, Values, CmdData
    <3>4. ReadBuf /\ ~setup.network /\ setup' = setup
      BY <1>4, <2>3 DEF ReadBufSend
    <3>5. Cursors'
      BY <1>0, <1>c, <2>2, <2>6, <3>2, <3>3, <3>4 DEF Cursors, Again
    <3> QED
      BY <1>0, <2>3, <2>4, <2>6, <3>1, <3>2, <3>3, <3>5 DEF Values, Again, Words
  <2>7. CASE Clean("done")
    <3>1. Flags'
      BY <1>0, <2>4, <2>7, CleanTypes DEF Flags
    <3> QED
      BY <1>0, <2>3, <2>4, <2>7, <3>1, CleanTypes DEF Values, Cursors, Words
  <2> QED
    BY <2>1, <2>5, <2>6, <2>7
<1>5. CASE ReadBufDelayed
  <2>1. PICK n, b : n = Readable(Wanted) /\ b = Buff(nb_buf.len + n, nb_buf.idx)
    OBVIOUS
  <2>2. Fetching /\ setup.network /\ state = "RW_BUF" /\ cmd_data.cmd = "READBUF"
    BY <1>5 DEF ReadBufDelayed, Fetching, ReadBuf
  <2>3. /\ n \in Nat /\ n > 0 /\ n <= data /\ data' = data - n
        /\ nb_buf.len + n <= PayloadLen /\ nb_buf.len + n <= cmd_data.count
    <3>1. Wanted \in Nat
      BY <2>2, WantedFacts
    <3>2. n \in Nat /\ n <= data /\ n <= Wanted /\ nb_buf.len + Wanted <= PayloadLen
          /\ nb_buf.len + Wanted <= cmd_data.count /\ nb_buf.len \in Nat
      BY <1>0, <2>1, <2>2, WantedFacts DEF Values
    <3> QED
      BY <1>5, <1>c, <2>1, <3>1, <3>2 DEF ReadBufDelayed
  <2>4. /\ b \in [len : Nat, idx : Nat] /\ b.idx <= b.len /\ b.idx = nb_buf.idx
        /\ b.len <= PayloadLen /\ b.len <= cmd_data.count
    BY <1>0, <1>c, <2>1, <2>2, <2>3 DEF Values, Cursors, Buff
  <2>5. data' \in 0 .. setup.dev_size
    BY <1>0, <2>3, SetupFacts DEF Values
  <2>6. UNCHANGED <<client, room>>
    BY <1>5 DEF ReadBufDelayed
  <2>7. CASE nb_buf' = b /\ Again
             /\ UNCHANGED <<used, cmd_data, res, parsing, is_cyclic_buffer, env, history>>
    <3>1. Flags'
      BY <1>0, <2>6, <2>7 DEF Flags, Again
    <3>2. Cursors'
      BY <2>2, <2>4, <2>7 DEF Cursors, Again, BufferCmds
    <3> QED
      BY <1>0, <2>4, <2>5, <2>6, <2>7, <3>1, <3>2 DEF Values, Again
  <2>8. CASE Clean("notconn") /\ used' = FALSE /\ UNCHANGED <<env, history>>
    <3>1. Flags'
      BY <1>0, <2>6, <2>8, CleanTypes DEF Flags
    <3> QED
      BY <1>0, <2>5, <2>6, <2>8, <3>1, CleanTypes DEF Values, Cursors
  <2>9. ASSUME NEW o \in WrOutcomes(b, 0), Sent(b, 0, o, "data"), UNCHANGED used,
               IF Complete(b, 0, o)
               THEN Clean("done")
               ELSE /\ Again
                    /\ nb_buf' = Buff(b.len, b.idx + o.n)
                    /\ UNCHANGED <<cmd_data, res, parsing, is_cyclic_buffer>>
        PROVE  Flags' /\ Values' /\ Cursors'
    <3>1. /\ o.n \in Nat /\ b.idx + o.n <= b.len
          /\ out' \in Seq(Words) /\ shorts' \in Nat
          /\ UNCHANGED <<setup, request, stored, cyclic_dev>>
      <4>1. "data" \in Words /\ out \in Seq(Words) /\ shorts \in Nat
        BY <1>0 DEF Values, Words
      <4> QED
        BY <2>4, <2>9, <4>1, SentFacts
    <3>2. CASE Clean("done")
      <4>1. Flags'
        BY <1>0, <2>6, <2>9, <3>2, CleanTypes DEF Flags
      <4> QED
        BY <1>0, <2>5, <2>6, <3>1, <3>2, <4>1, CleanTypes DEF Values, Cursors, Words
    <3>3. CASE /\ Again
               /\ nb_buf' = Buff(b.len, b.idx + o.n)
               /\ UNCHANGED <<cmd_data, res, parsing, is_cyclic_buffer>>
      <4>1. Flags'
        BY <1>0, <2>6, <2>9, <3>3 DEF Flags, Again
      <4>2. nb_buf' \in [len : Nat, idx : Nat] /\ nb_buf'.len = b.len
            /\ nb_buf'.idx <= nb_buf'.len
        BY <2>4, <3>1, <3>3 DEF Buff
      <4>3. Cursors'
        BY <2>2, <2>4, <3>3, <4>2 DEF Cursors, Again, BufferCmds
      <4> QED
        BY <1>0, <2>5, <2>6, <3>1, <3>3, <4>1, <4>2, <4>3 DEF Values, Again, Words
    <3> QED
      BY <2>9, <3>2, <3>3
  <2> QED
    BY <1>5, <2>1, <2>7, <2>8, <2>9 DEF ReadBufDelayed
<1> QED
  BY <1>1, <1>2, <1>3, <1>4, <1>5

LEMMA StorableFacts ==
  ASSUME TypeInv
  PROVE  /\ Storable \in Nat /\ Storable <= room /\ Storable <= nb_buf.len
         /\ Storable = room \/ Storable = nb_buf.len
<1>1. room \in Nat /\ nb_buf.len \in Nat
  BY SetupFacts DEF TypeInv, TypeOK
<1> QED
  BY <1>1, MinFacts DEF Storable

LEMMA WriteBufTypes ==
  ASSUME TypeInv, WriteBufStart \/ WriteBufRecv \/ WriteBufFails \/ WriteBufStore
  PROVE  TypeInv'
<1>0. Flags /\ Values /\ Cursors
  BY TypeHalves DEF TypeInv
<1> SUFFICES Flags' /\ Values' /\ Cursors'
  BY TypeHalves DEF TypeInv
<1> USE DEF conn, call, client, device, history, env
<1>c. cmd_data.count \in Nat /\ PayloadLen \in Nat /\ nb_buf.len \in Nat /\ room \in Nat
  BY <1>0, SetupFacts DEF Values, CmdData
<1>1. CASE WriteBufStart
  <2>1. PICK n : n = MinOf(PayloadLen, cmd_data.count)
    OBVIOUS
  <2>2. n \in Nat /\ n <= PayloadLen /\ n <= cmd_data.count
    BY <1>c, <2>1, MinFacts
  <2>3. nb_buf' \in [len : Nat, idx : Nat] /\ nb_buf'.len = n /\ nb_buf'.idx = 0
    BY <1>1, <2>1, <2>2 DEF WriteBufStart, Buff
  <2>4. Cursors'
    BY <1>0, <1>1, <2>2, <2>3 DEF WriteBufStart, Cursors
  <2> QED
    BY <1>0, <1>1, <2>3, <2>4 DEF WriteBufStart, Flags, Values
<1>2. CASE WriteBufRecv
  <2>1. /\ Take(Received) /\ nb_buf' = Buff(nb_buf.len, nb_buf.idx + Received)
        /\ IF Received = Unsent(nb_buf) THEN Go(state) ELSE Again
        /\ nb_buf.idx <= nb_buf.len
    BY <1>0, <1>2 DEF WriteBufRecv, Received, Values
  <2>2. Received \in 0 .. Len(inp) /\ Received <= Unsent(nb_buf)
        /\ Unsent(nb_buf) = nb_buf.len - nb_buf.idx
    BY <1>0, <2>1, RecvFacts DEF Values
  <2>3. inp' \in Seq(Units) /\ UNCHANGED <<up, owed, nsent>>
    BY <1>0, <2>1, <2>2, TakeFacts DEF Values
  <2>4. nb_buf' \in [len : Nat, idx : Nat] /\ nb_buf'.len = nb_buf.len
        /\ nb_buf'.idx <= nb_buf'.len
    BY <1>0, <2>1, <2>2 DEF Values, Buff
  <2>5. UNCHANGED state /\ ret' \in {"none", "again", "done", "error", "notconn"}
    BY <1>0, <2>1 DEF Go, Again, Values
  <2>6. stepping' \in BOOLEAN
    BY <1>0, <2>1 DEF Go, Again, Flags
  <2>7. Flags'
    BY <1>0, <1>2, <2>3, <2>6 DEF WriteBufRecv, Flags
  <2>8. Cursors'
    BY <1>0, <1>2, <2>4, <2>5 DEF WriteBufRecv, Cursors
  <2> QED
    BY <1>0, <1>2, <2>3, <2>4, <2>5, <2>7, <2>8 DEF WriteBufRecv, Values
<1>3. CASE WriteBufFails
  <2>1. Clean("error") /\ UNCHANGED <<used, client, env, device, history>>
    BY <1>3 DEF WriteBufFails
  <2>2. Flags'
    BY <1>0, <2>1, CleanTypes DEF Flags
  <2> QED
    BY <1>0, <2>1, <2>2, CleanTypes DEF Values, Cursors
<1>4. CASE WriteBufStore
  <2>1. PICK n : n = Storable
    OBVIOUS
  <2>2. n \in Nat /\ n > 0 /\ n <= room /\ n <= nb_buf.len /\ stored' = stored + n
    BY <1>4, <2>1, StorableFacts DEF WriteBufStore
  <2>3. UNCHANGED <<used, client, env, data, request, out, cyclic_dev>> /\ stored' \in Nat
    BY <1>0, <1>4, <2>2 DEF WriteBufStore, Values
  <2>4. room - n \in 0 .. setup.dev_size /\ setup.dev_size \in 0 .. setup.dev_size
    <3>1. PICK d : d = setup.dev_size
      OBVIOUS
    <3>2. d \in Nat /\ room \in 0 .. d
      BY <1>0, <3>1, SetupFacts DEF Values
    <3>3. room - n \in 0 .. d /\ d \in 0 .. d
      BY <2>2, <3>2
    <3> QED
      BY <3>1, <3>3
  <2>5. Buff(0, nb_buf.idx) \in [len : Nat, idx : Nat] /\ Buff(0, nb_buf.idx).len = 0
    BY <1>0 DEF Values, Buff
  <2>6. state = "RW_BUF" /\ cmd_data.cmd = "WRITEBUF"
    BY <1>4 DEF WriteBufStore, Storing, WriteBuf
  <2>7. CASE /\ MoreChunks /\ cmd_data' = ChunkDone /\ nb_buf' = Buff(0, nb_buf.idx)
             /\ room' = room - n /\ Again /\ UNCHANGED <<res, parsing, is_cyclic_buffer>>
    <3>1. Flags'
      BY <1>0, <2>3, <2>7 DEF Flags, Again
    <3>2. cmd_data' \in CmdData /\ cmd_data'.cmd = cmd_data.cmd /\ cmd_data'.count \in Nat
      <4>1. cmd_data.count - nb_buf.len \in Nat
        BY <1>c, <2>7 DEF MoreChunks
      <4> QED
        BY <1>0, <2>7, <4>1 DEF ChunkDone, Values, CmdData
    <3>3. Cursors'
      BY <1>c, <2>5, <2>6, <2>7, <3>2 DEF Cursors, Again, BufferCmds
    <3> QED
      BY <1>0, <2>3, <2>4, <2>5, <2>7, <3>1, <3>2, <3>3 DEF Values, Again
  <2>8. CASE /\ cmd_data' = [cmd_data EXCEPT !.cmd = "PRINT", !.count = 0]
             /\ nb_buf' = Buff(0, nb_buf.idx)
             /\ room' = IF setup.push_drains THEN setup.dev_size ELSE room - n
             /\ res' = [Value("ok") EXCEPT !.buf = Buff(0, 0)]
             /\ Go("WRITING_CMD_RESULT")
             /\ UNCHANGED <<parsing, is_cyclic_buffer>>
    <3>1. Flags'
      BY <1>0, <2>3, <2>8 DEF Flags, Go
    <3>2. cmd_data' \in CmdData
      BY <1>0, <2>8 DEF Values, CmdData, Cmds
    <3>3. res' \in [write_val : BOOLEAN, val : {"ok", "err"},
                    buf : [len : {0, 1}, idx : {0, 1}]]
      <4>1. PICK r : r = Value("ok")
        OBVIOUS
      <4>2. r \in [write_val : BOOLEAN, val : {"ok", "err"},
                   buf : [len : {0, 1}, idx : {0, 1}]]
        BY <4>1, ValueTypes
      <4>3. res' = [r EXCEPT !.buf = Buff(0, 0)]
        BY <2>8, <4>1
      <4> QED
        BY <4>2, <4>3 DEF Buff
    <3>4. room' \in 0 .. setup.dev_size
      BY <2>4, <2>8
    <3> QED
      BY <1>0, <2>3, <2>5, <2>8, <3>1, <3>2, <3>3, <3>4 DEF Values, Cursors, Go
  <2>9. CASE room' = room - n /\ Clean("done")
    <3>1. Flags'
      BY <1>0, <2>3, <2>9, CleanTypes DEF Flags
    <3> QED
      BY <1>0, <2>3, <2>4, <2>9, <3>1, CleanTypes DEF Values, Cursors
  <2> QED
    BY <1>4, <2>1, <2>7, <2>8, <2>9 DEF WriteBufStore
<1> QED
  BY <1>1, <1>2, <1>3, <1>4

LEMMA TypeStep ==
  ASSUME TypeInv, [Next]_vars PROVE TypeInv'
<1>1. CASE UNCHANGED vars
  BY <1>1 DEF TypeInv, TypeOK, Cursors, vars, conn, call, client, env, device, history
<1>2. CASE Disconnected
  BY <1>2, GoneTypes DEF Disconnected
<1> QED
  BY <1>1, <1>2, EnvTypes, ReadingTypes, RunningTypes, WritingTypes, CyclicTypes, ReadBufTypes,
     WriteBufTypes DEF Next, RunState, Buffering

\* The connection, its cursors and the environment stay in their ranges, whatever
\* clients send and whatever fails.
THEOREM TypeCorrect == Spec => []TypeOK
<1>1. TypeInv => TypeOK
  BY DEF TypeInv
<1> QED
  BY <1>1, TypeInit, TypeStep, PTL DEF Spec

\* The chunks of READBUF and WRITEBUF stay inside conn->payload_buf, over the serial
\* link and over the network, for every size of it.
THEOREM ChunksStayInPayload == Spec => []ChunksInPayload
<1>1. TypeInv => ChunksInPayload
  BY DEF TypeInv, Cursors, ChunksInPayload
<1> QED
  BY <1>1, TypeInit, TypeStep, PTL DEF Spec

-----------------------------------------------------------------------------
(* Between commands *)

LEMMA RestStep ==
  ASSUME TypeInv, AtRest, [Next]_vars PROVE AtRest'
<1> USE DEF conn, call, client, device, history, env, AtRest, Go, Again, Clean
<1>1. CASE Client
  BY <1>1 DEF Client, ClientSend, ClientByte, ClientGone
<1>2. CASE Device
  BY <1>2 DEF Device, DeviceFills, DeviceDrains
<1>3. CASE ConnStep
  BY <1>3 DEF ConnStep
<1>4. CASE ConnAdd
  BY <1>4 DEF ConnAdd
<1>5. CASE Gone
  BY <1>5 DEF Gone
<1>6. CASE Reading
  <2>1. CASE ReadLineAgain \/ ReadLineByte \/ ReadLineTooLong
    BY <1>6, <2>1 DEF ReadLineAgain, ReadLineByte, ReadLineTooLong
  <2>2. CASE ReadLine
    BY <2>2 DEF ReadLine, AfterParse
  <2>3. CASE ReadWriteData
    BY <2>3 DEF ReadWriteData
  <2> QED
    BY <1>6, <2>1, <2>2, <2>3 DEF Reading
<1>7. CASE RunSimple \/ RunText \/ RunWrite
  BY <1>7 DEF RunSimple, RunText, RunWrite
<1>8. CASE Writing
  BY <1>8 DEF Writing, FormatResult, SendValue, SendText, ResultSent
<1>9. CASE ReadBufAgain \/ ReadBufFails \/ ReadBufFetch \/ ReadBufSend \/ ReadBufDelayed
  BY <1>9 DEF ReadBufAgain, ReadBufFails, ReadBufFetch, ReadBufSend, ReadBufDelayed, Fetching,
              ReadBuf
<1>10. CASE WriteBufStart \/ WriteBufRecv \/ WriteBufFails \/ WriteBufStore
  BY <1>10 DEF WriteBufStart, WriteBufRecv, WriteBufFails, WriteBufStore, Storing, WriteBuf
<1>11. CASE Cyclic
  BY <1>11 DEF Cyclic, PushFails, PushAnother, PushByte, PushLine, Pushed, Pushing, vars
<1>12. CASE UNCHANGED vars
  BY <1>12 DEF vars
<1> QED
  BY <1>1, <1>2, <1>3, <1>4, <1>5, <1>6, <1>7, <1>8, <1>9, <1>10, <1>11, <1>12
     DEF Next, RunState, Running, RunExit, Buffering, Disconnected

LEMMA SetupKept == ASSUME [Next]_vars PROVE UNCHANGED setup
  BY DEF Next, Client, ClientSend, ClientByte, ClientGone, Device, DeviceFills, DeviceDrains,
         ConnStep, ConnAdd, RunState, Reading, ReadLineAgain, ReadLineByte, ReadLineTooLong,
         ReadLine, ReadWriteData, Running, RunSimple, RunExit, Gone, RunText, RunWrite, Writing,
         FormatResult, SendValue, SendText, ResultSent, Sent, Buffering, ReadBufAgain,
         ReadBufFails, ReadBufFetch, ReadBufSend, ReadBufDelayed, WriteBufStart, WriteBufRecv,
         WriteBufFails, WriteBufStore, Cyclic, PushFails, PushAnother, PushByte, PushLine,
         Disconnected, vars,
         conn, call, client, device, history, env

LEMMA SourcesStep ==
  ASSUME TypeInv, Sources, [Next]_vars PROVE Sources'
<1> USE DEF conn, call, client, device, history, env
<1>0. /\ inp \in Seq(Units) /\ setup \in Setups /\ Len(inp) \in Nat
      /\ \A i \in 1 .. Len(inp) : Known(inp[i])
  BY DEF TypeInv, TypeOK, Sources, Known
<1> SUFFICES ASSUME UNCHANGED setup PROVE \A i \in 1 .. Len(inp') : Known(inp'[i])
  <2>1. UNCHANGED setup
    BY SetupKept
  <2> QED
    BY <2>1 DEF Sources, Known
<1>1. CASE UNCHANGED inp
  BY <1>0, <1>1
<1>2. ASSUME NEW n \in 0 .. Len(inp), Take(n) PROVE \A i \in 1 .. Len(inp') : Known(inp'[i])
  <2>1. Len(inp') = Len(inp) - n /\ \A i \in 1 .. Len(inp) - n : inp'[i] = inp[i + n]
    BY <1>0, <1>2, TakeFacts
  <2> QED
    BY <1>0, <2>1
<1>3. ASSUME NEW u, Known(u), inp' = Append(inp, u)
      PROVE  \A i \in 1 .. Len(inp') : Known(inp'[i])
  <2>1. Len(inp') = Len(inp) + 1 /\ inp'[Len(inp) + 1] = u
        /\ \A i \in 1 .. Len(inp) : inp'[i] = inp[i]
    BY <1>0, <1>3
  <2> QED
    BY <1>0, <1>3, <2>1
<1>4. CASE ReadLineTooLong
  <2>1. PICK u : u = [NoUnit EXCEPT !.kind = "bad"]
    OBVIOUS
  <2>2. inp # <<>> /\ inp' = <<u>> \o Tail(inp) /\ Known(u)
    BY <1>4, <2>1 DEF ReadLineTooLong, Known
  <2>3. Len(inp') = Len(inp) /\ inp'[1] = u /\ \A i \in 2 .. Len(inp) : inp'[i] = inp[i]
    BY <1>0, <2>2
  <2> QED
    BY <1>0, <2>2, <2>3
<1>5. CASE ConnAdd
  BY <1>5 DEF ConnAdd
<1>6. CASE Client
  BY <1>1, <1>3, <1>6 DEF Client, ClientSend, ClientByte, ClientGone, Known
<1>7. CASE ReadLineByte \/ ReadLine \/ PushByte \/ PushLine
  <2>1. Take(1) /\ 1 \in 0 .. Len(inp)
    BY <1>0, <1>7, InpHead DEF ReadLineByte, ReadLine, PushByte, PushLine
  <2> QED
    BY <1>2, <2>1
<1>8. CASE ReadWriteData \/ WriteBufRecv
  <2>1. Take(Received) /\ Received \in 0 .. Len(inp)
    BY <1>0, <1>8, RecvFacts
       DEF ReadWriteData, WriteBufRecv, Received, TypeInv, TypeOK, Cursors
  <2> QED
    BY <1>2, <2>1
<1> QED
  BY <1>1, <1>4, <1>5, <1>6, <1>7, <1>8
     DEF Next, Device, DeviceFills, DeviceDrains, ConnStep, RunState, Reading, ReadLineAgain,
         Running, RunSimple, RunExit, Gone, RunText, RunWrite, Writing, FormatResult, SendValue,
         SendText, ResultSent, Buffering, ReadBufAgain, ReadBufFails, ReadBufFetch, ReadBufSend,
         ReadBufDelayed, WriteBufStart, WriteBufFails, WriteBufStore, Cyclic, PushFails,
         PushAnother, Disconnected, vars

-----------------------------------------------------------------------------
(* ReplyWellFormed and ReplyComplete: sequences *)

Begins(o, r) == Len(o) <= Len(r) /\ o = SubSeq(r, 1, Len(o))

LEMMA ConcatFacts ==
  ASSUME NEW s \in Seq(Words), NEW t \in Seq(Words)
  PROVE  /\ s \o t \in Seq(Words) /\ Len(s \o t) = Len(s) + Len(t)
         /\ \A i \in 1 .. Len(s) : (s \o t)[i] = s[i]
         /\ \A i \in 1 .. Len(t) : (s \o t)[Len(s) + i] = t[i]
  OBVIOUS

LEMMA TwoWords ==
  ASSUME NEW s \in Seq(Words), Len(s) = 2 PROVE s = <<s[1], s[2]>>
  OBVIOUS

LEMMA FourWords ==
  ASSUME NEW s \in Seq(Words), Len(s) = 4 PROVE s = <<s[1], s[2], s[3], s[4]>>
  OBVIOUS

LEMMA EmptyBegins ==
  ASSUME NEW r \in Seq(Words) PROVE Begins(<<>>, r)
<1>1. SubSeq(r, 1, 0) = <<>>
  OBVIOUS
<1> QED
  BY <1>1 DEF Begins

LEMMA ItselfBegins ==
  ASSUME NEW r \in Seq(Words) PROVE Begins(r, r)
<1>1. SubSeq(r, 1, Len(r)) = r
  OBVIOUS
<1> QED
  BY <1>1 DEF Begins

LEMMA PairBegins ==
  ASSUME NEW a \in Words, NEW b \in Words, NEW c \in Words, NEW d \in Words
  PROVE  Begins(<<a, b>>, <<a, b, c, d>>)
<1>1. PICK r : r = <<a, b, c, d>>
  OBVIOUS
<1>2. r \in Seq(Words) /\ Len(r) = 4 /\ r[1] = a /\ r[2] = b
  BY <1>1
<1>3. PICK s : s = SubSeq(r, 1, 2)
  OBVIOUS
<1>4. s \in Seq(Words) /\ Len(s) = 2 /\ s[1] = a /\ s[2] = b
  BY <1>2, <1>3
<1>5. s = <<a, b>>
  BY <1>4, TwoWords
<1>6. Len(<<a, b>>) = 2
  OBVIOUS
<1> QED
  BY <1>1, <1>2, <1>3, <1>5, <1>6 DEF Begins

LEMMA DataFacts ==
  ASSUME NEW n \in Nat
  PROVE  /\ Data(n) \in Seq(Words) /\ Len(Data(n)) = n + 4
         /\ Data(n)[1] = "ok" /\ Data(n)[2] = "nl" /\ Data(n)[3] = "text" /\ Data(n)[4] = "nl"
         /\ \A i \in 1 .. n : Data(n)[i + 4] = "data"
<1>1. /\ WithText \in Seq(Words) /\ Len(WithText) = 4
      /\ WithText[1] = "ok" /\ WithText[2] = "nl" /\ WithText[3] = "text" /\ WithText[4] = "nl"
  BY DEF WithText, Words
<1>2. PICK t : t = [i \in 1 .. n |-> "data"]
  OBVIOUS
<1>3. t \in Seq(Words) /\ Len(t) = n /\ \A i \in 1 .. n : t[i] = "data"
  BY <1>2 DEF Words
<1>4. PICK s : s = WithText
  OBVIOUS
<1>5. /\ s \o t \in Seq(Words) /\ Len(s \o t) = Len(s) + Len(t)
      /\ \A i \in 1 .. Len(s) : (s \o t)[i] = s[i]
      /\ \A i \in 1 .. Len(t) : (s \o t)[Len(s) + i] = t[i]
  BY <1>1, <1>3, <1>4, ConcatFacts
<1>6. PICK r : r = s \o t
  OBVIOUS
<1>7. /\ r \in Seq(Words) /\ Len(r) = 4 + n /\ \A i \in 1 .. 4 : r[i] = s[i]
      /\ \A i \in 1 .. n : r[4 + i] = "data"
  BY <1>1, <1>3, <1>4, <1>5, <1>6
<1>8. r = Data(n)
  BY <1>2, <1>4, <1>6 DEF Data
<1>9. /\ r[1] = "ok" /\ r[2] = "nl" /\ r[3] = "text" /\ r[4] = "nl"
      /\ \A i \in 1 .. n : r[i + 4] = "data"
  BY <1>1, <1>4, <1>7
<1> QED
  BY <1>7, <1>8, <1>9

LEMMA DataUnique ==
  ASSUME NEW n \in Nat, NEW s \in Seq(Words), Len(s) = n + 4,
         s[1] = "ok", s[2] = "nl", s[3] = "text", s[4] = "nl",
         \A i \in 1 .. n : s[i + 4] = "data"
  PROVE  s = Data(n)
<1>1. PICK t : t = Data(n)
  OBVIOUS
<1>2. /\ t \in Seq(Words) /\ Len(t) = n + 4
      /\ t[1] = "ok" /\ t[2] = "nl" /\ t[3] = "text" /\ t[4] = "nl"
      /\ \A i \in 1 .. n : t[i + 4] = "data"
  BY <1>1, DataFacts
<1>3. ASSUME NEW j \in 1 .. n + 4 PROVE s[j] = t[j]
  <2>1. CASE j <= 4
    BY <1>2, <2>1
  <2>2. CASE j > 4
    <3>1. j - 4 \in 1 .. n /\ (j - 4) + 4 = j
      BY <2>2
    <3> QED
      BY <1>2, <3>1
  <2> QED
    BY <2>1, <2>2
<1>4. s = t
  BY <1>2, <1>3
<1> QED
  BY <1>1, <1>4

LEMMA DataZero == Data(0) = <<"ok", "nl", "text", "nl">>
<1>1. PICK s : s = <<"ok", "nl", "text", "nl">>
  OBVIOUS
<1>2. s \in Seq(Words) /\ Len(s) = 0 + 4 /\ s[1] = "ok" /\ s[2] = "nl" /\ s[3] = "text" /\ s[4] = "nl"
  BY <1>1 DEF Words
<1>3. 0 \in Nat /\ \A i \in 1 .. 0 : s[i + 4] = "data"
  OBVIOUS
<1>4. s = Data(0)
  BY <1>2, <1>3, DataUnique
<1> QED
  BY <1>1, <1>4

LEMMA DataBegins ==
  ASSUME NEW m \in Nat, NEW n \in Nat, m <= n PROVE Begins(Data(m), Data(n))
<1>1. PICK r : r = Data(n)
  OBVIOUS
<1>2. /\ r \in Seq(Words) /\ Len(r) = n + 4
      /\ r[1] = "ok" /\ r[2] = "nl" /\ r[3] = "text" /\ r[4] = "nl"
      /\ \A i \in 1 .. n : r[i + 4] = "data"
  BY <1>1, DataFacts
<1>3. PICK s : s = SubSeq(r, 1, m + 4)
  OBVIOUS
<1>4. s \in Seq(Words) /\ Len(s) = m + 4 /\ \A i \in 1 .. m + 4 : s[i] = r[i]
  BY <1>2, <1>3
<1>5. /\ s[1] = "ok" /\ s[2] = "nl" /\ s[3] = "text" /\ s[4] = "nl"
      /\ \A i \in 1 .. m : s[i + 4] = "data"
  BY <1>2, <1>4
<1>6. s = Data(m)
  BY <1>4, <1>5, DataUnique
<1>7. Len(Data(m)) = m + 4
  BY DataFacts
<1> QED
  BY <1>1, <1>2, <1>3, <1>6, <1>7 DEF Begins

\* A send of data.
LEMMA DataSent ==
  ASSUME NEW b, NEW o, NEW m \in Nat, o.n \in Nat, o.nl = 0, out = Data(m),
         Sent(b, 0, o, "data")
  PROVE  out' = Data(m + o.n)
<1>1. PICK k, t, z : k = o.n /\ t = [i \in 1 .. k |-> "data"] /\ z = [i \in 1 .. 0 |-> "nl"]
  OBVIOUS
<1>2. t \in Seq(Words) /\ Len(t) = k /\ (\A i \in 1 .. k : t[i] = "data")
      /\ z \in Seq(Words) /\ Len(z) = 0 /\ k \in Nat
  BY <1>1 DEF Words
<1>3. PICK s : s = out
  OBVIOUS
<1>4. /\ s \in Seq(Words) /\ Len(s) = m + 4
      /\ s[1] = "ok" /\ s[2] = "nl" /\ s[3] = "text" /\ s[4] = "nl"
      /\ \A i \in 1 .. m : s[i + 4] = "data"
  BY <1>3, DataFacts
<1>5. PICK r : r = out'
  OBVIOUS
<1>6. r = s \o t \o z
  BY <1>1, <1>3, <1>5 DEF Sent
<1>7. r \in Seq(Words) /\ Len(r) = (m + k) + 4 /\ (\A i \in 1 .. m + 4 : r[i] = s[i])
      /\ (\A i \in 1 .. k : r[m + 4 + i] = t[i])
  <2>1. PICK q : q = s \o t
    OBVIOUS
  <2>2. q \in Seq(Words) /\ Len(q) = m + 4 + k /\ (\A i \in 1 .. m + 4 : q[i] = s[i])
        /\ (\A i \in 1 .. k : q[m + 4 + i] = t[i])
    <3>1. s \o t \in Seq(Words) /\ Len(s \o t) = Len(s) + Len(t)
          /\ (\A i \in 1 .. Len(s) : (s \o t)[i] = s[i])
          /\ (\A i \in 1 .. Len(t) : (s \o t)[Len(s) + i] = t[i])
      BY <1>2, <1>4, ConcatFacts
    <3> QED
      BY <1>2, <1>4, <2>1, <3>1
  <2>3. q \o z \in Seq(Words) /\ Len(q \o z) = Len(q)
        /\ \A i \in 1 .. Len(q) : (q \o z)[i] = q[i]
    BY <1>2, <2>2, ConcatFacts
  <2>4. r = q \o z
    BY <1>6, <2>1
  <2> QED
    BY <1>2, <2>2, <2>3, <2>4
<1>8. ASSUME NEW i \in 1 .. m + k PROVE r[i + 4] = "data"
  <2>1. CASE i <= m
    BY <1>2, <1>4, <1>7, <2>1
  <2>2. CASE i > m
    <3>1. i - m \in 1 .. k /\ m + 4 + (i - m) = i + 4
      BY <1>2, <2>2
    <3> QED
      BY <1>2, <1>7, <3>1
  <2> QED
    BY <1>2, <2>1, <2>2
<1>9. r[1] = "ok" /\ r[2] = "nl" /\ r[3] = "text" /\ r[4] = "nl"
  BY <1>4, <1>7
<1>10. r = Data(m + k)
  <2>1. m + k \in Nat /\ \A i \in 1 .. m + k : r[i + 4] = "data"
    BY <1>2, <1>8
  <2> QED
    BY <1>7, <1>9, <2>1, DataUnique
<1> QED
  BY <1>1, <1>5, <1>10

\* A send of a value or a text and its newline, over a transport that takes both
\* or neither.
LEMMA LineSent ==
  ASSUME NEW b \in [len : Nat, idx : Nat], b.len = 1, b.idx = 0, NEW o \in WrOutcomes(b, 1),
         NEW w \in Words, Sent(b, 1, o, w), ~setup.newline_short, out \in Seq(Words)
  PROVE  \/ /\ Complete(b, 1, o) /\ o.n = 1
            /\ out = <<>> => out' = <<w, "nl">>
            /\ \A x, y \in Words : out = <<x, y>> => out' = <<x, y, w, "nl">>
         \/ ~Complete(b, 1, o) /\ o.n = 0 /\ out' = out
<1>1. o.n \in {0, 1} /\ o.nl \in {0, 1} /\ Unsent(b) = 1
  BY DEF WrOutcomes, Unsent
<1>2. CASE Complete(b, 1, o)
  <2>1. o.n = 1 /\ o.nl = 1
    BY <1>1, <1>2 DEF Complete
  <2>2. out' = out \o [i \in 1 .. 1 |-> w] \o [i \in 1 .. 1 |-> "nl"]
    BY <2>1 DEF Sent
  <2>3. [i \in 1 .. 1 |-> w] = <<w>> /\ [i \in 1 .. 1 |-> "nl"] = <<"nl">>
    OBVIOUS
  <2>4. out' = out \o <<w>> \o <<"nl">>
    BY <2>2, <2>3
  <2>a. PICK s, r : s = out /\ r = out'
    OBVIOUS
  <2>b. /\ r \in Seq(Words) /\ Len(r) = Len(s) + 2 /\ \A i \in 1 .. Len(s) : r[i] = s[i]
        /\ r[Len(s) + 1] = w /\ r[Len(s) + 2] = "nl"
    <3>1. <<w>> \in Seq(Words) /\ Len(<<w>>) = 1 /\ <<w>>[1] = w
      OBVIOUS
    <3>2. <<"nl">> \in Seq(Words) /\ Len(<<"nl">>) = 1 /\ <<"nl">>[1] = "nl"
      BY DEF Words
    <3>3. PICK q : q = s \o <<w>>
      OBVIOUS
    <3>4. /\ q \in Seq(Words) /\ Len(q) = Len(s) + 1 /\ \A i \in 1 .. Len(s) : q[i] = s[i]
          /\ q[Len(s) + 1] = w
      BY <2>a, <3>1, <3>3, ConcatFacts
    <3>5. /\ q \o <<"nl">> \in Seq(Words) /\ Len(q \o <<"nl">>) = Len(q) + 1
          /\ \A i \in 1 .. Len(q) : (q \o <<"nl">>)[i] = q[i]
          /\ (q \o <<"nl">>)[Len(q) + 1] = "nl"
      BY <3>2, <3>4, ConcatFacts
    <3>6. r = q \o <<"nl">> /\ Len(s) \in Nat
      BY <2>4, <2>a, <3>3
    <3> QED
      BY <3>4, <3>5, <3>6
  <2>5. ASSUME out = <<>> PROVE out' = <<w, "nl">>
    <3>1. Len(r) = 2 /\ r[1] = w /\ r[2] = "nl"
      BY <2>5, <2>a, <2>b
    <3> QED
      BY <2>a, <2>b, <3>1, TwoWords
  <2>6. ASSUME NEW x \in Words, NEW y \in Words, out = <<x, y>> PROVE out' = <<x, y, w, "nl">>
    <3>1. Len(s) = 2 /\ s[1] = x /\ s[2] = y
      BY <2>6, <2>a
    <3>2. Len(r) = 4 /\ r[1] = x /\ r[2] = y /\ r[3] = w /\ r[4] = "nl"
      BY <2>b, <3>1
    <3> QED
      BY <2>a, <2>b, <3>2, FourWords
  <2> QED
    BY <1>2, <2>1, <2>5, <2>6
<1>3. CASE ~Complete(b, 1, o)
  <2>1. o.nl = 0 /\ o.n # 1
    BY <1>1, <1>3 DEF WrOutcomes
  <2>2. out' = out \o [i \in 1 .. 0 |-> w] \o [i \in 1 .. 0 |-> "nl"]
    BY <1>1, <2>1 DEF Sent
  <2>3. [i \in 1 .. 0 |-> w] = <<>> /\ [i \in 1 .. 0 |-> "nl"] = <<>>
    OBVIOUS
  <2>4. out' = out
    BY <2>2, <2>3
  <2> QED
    BY <1>1, <1>3, <2>1, <2>4
<1> QED
  BY <1>2, <1>3

LEMMA TwiceAccepted == Accepted \o Accepted = <<"ok", "nl", "ok", "nl">>
<1>1. PICK s, r : s = Accepted /\ r = Accepted \o Accepted
  OBVIOUS
<1>2. s \in Seq(Words) /\ Len(s) = 2 /\ s[1] = "ok" /\ s[2] = "nl"
  BY <1>1 DEF Accepted, Words
<1>a. s \o s \in Seq(Words) /\ Len(s \o s) = Len(s) + Len(s)
      /\ (\A i \in 1 .. Len(s) : (s \o s)[i] = s[i])
      /\ (\A i \in 1 .. Len(s) : (s \o s)[Len(s) + i] = s[i])
  BY <1>2, ConcatFacts
<1>3. s \o s \in Seq(Words) /\ Len(s \o s) = 4
      /\ (\A i \in 1 .. 2 : (s \o s)[i] = s[i]) /\ (\A i \in 1 .. 2 : (s \o s)[2 + i] = s[i])
  BY <1>2, <1>a
<1>4. r \in Seq(Words) /\ Len(r) = 4 /\ r[1] = s[1] /\ r[2] = s[2] /\ r[3] = s[1] /\ r[4] = s[2]
  <2>1. r = s \o s
    BY <1>1
  <2>2. 2 + 1 = 3 /\ 2 + 2 = 4 /\ 1 \in 1 .. 2 /\ 2 \in 1 .. 2
    OBVIOUS
  <2> QED
    BY <1>3, <2>1, <2>2
<1>5. r = <<r[1], r[2], r[3], r[4]>>
  BY <1>4, FourWords
<1>6. r[1] = "ok" /\ r[2] = "nl" /\ r[3] = "ok" /\ r[4] = "nl"
  BY <1>2, <1>4
<1>7. r = <<"ok", "nl", "ok", "nl">>
  BY <1>5, <1>6
<1> QED
  BY <1>1, <1>7

LEMMA RepliesAre ==
  ASSUME NEW u \in Units
  PROVE  /\ u.kind # "line" => Replies(u) = {<<"err", "nl">>}
         /\ u.kind = "line" =>
              /\ u.cmd \in SimpleCmds \union {"WRITE"} =>
                   Replies(u) = {<<"ok", "nl">>, <<"err", "nl">>}
              /\ u.cmd = "EXIT" => Replies(u) = {<<>>}
              /\ u.cmd = "PRINT" => Replies(u) = {<<"ok", "nl", "text", "nl">>}
              /\ u.cmd = "VERSION" => Replies(u) = {<<"text", "nl">>}
              /\ u.cmd \in {"READ", "GETTRIG"} =>
                   Replies(u) = {<<"ok", "nl", "text", "nl">>, <<"err", "nl">>}
              /\ u.cmd = "READBUF" => Replies(u) = {Data(u.count), <<"err", "nl">>}
              /\ u.cmd = "WRITEBUF" =>
                   <<"ok", "nl", "ok", "nl">> \in Replies(u)
         /\ Replies(u) # {} /\ \A r \in Replies(u) : r \in Seq(Words)
<1>1. Accepted \o Accepted = <<"ok", "nl", "ok", "nl">>
  BY TwiceAccepted
<1>2. Accepted \o Refused \in Seq(Words) /\ Refused \in Seq(Words)
      /\ <<"ok", "nl", "ok", "nl">> \in Seq(Words)
  BY DEF Accepted, Refused, Words
<1>3. u.count \in Nat /\ Data(u.count) \in Seq(Words) /\ u.cmd \in Cmds
  BY DataFacts DEF Units
<1>4. <<"ok", "nl">> \in Seq(Words) /\ <<"text", "nl">> \in Seq(Words)
      /\ <<"ok", "nl", "text", "nl">> \in Seq(Words) /\ <<>> \in Seq(Words)
      /\ <<"err", "nl">> \in Seq(Words)
  BY DEF Words
<1> HIDE DEF Data
<1>5. CASE u.kind # "line"
  <2>1. Replies(u) = {Refused}
    BY <1>5 DEF Replies
  <2> QED
    BY <1>4, <1>5, <2>1 DEF Refused
<1>6. CASE u.kind = "line" /\ u.cmd \in SimpleCmds \union {"WRITE"}
  BY <1>4, <1>6 DEF Replies, Refused, Accepted, SimpleCmds
<1>7. CASE u.kind = "line" /\ u.cmd = "EXIT"
  BY <1>4, <1>7 DEF Replies, SimpleCmds
<1>8. CASE u.kind = "line" /\ u.cmd = "PRINT"
  BY <1>4, <1>8 DEF Replies, SimpleCmds, WithText
<1>9. CASE u.kind = "line" /\ u.cmd = "VERSION"
  BY <1>4, <1>9 DEF Replies, SimpleCmds
<1>10. CASE u.kind = "line" /\ u.cmd \in {"READ", "GETTRIG"}
  BY <1>4, <1>10 DEF Replies, SimpleCmds, WithText, Refused
<1>11. CASE u.kind = "line" /\ u.cmd = "READBUF"
  <2>1. Replies(u) = {WithText \o [i \in 1 .. u.count |-> "data"], Refused}
    BY <1>11 DEF Replies, SimpleCmds
  <2>2. Replies(u) = {Data(u.count), <<"err", "nl">>}
    BY <2>1 DEF Data, Refused
  <2> QED
    BY <1>3, <1>4, <1>11, <2>2 DEF SimpleCmds
<1>12. CASE u.kind = "line" /\ u.cmd = "WRITEBUF"
  <2>1. Replies(u) = {Accepted \o Accepted, Accepted \o Refused, Refused}
    BY <1>12 DEF Replies, SimpleCmds
  <2> QED
    BY <1>1, <1>2, <1>12, <2>1 DEF SimpleCmds
<1> QED
  BY <1>3, <1>5, <1>6, <1>7, <1>8, <1>9, <1>10, <1>11, <1>12 DEF Cmds, BufferCmds

LEMMA OkBegins ==
  ASSUME NEW n \in Nat PROVE Begins(<<"ok", "nl">>, Data(n))
<1>1. PICK r : r = Data(n)
  OBVIOUS
<1>2. r \in Seq(Words) /\ Len(r) = n + 4 /\ r[1] = "ok" /\ r[2] = "nl"
  BY <1>1, DataFacts
<1>3. PICK s : s = SubSeq(r, 1, 2)
  OBVIOUS
<1>4. s \in Seq(Words) /\ Len(s) = 2 /\ s[1] = "ok" /\ s[2] = "nl"
  BY <1>2, <1>3
<1>5. s = <<"ok", "nl">>
  BY <1>4, TwoWords
<1>6. Len(<<"ok", "nl">>) = 2
  OBVIOUS
<1> QED
  BY <1>1, <1>2, <1>3, <1>5, <1>6 DEF Begins

-----------------------------------------------------------------------------
(* ReplyWellFormed and ReplyComplete: the reply at every stage *)

LEMMA BeginsWell ==
  ASSUME NEW r \in Replies(request), Begins(out, r) PROVE ReplyWellFormed
  BY DEF ReplyWellFormed, Begins

LEMMA AnsweringWell ==
  ASSUME ReplyInv, state = "WRITING_CMD_RESULT" PROVE ReplyWellFormed
<1>0. /\ request \in Units /\ res.val \in {"ok", "err"} /\ request.count \in Nat
      /\ request.cmd \in Cmds /\ res.write_val \in BOOLEAN
  BY DEF ReplyInv, TypeInv, TypeOK, Units
<1>1. Result /\ Said
  BY DEF ReplyInv, Answering
<1>2. "ok" \in Words /\ "nl" \in Words /\ "text" \in Words /\ "err" \in Words
  BY DEF Words
<1>3. ASSUME NEW r \in Replies(request), out = r PROVE ReplyWellFormed
  BY <1>0, <1>3, RepliesAre, ItselfBegins, BeginsWell
<1>4. CASE Second
  <2>1. ~TextSent /\ <<"ok", "nl", "ok", "nl">> \in Replies(request)
    BY <1>0, <1>4, RepliesAre DEF Second, TextSent, HasText, Ok
  <2>2. CASE ValueSent
    BY <1>1, <1>3, <1>4, <2>1, <2>2 DEF Said
  <2>3. CASE ~ValueSent
    BY <1>1, <1>2, <1>4, <2>1, <2>3, PairBegins, BeginsWell DEF Said
  <2> QED
    BY <2>2, <2>3
<1>5. CASE ~Second /\ ~ValueSent /\ ~TextSent
  <2>1. out = <<>>
    BY <1>1, <1>5 DEF Said
  <2>2. PICK r \in Replies(request) : r \in Seq(Words)
    BY <1>0, RepliesAre
  <2> QED
    BY <2>1, <2>2, EmptyBegins, BeginsWell
<1>6. CASE ~Second /\ ValueSent /\ ~TextSent
  <2>1. out = <<res.val, "nl">>
    BY <1>1, <1>6 DEF Said
  <2>2. CASE ~Ok \/ request.cmd \in SimpleCmds \union {"WRITE"}
    <3>1. out \in Replies(request)
      BY <1>0, <1>1, <2>1, <2>2, RepliesAre DEF Result, Failed, Ok
    <3> QED
      BY <1>3, <3>1
  <2>3. CASE Ok /\ request.cmd \in {"PRINT", "READ", "GETTRIG"}
    <3>1. CASE res.val = "ok"
      <4>1. <<"ok", "nl", "text", "nl">> \in Replies(request)
        BY <1>0, <2>3, RepliesAre DEF Ok
      <4> QED
        BY <1>2, <2>1, <3>1, <4>1, PairBegins, BeginsWell
    <3>2. CASE res.val = "err"
      <4>1. request.cmd \in {"READ", "GETTRIG"}
        BY <1>1, <2>3, <3>2 DEF Result, Long
      <4>2. out \in Replies(request)
        BY <1>0, <2>1, <2>3, <3>2, <4>1, RepliesAre DEF Ok
      <4> QED
        BY <1>3, <4>2
    <3> QED
      BY <1>0, <3>1, <3>2
  <2>4. CASE Ok /\ request.cmd = "READBUF"
    <3>1. res.val = "ok" /\ Data(request.count) \in Replies(request)
      BY <1>0, <1>1, <2>4, RepliesAre DEF Result, Long, Ok
    <3> QED
      BY <1>0, <2>1, <3>1, OkBegins, BeginsWell
  <2>5. CASE Ok /\ request.cmd = "WRITEBUF"
    <3>1. res.val = "ok" /\ <<"ok", "nl", "ok", "nl">> \in Replies(request)
      BY <1>0, <1>1, <2>5, RepliesAre DEF Result, Done, Ok
    <3> QED
      BY <1>2, <2>1, <3>1, PairBegins, BeginsWell
  <2>6. Ok => request.cmd \notin {"EXIT", "VERSION"}
    BY <1>1, <1>6 DEF Result, ValueSent
  <2> QED
    BY <1>0, <2>2, <2>3, <2>4, <2>5, <2>6 DEF Cmds, BufferCmds
<1>7. CASE ~Second /\ TextSent
  <2>1. Ok /\ request.cmd \in {"PRINT", "VERSION", "READ", "GETTRIG", "READBUF"} /\ res.buf.idx = 1
    BY <1>7 DEF TextSent, HasText
  <2>2. CASE request.cmd = "VERSION"
    <3>1. out = <<"text", "nl">> /\ out \in Replies(request)
      BY <1>0, <1>1, <1>7, <2>1, <2>2, RepliesAre DEF Result, Said, ValueSent, Ok
    <3> QED
      BY <1>3, <3>1
  <2>3. CASE request.cmd # "VERSION"
    <3>1. Long
      BY <1>1, <2>1, <2>3 DEF Result, Failed, Buff
    <3>2. out = <<"ok", "nl", "text", "nl">>
      BY <1>1, <1>7, <3>1 DEF Said, Long
    <3>3. CASE request.cmd = "READBUF"
      <4>1. Data(request.count) \in Replies(request) /\ out = Data(0) /\ 0 <= request.count
        BY <1>0, <2>1, <3>2, <3>3, RepliesAre, DataZero DEF Ok
      <4> QED
        BY <1>0, <4>1, DataBegins, BeginsWell
    <3>4. CASE request.cmd # "READBUF"
      <4>1. out \in Replies(request)
        BY <1>0, <2>1, <2>3, <3>2, <3>4, RepliesAre DEF Ok
      <4> QED
        BY <1>3, <4>1
    <3> QED
      BY <3>3, <3>4
  <2> QED
    BY <2>2, <2>3
<1> QED
  BY <1>4, <1>5, <1>6, <1>7

\* At every moment of a command, what was sent is the beginning of a reply.
LEMMA AlwaysWell ==
  ASSUME ReplyInv PROVE ReplyWellFormed
<1>0. /\ request \in Units /\ request.count \in Nat /\ cmd_data.count \in Nat
      /\ nb_buf.len \in Nat /\ nb_buf.idx \in Nat /\ out \in Seq(Words)
  BY DEF ReplyInv, TypeInv, TypeOK, Units, CmdData, Words
<1>1. CASE state \in {"RUNNING_CMD", "READING_WRITE_DATA"}
  <2>1. PICK r \in Replies(request) : r \in Seq(Words)
    BY <1>0, RepliesAre
  <2> QED
    BY <1>1, <2>1, EmptyBegins, BeginsWell DEF ReplyInv, Fresh
<1>2. CASE state = "RW_BUF"
  <2>0. Cursors /\ Transferring
    BY DEF ReplyInv, TypeInv
  <2>1. CASE ~Ok
    <3>1. out \in Replies(request)
      BY <1>0, <1>2, <2>0, <2>1, RepliesAre DEF Transferring, Ok, Refused
    <3> QED
      BY <1>0, <3>1, ItselfBegins, BeginsWell
  <2>2. CASE Ok /\ request.cmd = "WRITEBUF"
    <3>1. out = <<"ok", "nl">> /\ <<"ok", "nl", "ok", "nl">> \in Replies(request)
      BY <1>0, <1>2, <2>0, <2>2, RepliesAre DEF Transferring, Ok, Accepted
    <3>2. "ok" \in Words /\ "nl" \in Words
      BY DEF Words
    <3> QED
      BY <3>1, <3>2, PairBegins, BeginsWell
  <2>3. CASE Ok /\ request.cmd = "READBUF"
    <3>1. PICK m \in Nat : m <= request.count /\ out = Data(m)
      <4>1. CASE setup.network
        BY <1>0, <1>2, <2>0, <2>3, <4>1 DEF Transferring, Cursors
      <4>2. CASE ~setup.network
        <5>1. PICK x : x = IF nb_buf.len = 0 THEN 0 ELSE nb_buf.idx
          OBVIOUS
        <5>2. x \in Nat /\ x <= cmd_data.count /\ cmd_data.count <= request.count
          BY <1>0, <1>2, <2>0, <2>3, <5>1 DEF Transferring, Cursors
        <5>3. out = Data(request.count - cmd_data.count + x)
          BY <1>2, <2>0, <2>3, <4>2, <5>1 DEF Transferring
        <5> QED
          BY <1>0, <5>2, <5>3
      <4> QED
        BY <4>1, <4>2
    <3>2. Data(request.count) \in Replies(request)
      BY <1>0, <2>3, RepliesAre DEF Ok
    <3> QED
      BY <1>0, <3>1, <3>2, DataBegins, BeginsWell
  <2> QED
    BY <1>2, <2>0, <2>1, <2>2, <2>3 DEF Transferring, Cursors, BufferCmds
<1>3. CASE state = "PUSH_CYCLIC_BUFFER"
  BY <1>0, <1>3, ItselfBegins, BeginsWell DEF ReplyInv, Repeating
<1>4. CASE state = "READING_LINE"
  BY <1>4 DEF ReplyInv, Concluded
<1> QED
  BY <1>1, <1>2, <1>3, <1>4, AnsweringWell DEF ReplyInv, TypeInv, TypeOK

\* When IIOD_WRITING_CMD_RESULT is left, its part of the reply is complete.
LEMMA ResultDone ==
  ASSUME ReplyInv, state = "WRITING_CMD_RESULT", ValueDone, ~TextPending
  PROVE  /\ cmd_data.cmd \notin BufferCmds => out \in Replies(request)
         /\ res.buf.idx = res.buf.len
         /\ cmd_data.cmd \in BufferCmds =>
              /\ ~Ok => cmd_data.count = 0 /\ out = Refused
              /\ Ok => cmd_data.cmd = request.cmd /\ cmd_data.count = request.count
              /\ Ok /\ request.cmd = "WRITEBUF" => out = Accepted
              /\ Ok /\ request.cmd = "READBUF" => out = Data(0)
<1>0. /\ request \in Units /\ res.val \in {"ok", "err"} /\ request.cmd \in Cmds
      /\ res.write_val \in BOOLEAN /\ res.buf.len \in {0, 1} /\ res.buf.idx \in {0, 1}
  BY DEF ReplyInv, TypeInv, TypeOK, Units
<1>1. Result /\ Said
  BY DEF ReplyInv, Answering
<1>2. res.write_val => ValueSent
  BY <1>0, <1>1 DEF ValueDone, ValuePending, ValueSent, Result
<1>3. res.buf.len = 1 => res.buf.idx = 1
  BY <1>0 DEF TextPending
<1>4. CASE ~Ok
  <2>1. Failed /\ ~TextSent /\ ~Second
    BY <1>1, <1>4 DEF Result, TextSent, HasText, Second
  <2>2. out = <<"err", "nl">> /\ out \in Replies(request) /\ res.buf.idx = res.buf.len
    BY <1>0, <1>1, <1>2, <1>4, <2>1, RepliesAre DEF Said, Failed, Ok, Buff
  <2> QED
    BY <1>1, <1>4, <2>1, <2>2 DEF Refused, Result
<1>5. CASE Second
  <2>1. Done /\ ~TextSent
    BY <1>1, <1>5 DEF Result, TextSent, HasText, Second
  <2>a. out = <<"ok", "nl", "ok", "nl">>
    BY <1>1, <1>2, <1>5, <2>1 DEF Said, Done
  <2>b. <<"ok", "nl", "ok", "nl">> \in Replies(request)
    BY <1>0, <1>5, RepliesAre DEF Second, Ok
  <2>2. out \in Replies(request) /\ res.buf.idx = res.buf.len
    BY <2>1, <2>a, <2>b DEF Done, Buff
  <2> QED
    BY <1>5, <2>2 DEF BufferCmds, Second
<1>6. CASE Ok /\ ~Second /\ request.cmd \in SimpleCmds \union {"WRITE"}
  <2>1. Plain /\ ~TextSent
    BY <1>1, <1>6 DEF Result, TextSent, HasText, SimpleCmds
  <2>2. out \in Replies(request) /\ res.buf.idx = res.buf.len
    BY <1>0, <1>1, <1>2, <1>6, <2>1, RepliesAre DEF Said, Plain, Ok
  <2> QED
    BY <1>1, <1>6, <2>2 DEF BufferCmds, Result, SimpleCmds
<1>7. CASE Ok /\ ~Second /\ request.cmd = "VERSION"
  <2>1. TextSent /\ ~ValueSent /\ res.buf.len = 1
    BY <1>0, <1>1, <1>3, <1>7 DEF Result, TextSent, HasText, ValueSent
  <2>2. out \in Replies(request) /\ res.buf.idx = res.buf.len
    BY <1>0, <1>1, <1>3, <1>7, <2>1, RepliesAre DEF Said, Ok
  <2> QED
    BY <1>1, <1>7, <2>2 DEF BufferCmds, Result
<1>8. CASE Ok /\ ~Second /\ request.cmd \in {"PRINT", "READ", "GETTRIG", "READBUF"}
  <2>1. CASE Failed
    <3>1. ~TextSent /\ request.cmd \in {"READ", "GETTRIG"}
      BY <1>1, <1>8, <2>1 DEF Result, Failed, TextSent, Buff, Long
    <3>2. out \in Replies(request) /\ res.buf.idx = res.buf.len
      BY <1>0, <1>1, <1>2, <1>8, <2>1, <3>1, RepliesAre DEF Said, Failed, Ok, Buff
    <3> QED
      BY <1>1, <1>8, <3>1, <3>2 DEF BufferCmds, Result
  <2>2. CASE Long
    <3>1. TextSent /\ ValueSent /\ res.buf.idx = res.buf.len
      BY <1>1, <1>2, <1>3, <1>8, <2>2 DEF Long, TextSent, HasText
    <3>2. out = <<"ok", "nl", "text", "nl">>
      BY <1>1, <3>1 DEF Said
    <3>3. request.cmd # "READBUF" => out \in Replies(request)
      BY <1>0, <1>8, <3>2, RepliesAre DEF Ok
    <3>4. cmd_data.cmd = request.cmd /\ cmd_data.count = request.count
      BY <1>1, <1>8 DEF Result
    <3> QED
      BY <1>8, <3>1, <3>2, <3>3, <3>4, DataZero DEF BufferCmds
  <2> QED
    BY <1>1, <1>8, <2>1, <2>2 DEF Result
<1>9. CASE Ok /\ ~Second /\ request.cmd = "WRITEBUF"
  <2>1. Done /\ ~TextSent /\ cmd_data.cmd = request.cmd /\ cmd_data.count = request.count
    BY <1>1, <1>9 DEF Result, TextSent, HasText
  <2>2. out = <<"ok", "nl">> /\ res.buf.idx = res.buf.len
    BY <1>1, <1>2, <1>9, <2>1 DEF Said, Done, Buff
  <2> QED
    BY <1>9, <2>1, <2>2 DEF BufferCmds, Accepted
<1>10. Ok => request.cmd # "EXIT"
  BY <1>1 DEF Result
<1> QED
  BY <1>0, <1>4, <1>5, <1>6, <1>7, <1>8, <1>9, <1>10 DEF Cmds, BufferCmds

-----------------------------------------------------------------------------
(* ReplyWellFormed and ReplyComplete: steps *)

Stages == Fresh /\ Answering /\ Transferring /\ Repeating /\ Concluded

\* A command that fails or is broken off.
LEMMA CleanWell ==
  ASSUME ReplyInv, NEW result, Clean(result), UNCHANGED <<setup, request, out>>,
         result # "done" \/ "push" \in setup.dev_fails
  PROVE  Stages'
<1>1. ReplyWellFormed'
  <2>1. ReplyWellFormed
    BY AlwaysWell
  <2> QED
    BY <2>1 DEF ReplyWellFormed
<1>2. ReplyComplete'
  BY DEF ReplyComplete, CompleteReply, Clean
<1>3. state' = "READING_LINE"
  BY DEF Clean
<1> QED
  BY <1>1, <1>2, <1>3 DEF Stages, Fresh, Answering, Transferring, Repeating, Concluded

\* A command that is done.
LEMMA CleanDone ==
  ASSUME state' = "READING_LINE", request' \in Units, out' \in Replies(request')
  PROVE  Stages'
<1>1. PICK r, u : r = out' /\ u = request'
  OBVIOUS
<1>2. r \in Replies(u) /\ r \in Seq(Words)
  BY <1>1, RepliesAre
<1>3. Begins(r, r)
  BY <1>2, ItselfBegins
<1>4. ReplyWellFormed'
  BY <1>1, <1>2, <1>3 DEF ReplyWellFormed, Begins
<1>5. ReplyComplete'
  BY DEF ReplyComplete, CompleteReply
<1> QED
  BY <1>4, <1>5 DEF Stages, Fresh, Answering, Transferring, Repeating, Concluded

\* Steps that touch nothing a reply depends on.
LEMMA SameStages ==
  ASSUME ReplyInv, UNCHANGED <<setup, state, cmd_data, res, nb_buf, request, out>>,
         ret' # "done" \/ ret' = ret
  PROVE  Stages'
<1>1. Fresh' /\ Answering'
  BY DEF ReplyInv, Fresh, Answering, Result, Said, Ok, Second, Plain, Failed, Done, Long, HasText,
         ValueSent, TextSent
<1>2. Transferring' /\ Repeating'
  BY DEF ReplyInv, Transferring, Repeating, Ok
<1>3. Concluded'
  BY DEF ReplyInv, Concluded, ReplyWellFormed, ReplyComplete, CompleteReply
<1> QED
  BY <1>1, <1>2, <1>3 DEF Stages

LEMMA EnvStages ==
  ASSUME ReplyInv, Client \/ Device \/ ConnStep \/ ConnAdd \/ UNCHANGED vars PROVE Stages'
<1>1. UNCHANGED <<setup, state, cmd_data, res, nb_buf, request, out>>
      /\ (ret' # "done" \/ ret' = ret)
  BY DEF Client, ClientSend, ClientByte, ClientGone, Device, DeviceFills, DeviceDrains, ConnStep,
         ConnAdd, vars, conn, call, client, device, history, env
<1> QED
  BY <1>1, SameStages

LEMMA GoneStages ==
  ASSUME ReplyInv, Gone PROVE Stages'
  BY CleanWell DEF Gone, history, env

LEMMA ReadingStages ==
  ASSUME ReplyInv, Reading PROVE Stages'
<1> USE DEF conn, call, client, device, history, env
<1>1. CASE ReadLineAgain
  BY <1>1, SameStages DEF ReadLineAgain, Again
<1>2. CASE ReadLineByte
  BY <1>2, SameStages DEF ReadLineByte
<1>3. CASE ReadLineTooLong
  BY <1>3, CleanWell DEF ReadLineTooLong
<1>4. CASE ReadLine
  <2>1. PICK unit : unit = Head(inp)
    OBVIOUS
  <2>2. unit \in Units /\ parsing \in BOOLEAN
    BY <1>4, <2>1, InpHead DEF ReadLine, ReplyInv, TypeInv, TypeOK
  <2>3. cmd_data = NoCmd /\ res = NoResult /\ nb_buf = Buff(0, 0)
    BY <1>4 DEF ReadLine, ReplyInv, AtRest
  <2>4. out' = <<>> /\ cmd_data' = Parsed(unit)
    BY <1>4, <2>1 DEF ReadLine
  <2>5. CASE unit.kind = "line" /\ ~parsing
    <3>1. /\ request' = unit /\ res' = NoResult /\ (unit.cmd # "WRITE" => nb_buf' = nb_buf)
          /\ state' = IF unit.cmd = "WRITE" THEN "READING_WRITE_DATA" ELSE "RUNNING_CMD"
      BY <1>4, <2>1, <2>3, <2>5 DEF ReadLine, Go, AfterParse
    <3>2. cmd_data'.cmd = unit.cmd /\ cmd_data'.count = unit.count
      BY <2>4, <2>5 DEF Parsed, Unknown
    <3>3. Fresh'
      BY <2>3, <2>4, <2>5, <3>1, <3>2 DEF Fresh, Ok, NoResult, Buff
    <3> QED
      BY <3>1, <3>3 DEF Stages, Answering, Transferring, Repeating, Concluded
  <2>6. CASE ~(unit.kind = "line" /\ ~parsing)
    <3>1. /\ request' = [unit EXCEPT !.kind = "bad"] /\ res' = Value("err")
          /\ state' = "WRITING_CMD_RESULT" /\ nb_buf' = Buff(0, 0)
      BY <1>4, <2>1, <2>3, <2>6 DEF ReadLine, Go, AfterParse
    <3>2. cmd_data'.count = 0
      BY <2>3, <2>4, <2>6 DEF Parsed, Unknown, NoCmd
    <3>3. res'.write_val /\ res'.val = "err" /\ res'.buf = Buff(0, 0)
      BY <2>3, <3>1, ValueTypes DEF ReplyInv, NoResult
    <3>4. ~Ok'
      BY <2>2, <3>1 DEF Ok, Units
    <3>5. Result'
      BY <3>1, <3>2, <3>3, <3>4 DEF Result, Failed, Second, Buff
    <3>6. Said'
      BY <2>4, <3>1, <3>4 DEF Said, ValueSent, TextSent, HasText, Second, Buff
    <3> QED
      BY <3>1, <3>5, <3>6 DEF Stages, Fresh, Answering, Transferring, Repeating, Concluded
  <2> QED
    BY <2>5, <2>6
<1>5. CASE ReadWriteData
  <2>1. Fresh /\ state = "READING_WRITE_DATA" /\ state' \in {"READING_WRITE_DATA", "RUNNING_CMD"}
    BY <1>5 DEF ReadWriteData, Go, Again, ReplyInv
  <2>2. UNCHANGED <<cmd_data, res, request, out>>
    BY <1>5 DEF ReadWriteData
  <2>3. Fresh'
    BY <2>1, <2>2 DEF Fresh, Ok
  <2> QED
    BY <2>1, <2>3 DEF Stages, Answering, Transferring, Repeating, Concluded
<1> QED
  BY <1>1, <1>2, <1>3, <1>4, <1>5 DEF Reading

LEMMA RunningStages ==
  ASSUME Replying, ReplyInv, Running PROVE Stages'
<1> USE DEF conn, call, client, device, history, env
<1>1. CASE RunExit
  BY <1>1, GoneStages DEF RunExit
<1>2. CASE RunSimple \/ RunText \/ RunWrite
  <2>1. /\ Ok /\ cmd_data.cmd = request.cmd /\ cmd_data.count = request.count /\ out = <<>>
        /\ cmd_data.cmd # "WRITE" => nb_buf.len = 0
        /\ IF cmd_data.cmd = "CLOSE" THEN res.buf.idx = res.buf.len ELSE res = NoResult
    BY <1>2 DEF RunSimple, RunText, RunWrite, ReplyInv, Fresh
  <2>2. state' = "WRITING_CMD_RESULT" /\ UNCHANGED <<cmd_data, request, out>>
    BY <1>2 DEF RunSimple, RunText, RunWrite, Go
  <2>3. nb_buf'.len = 0
    BY <1>2, <2>1 DEF RunSimple, RunText, RunWrite, Buff, SimpleCmds
  <2>4. Ok' /\ ~Second' /\ request'.cmd = cmd_data.cmd /\ request'.count = cmd_data'.count
        /\ cmd_data'.cmd = request'.cmd
    BY <2>1, <2>2 DEF Ok, Second
  <2>5. setup \in Setups /\ "refill" \notin setup.dev_fails
    BY DEF Replying, ReplyInv, TypeInv, TypeOK
  <2>6. /\ cmd_data.cmd \in SimpleCmds \union {"WRITE"} => Plain'
        /\ cmd_data.cmd = "PRINT" => Long'
        /\ cmd_data.cmd = "VERSION" => ~res'.write_val /\ res'.buf.len = 1
        /\ cmd_data.cmd \in {"READ", "GETTRIG"} => Long' \/ Failed'
        /\ cmd_data.cmd = "READBUF" => Long'
        /\ cmd_data.cmd = "WRITEBUF" => Done'
        /\ cmd_data.cmd # "EXIT"
        /\ cmd_data.cmd \notin SimpleCmds \union {"WRITE"} => res'.buf.idx = 0
    <3>0. NoResult.buf = Buff(0, 0) /\ ~NoResult.write_val /\ Buff(0, 0).idx = 0
          /\ Buff(0, 0).len = 0
      BY DEF NoResult, Buff
    <3>1. CASE RunSimple
      <4>1. PICK val \in {"ok", "err"} : res' = Value(val)
        BY <3>1 DEF RunSimple
      <4>a. Value(val).write_val /\ Value(val).buf = res.buf
        BY ValueTypes DEF ReplyInv
      <4>b. res.buf.idx = res.buf.len
        BY <2>1, <3>0
      <4>2. Plain'
        BY <4>1, <4>a, <4>b DEF Plain
      <4> QED
        BY <3>1, <4>2 DEF RunSimple, SimpleCmds
    <3>2. CASE RunWrite
      <4>1. /\ res' = Value("ok") \/ (cmd_data.cmd = "WRITE" /\ res' = Value("err"))
            /\ cmd_data.cmd \in {"WRITE", "WRITEBUF"} /\ res = NoResult
        BY <2>1, <3>2 DEF RunWrite
      <4>2. res'.write_val /\ res'.buf = Buff(0, 0) /\ (cmd_data.cmd = "WRITEBUF" => res'.val = "ok")
        BY <3>0, <4>1, ValueTypes DEF ReplyInv
      <4> QED
        BY <3>0, <4>1, <4>2 DEF Plain, Done, SimpleCmds
    <3>3. CASE RunText
      <4>1. cmd_data.cmd \in {"VERSION", "PRINT", "READ", "GETTRIG", "READBUF"} /\ res = NoResult
        BY <2>1, <3>3 DEF RunText
      <4>2. CASE cmd_data.cmd = "VERSION"
        <5>1. res' = Text(res)
          BY <3>3, <4>2 DEF RunText
        <5>2. ~res'.write_val /\ res'.buf.len = 1 /\ res'.buf.idx = 0
          BY <3>0, <4>1, <5>1, TextTypes, NoCmdTypes
        <5> QED
          BY <4>2, <5>2 DEF SimpleCmds
      <4>3. CASE res' = Text(Value("ok")) /\ cmd_data.cmd # "VERSION"
        <5>0. PICK r : r = Value("ok")
          OBVIOUS
        <5>a. /\ r \in [write_val : BOOLEAN, val : {"ok", "err"},
                         buf : [len : {0, 1}, idx : {0, 1}]]
              /\ r.write_val /\ r.val = "ok" /\ r.buf.idx = 0
          BY <3>0, <4>1, <5>0, ValueTypes DEF ReplyInv
        <5>b. /\ Text(r).write_val /\ Text(r).val = "ok" /\ Text(r).buf.len = 1
              /\ Text(r).buf.idx = 0
          BY <5>a, TextTypes
        <5>1. Long' /\ res'.buf.idx = 0
          BY <4>3, <5>0, <5>b DEF Long
        <5> QED
          BY <4>1, <4>3, <5>1 DEF SimpleCmds
      <4>4. CASE res' = Value("err") /\ cmd_data.cmd \in {"READ", "GETTRIG"}
        <5>1. Failed' /\ res'.buf.idx = 0
          BY <3>0, <4>1, <4>4, ValueTypes DEF Failed, ReplyInv
        <5> QED
          BY <4>1, <4>4, <5>1 DEF SimpleCmds
      <4> QED
        BY <2>5, <3>3, <4>2, <4>3, <4>4 DEF RunText
    <3> QED
      BY <1>2, <3>1, <3>2, <3>3
  <2>7. Result'
    BY <2>3, <2>4, <2>6 DEF Result
  <2>8. ~ValueSent' /\ ~TextSent'
    BY <2>3, <2>4, <2>6 DEF ValueSent, TextSent, HasText, SimpleCmds
  <2>9. Said'
    BY <2>1, <2>2, <2>4, <2>8 DEF Said
  <2> QED
    BY <2>2, <2>7, <2>9 DEF Stages, Fresh, Answering, Transferring, Repeating, Concluded
<1> QED
  BY <1>1, <1>2 DEF Running

LEMMA WritingStages ==
  ASSUME Replying, ReplyInv, Writing PROVE Stages'
<1> USE DEF conn, call, client, device, history, env
<1>0. /\ state = "WRITING_CMD_RESULT" /\ Result /\ Said /\ request \in Units
      /\ ~setup.newline_short /\ out \in Seq(Words)
      /\ nb_buf \in [len : Nat, idx : Nat] /\ res.val \in {"ok", "err"}
      /\ res.buf.len \in {0, 1} /\ res.buf.idx \in {0, 1} /\ res.write_val \in BOOLEAN
  BY DEF Writing, FormatResult, SendValue, SendText, ResultSent, ReplyInv, Answering, TypeInv,
         TypeOK, Replying, Words
<1>w. "ok" \in Words /\ "nl" \in Words /\ "text" \in Words /\ "err" \in Words
  BY DEF Words
<1>1. CASE FormatResult
  <2>1. /\ state' = state /\ UNCHANGED <<cmd_data, res, request, out>> /\ nb_buf' = Buff(1, 0)
        /\ res.write_val /\ nb_buf.len = 0
    BY <1>1 DEF FormatResult
  <2>2. Result'
    BY <1>0, <2>1 DEF Result, Ok, Second, Plain, Failed, Done, Long, Buff
  <2>3. ~ValueSent /\ ~TextSent /\ ~ValueSent' /\ ~TextSent'
    BY <1>0, <2>1 DEF Said, ValueSent, TextSent, HasText, Ok, Buff
  <2>4. Said'
    BY <1>0, <2>1, <2>3 DEF Said, Second, Ok
  <2> QED
    BY <1>0, <2>1, <2>2, <2>4 DEF Stages, Fresh, Answering, Transferring, Repeating, Concluded
<1>2. CASE SendValue
  <2>1. PICK o \in WrOutcomes(nb_buf, 1) :
          /\ Sent(nb_buf, 1, o, res.val) /\ nb_buf' = Buff(nb_buf.len, nb_buf.idx + o.n)
    BY <1>2 DEF SendValue
  <2>2. nb_buf.len = 1 /\ nb_buf.idx = 0 /\ res.write_val
    BY <1>0, <1>2 DEF SendValue, ValuePending, Result
  <2>3. ~ValueSent /\ ~TextSent
    BY <1>0, <2>2 DEF Said, ValueSent
  <2>4. state' = state /\ UNCHANGED <<cmd_data, res, request>>
    BY <1>2, <2>1 DEF SendValue, Go, Again, Sent
  <2>5. out = IF Second THEN <<"ok", "nl">> ELSE <<>>
    BY <1>0, <2>3 DEF Said
  <2>6. Second => res.val = "ok"
    BY <1>0 DEF Result, Second, Done
  <2>7. nb_buf'.len = 1 /\ nb_buf'.idx = o.n
    <3>1. o.n \in Nat
      BY DEF WrOutcomes, Unsent
    <3> QED
      BY <2>1, <2>2, <3>1 DEF Buff
  <2>8. ~TextSent' /\ Second' = Second
    BY <2>3, <2>4 DEF TextSent, HasText, Ok, Second
  <2>9. CASE out' = out /\ o.n = 0
    <3>1. ~ValueSent'
      BY <2>7, <2>9 DEF ValueSent
    <3>2. Said'
      BY <2>5, <2>8, <2>9, <3>1 DEF Said
    <3>3. Result'
      BY <1>0, <2>4, <2>7, <2>8, <2>9 DEF Result, Ok, Second, Plain, Failed, Done, Long
    <3> QED
      BY <1>0, <2>4, <3>2, <3>3 DEF Stages, Fresh, Answering, Transferring, Repeating, Concluded
  <2>10. CASE /\ o.n = 1
              /\ out = <<>> => out' = <<res.val, "nl">>
              /\ \A x, y \in Words : out = <<x, y>> => out' = <<x, y, res.val, "nl">>
    <3>1. ValueSent'
      BY <2>2, <2>4, <2>7, <2>10 DEF ValueSent
    <3>2. out' = IF Second THEN <<"ok", "nl", "ok", "nl">> ELSE <<res.val, "nl">>
      BY <1>w, <2>5, <2>6, <2>10
    <3>3. Said'
      BY <2>4, <2>8, <3>1, <3>2 DEF Said
    <3>4. Result'
      BY <1>0, <2>4, <2>7, <2>8, <2>10 DEF Result, Ok, Second, Plain, Failed, Done, Long
    <3> QED
      BY <1>0, <2>4, <3>3, <3>4 DEF Stages, Fresh, Answering, Transferring, Repeating, Concluded
  <2>11. res.val \in Words
    BY <1>0, <1>w
  <2> QED
    BY <1>0, <2>1, <2>2, <2>9, <2>10, <2>11, LineSent
<1>3. CASE SendText
  <2>1. PICK o \in WrOutcomes(res.buf, 1) :
          /\ Sent(res.buf, 1, o, "text")
          /\ res' = [res EXCEPT !.buf = Buff(res.buf.len, res.buf.idx + o.n)]
    BY <1>3 DEF SendText
  <2>2. res.buf \in [len : {0, 1}, idx : {0, 1}] /\ res.buf.len = 1 /\ res.buf.idx = 0
        /\ res \in [write_val : BOOLEAN, val : {"ok", "err"},
                    buf : [len : {0, 1}, idx : {0, 1}]]
    BY <1>0, <1>3 DEF SendText, TextPending, ReplyInv, TypeInv, TypeOK
  <2>3. ~TextSent /\ (res.write_val => ValueSent)
    BY <1>0, <1>3, <2>2 DEF SendText, ValueDone, ValuePending, ValueSent, TextSent, Result
  <2>4. HasText /\ ~Second /\ (res.write_val => res.val = "ok")
    <3>1. Ok
      BY <1>0, <2>2 DEF Result, Failed, Buff
    <3>2. request.cmd \notin SimpleCmds \union {"WRITE", "WRITEBUF", "EXIT"} /\ ~Failed
      BY <1>0, <2>2, <3>1 DEF Result, Plain, Done, Buff, Failed
    <3>3. HasText
      BY <1>0, <3>1, <3>2 DEF HasText, Units, Cmds, BufferCmds
    <3>4. res.write_val => res.val = "ok"
      BY <1>0, <3>2, <3>3 DEF Result, HasText, Long
    <3> QED
      BY <3>2, <3>3, <3>4 DEF Second
  <2>5. out = IF res.write_val THEN <<"ok", "nl">> ELSE <<>>
    BY <1>0, <2>3, <2>4 DEF Said, ValueSent
  <2>6. state' = state /\ UNCHANGED <<cmd_data, nb_buf, request>>
    BY <1>3, <2>1 DEF SendText, Go, Again, Sent
  <2>7. /\ res'.buf.len = 1 /\ res'.buf.idx = o.n /\ res'.val = res.val
        /\ res'.write_val = res.write_val
    <3>1. o.n \in Nat
      BY DEF WrOutcomes, Unsent
    <3> QED
      BY <2>1, <2>2, <3>1 DEF Buff
  <2>8. HasText' /\ ~Second' /\ ValueSent' = ValueSent /\ Ok' = Ok
    BY <2>4, <2>6, <2>7 DEF HasText, Ok, Second, ValueSent
  <2>9. Result'
    <3>1. ~Failed /\ Ok /\ cmd_data.cmd = request.cmd
      BY <1>0, <2>2, <2>4 DEF Failed, Buff, HasText, Result, Second
    <3>2. Long => Long'
      BY <2>7 DEF Long
    <3> QED
      BY <1>0, <2>4, <2>6, <2>7, <2>8, <3>1, <3>2 DEF Result, HasText, SimpleCmds
  <2>10. CASE out' = out /\ o.n = 0
    <3>1. ~TextSent' /\ (res'.write_val => ValueSent')
      BY <2>3, <2>7, <2>8, <2>10 DEF TextSent
    <3>2. Said'
      BY <2>4, <2>5, <2>7, <2>8, <2>10, <3>1 DEF Said, ValueSent
    <3> QED
      BY <1>0, <2>6, <2>9, <3>2 DEF Stages, Fresh, Answering, Transferring, Repeating, Concluded
  <2>11. CASE /\ o.n = 1
              /\ out = <<>> => out' = <<"text", "nl">>
              /\ \A x, y \in Words : out = <<x, y>> => out' = <<x, y, "text", "nl">>
    <3>1. TextSent' /\ (res'.write_val <=> ValueSent')
      BY <2>3, <2>7, <2>8, <2>11 DEF TextSent, ValueSent
    <3>2. out' = IF res.write_val THEN <<"ok", "nl", "text", "nl">> ELSE <<"text", "nl">>
      BY <1>w, <2>5, <2>11
    <3>3. Said'
      BY <2>7, <2>8, <3>1, <3>2 DEF Said
    <3> QED
      BY <1>0, <2>6, <2>9, <3>3 DEF Stages, Fresh, Answering, Transferring, Repeating, Concluded
  <2>12. res.buf \in [len : Nat, idx : Nat]
    BY <2>2
  <2> QED
    BY <1>0, <1>w, <2>1, <2>2, <2>10, <2>11, <2>12, LineSent
<1>4. CASE ResultSent
  <2>1. /\ cmd_data.cmd \notin BufferCmds => out \in Replies(request)
        /\ res.buf.idx = res.buf.len
        /\ cmd_data.cmd \in BufferCmds =>
              /\ ~Ok => cmd_data.count = 0 /\ out = Refused
              /\ Ok => cmd_data.cmd = request.cmd /\ cmd_data.count = request.count
              /\ Ok /\ request.cmd = "WRITEBUF" => out = Accepted
              /\ Ok /\ request.cmd = "READBUF" => out = Data(0)
    BY <1>0, <1>4, ResultDone DEF ResultSent
  <2>2. UNCHANGED <<setup, request, out>>
    BY <1>4 DEF ResultSent
  <2> HIDE DEF Data
  <2>3. CASE state' = "RW_BUF" /\ cmd_data.cmd \in BufferCmds /\ nb_buf' = Buff(0, 0)
             /\ UNCHANGED cmd_data
    <3>1. request.count \in Nat /\ nb_buf'.len = 0 /\ nb_buf'.idx = 0
      BY <1>0, <2>3 DEF Units, Buff
    <3>2. request.count - request.count + 0 = 0
      BY <3>1
    <3>3. Transferring'
      BY <2>1, <2>2, <2>3, <3>1, <3>2 DEF Transferring, Ok
    <3> QED
      BY <2>3, <3>3 DEF Stages, Fresh, Answering, Repeating, Concluded
  <2>4. CASE state' = "PUSH_CYCLIC_BUFFER" /\ cmd_data.cmd \notin BufferCmds /\ UNCHANGED res
    BY <2>1, <2>2, <2>4 DEF Stages, Fresh, Answering, Transferring, Repeating, Concluded
  <2>5. CASE state' = "READING_LINE" /\ cmd_data.cmd \notin BufferCmds
    BY <1>0, <2>1, <2>2, <2>5, CleanDone
  <2> QED
    BY <1>4, <2>3, <2>4, <2>5 DEF ResultSent, Go, Clean
<1> QED
  BY <1>1, <1>2, <1>3, <1>4 DEF Writing

LEMMA ReadBufStages ==
  ASSUME ReplyInv,
         ReadBufAgain \/ ReadBufFails \/ ReadBufFetch \/ ReadBufSend \/ ReadBufDelayed
  PROVE  Stages'
<1> USE DEF conn, call, client, device, history, env
<1>0. /\ state = "RW_BUF" /\ cmd_data.cmd = "READBUF" /\ Transferring /\ TypeInv /\ Cursors
      /\ request \in Units /\ request.count \in Nat /\ cmd_data.count \in Nat
      /\ nb_buf \in [len : Nat, idx : Nat] /\ nb_buf.len \in Nat /\ nb_buf.idx \in Nat
      /\ cmd_data \in CmdData
  BY DEF ReadBufAgain, ReadBufFails, ReadBufFetch, ReadBufSend, ReadBufDelayed, Fetching, ReadBuf,
         ReplyInv, TypeInv, TypeOK, Units, CmdData
<1>s. state' = "RW_BUF" /\ Transferring' => Stages'
  BY DEF Stages, Fresh, Answering, Repeating, Concluded
<1> HIDE DEF Data
<1>1. CASE ReadBufAgain
  BY <1>1, SameStages DEF ReadBufAgain, Again
<1>2. CASE ReadBufFails
  BY <1>2, CleanWell DEF ReadBufFails
<1>d. nb_buf.len > 0 \/ cmd_data.count > 0 => Ok /\ request.cmd = "READBUF"
  BY <1>0 DEF Transferring, Cursors
<1>3. CASE ReadBufFetch
  <2>1. /\ Readable(Wanted) \in Nat /\ nb_buf.len = 0 /\ ~setup.network /\ setup' = setup
        /\ UNCHANGED <<state, cmd_data, request, out>>
    BY <1>0, <1>3, WantedFacts DEF ReadBufFetch
  <2>2. nb_buf' = Buff(Readable(Wanted), 0) /\ nb_buf'.idx = 0
    BY <1>3 DEF ReadBufFetch, Buff
  <2>3. Transferring'
    BY <1>0, <2>1, <2>2 DEF Transferring, Ok
  <2> QED
    BY <1>0, <1>s, <2>1, <2>3
<1>4. CASE ReadBufSend
  <2>1. PICK o \in WrOutcomes(nb_buf, 0) :
          /\ Sent(nb_buf, 0, o, "data")
          /\ IF ~Complete(nb_buf, 0, o)
             THEN /\ Again /\ nb_buf' = Buff(nb_buf.len, nb_buf.idx + o.n)
                  /\ UNCHANGED <<cmd_data, res, parsing, is_cyclic_buffer>>
             ELSE IF MoreChunks
             THEN /\ Again /\ cmd_data' = ChunkDone /\ nb_buf' = Buff(0, nb_buf.len)
                  /\ UNCHANGED <<res, parsing, is_cyclic_buffer>>
             ELSE Clean("done")
    BY <1>4 DEF ReadBufSend
  <2>2. /\ ~setup.network /\ nb_buf.idx < nb_buf.len /\ nb_buf.len <= cmd_data.count
        /\ Ok /\ request.cmd = "READBUF" /\ cmd_data.count <= request.count
        /\ out = Data(request.count - cmd_data.count + nb_buf.idx)
    <3>1. ~setup.network /\ nb_buf.idx < nb_buf.len
      BY <1>4 DEF ReadBufSend
    <3>2. nb_buf.len > 0 /\ nb_buf.len <= cmd_data.count
      BY <1>0, <3>1 DEF Cursors
    <3> QED
      BY <1>0, <1>d, <3>1, <3>2 DEF Transferring
  <2>3. PICK k, m, l, c, q : k = o.n /\ m = q - c + nb_buf.idx /\ l = nb_buf.len
          /\ c = cmd_data.count /\ q = request.count
    OBVIOUS
  <2>4. /\ k \in Nat /\ o.nl = 0 /\ nb_buf.idx + k <= l
        /\ Complete(nb_buf, 0, o) => nb_buf.idx + k = l
    <3>1. o.n \in 0 .. Unsent(nb_buf) /\ o.nl \in 0 .. 0 /\ Unsent(nb_buf) = nb_buf.len - nb_buf.idx
      BY DEF WrOutcomes, Unsent
    <3> QED
      BY <1>0, <2>2, <2>3, <3>1 DEF Complete
  <2>5. m \in Nat /\ c <= q /\ l <= c /\ l > 0 /\ c \in Nat /\ q \in Nat /\ l \in Nat
    BY <1>0, <2>2, <2>3
  <2>6. out' = Data(m + k)
    <3>1. out = Data(m)
      BY <2>2, <2>3
    <3> QED
      BY <2>1, <2>3, <2>4, <2>5, <3>1, DataSent
  <2>7. UNCHANGED <<setup, request>>
    BY <2>1 DEF Sent
  <2>8. CASE ~Complete(nb_buf, 0, o)
    <3>1. state' = state /\ nb_buf' = Buff(nb_buf.len, nb_buf.idx + o.n) /\ UNCHANGED cmd_data
      BY <2>1, <2>8 DEF Again
    <3>2. nb_buf'.len = l /\ nb_buf'.idx = nb_buf.idx + k
      BY <2>3, <3>1 DEF Buff
    <3>3. m + k = q - c + nb_buf'.idx
      BY <1>0, <2>3, <2>4, <2>5, <3>2
    <3>4. out' = Data(q - c + nb_buf'.idx)
      BY <2>6, <3>3
    <3>5. Transferring'
      BY <1>0, <2>2, <2>3, <2>5, <2>7, <3>1, <3>2, <3>4 DEF Transferring, Ok
    <3> QED
      BY <1>0, <1>s, <3>1, <3>5
  <2>9. CASE Complete(nb_buf, 0, o) /\ MoreChunks
    <3>1. state' = state /\ nb_buf' = Buff(0, nb_buf.len) /\ cmd_data' = ChunkDone
      BY <2>1, <2>9 DEF Again
    <3>2. nb_buf'.len = 0 /\ cmd_data'.count = c - l /\ cmd_data'.cmd = "READBUF"
      BY <1>0, <2>3, <3>1 DEF Buff, ChunkDone, CmdData
    <3>3. m + k = q - (c - l) + 0 /\ c - l <= q
      BY <1>0, <2>3, <2>4, <2>5, <2>9
    <3>4. out' = Data(q - (c - l) + 0)
      BY <2>6, <3>3
    <3>5. Transferring'
      BY <2>2, <2>3, <2>7, <3>2, <3>3, <3>4 DEF Transferring, Ok
    <3> QED
      BY <1>0, <1>s, <3>1, <3>5
  <2>10. CASE Complete(nb_buf, 0, o) /\ ~MoreChunks
    <3>1. state' = "READING_LINE"
      BY <2>1, <2>10 DEF Clean
    <3>2. m + k = q
      BY <1>0, <2>3, <2>4, <2>5, <2>10 DEF MoreChunks
    <3>3. out' \in Replies(request)
      <4>1. Replies(request) = {Data(request.count), <<"err", "nl">>}
        BY <1>0, <2>2, RepliesAre DEF Ok
      <4> QED
        BY <2>3, <2>6, <3>2, <4>1
    <3> QED
      BY <1>0, <2>7, <3>1, <3>3, CleanDone
  <2> QED
    BY <2>8, <2>9, <2>10
<1>5. CASE ReadBufDelayed
  <2>0. PICK b : b = Buff(nb_buf.len + Readable(Wanted), nb_buf.idx)
    OBVIOUS
  <2>1. /\ setup.network /\ Readable(Wanted) \in Nat /\ Readable(Wanted) > 0
        /\ nb_buf.len + Readable(Wanted) <= cmd_data.count /\ nb_buf.idx <= nb_buf.len
    <3>1. setup.network /\ Fetching /\ Readable(Wanted) > 0
      BY <1>5 DEF ReadBufDelayed
    <3>2. nb_buf.idx <= nb_buf.len
      BY <1>0, <3>1 DEF Cursors
    <3>3. PICK w, n : w = Wanted /\ n = Readable(Wanted)
      OBVIOUS
    <3>4. w \in Nat /\ n \in Nat /\ n <= w /\ nb_buf.len + w <= cmd_data.count
      BY <1>0, <3>1, <3>3, WantedFacts
    <3> QED
      BY <1>0, <3>1, <3>2, <3>3, <3>4
  <2>2. Ok /\ request.cmd = "READBUF" /\ cmd_data.count = request.count /\ out = Data(nb_buf.idx)
    <3>1. cmd_data.count > 0
      BY <1>0, <2>1
    <3> QED
      BY <1>0, <1>d, <2>1, <3>1 DEF Transferring
  <2>3. b.len \in Nat /\ b.len <= cmd_data.count /\ b.idx = nb_buf.idx /\ b.idx <= b.len
        /\ b \in [len : Nat, idx : Nat]
    BY <1>0, <2>0, <2>1 DEF Buff
  <2>4. CASE /\ nb_buf' = b /\ Again /\ UNCHANGED cmd_data /\ UNCHANGED env /\ UNCHANGED history
    <3>1. state' = state /\ nb_buf'.idx = nb_buf.idx /\ UNCHANGED <<setup, cmd_data, request, out>>
      BY <2>3, <2>4 DEF Again
    <3>2. Transferring'
      BY <1>0, <2>1, <2>2, <3>1 DEF Transferring, Ok
    <3> QED
      BY <1>0, <1>s, <3>1, <3>2
  <2>5. CASE Clean("notconn") /\ UNCHANGED env /\ UNCHANGED history
    BY <2>5, CleanWell
  <2>6. ASSUME b.len = cmd_data.count, NEW o \in WrOutcomes(b, 0), Sent(b, 0, o, "data"),
               IF Complete(b, 0, o) THEN Clean("done")
               ELSE /\ Again /\ nb_buf' = Buff(b.len, b.idx + o.n) /\ UNCHANGED cmd_data
        PROVE  Stages'
    <3>1. o.n \in Nat /\ o.nl = 0 /\ (Complete(b, 0, o) => nb_buf.idx + o.n = cmd_data.count)
      <4>1. o.n \in 0 .. Unsent(b) /\ o.nl \in 0 .. 0 /\ Unsent(b) = b.len - b.idx
        BY DEF WrOutcomes, Unsent
      <4> QED
        BY <1>0, <2>3, <2>6, <4>1 DEF Complete
    <3>2. out' = Data(nb_buf.idx + o.n)
      BY <1>0, <2>2, <2>6, <3>1, DataSent
    <3>3. UNCHANGED <<setup, request>>
      BY <2>6 DEF Sent
    <3>4. CASE Complete(b, 0, o)
      <4>1. state' = "READING_LINE"
        BY <2>6, <3>4 DEF Clean
      <4>2. Replies(request) = {Data(request.count), <<"err", "nl">>}
        BY <1>0, <2>2, RepliesAre DEF Ok
      <4>3. out' \in Replies(request)
        BY <2>2, <3>1, <3>2, <3>4, <4>2
      <4> QED
        BY <1>0, <3>3, <4>1, <4>3, CleanDone
    <3>5. CASE ~Complete(b, 0, o)
      <4>1. state' = state /\ nb_buf'.idx = nb_buf.idx + o.n /\ UNCHANGED cmd_data
        BY <2>3, <2>6, <3>5 DEF Again, Buff
      <4>2. Transferring'
        BY <1>0, <2>1, <2>2, <3>2, <3>3, <4>1 DEF Transferring, Ok
      <4> QED
        BY <1>0, <1>s, <4>1, <4>2
    <3> QED
      BY <3>4, <3>5
  <2>7. \/ nb_buf' = b /\ Again /\ UNCHANGED <<cmd_data, env, history>>
        \/ Clean("notconn") /\ UNCHANGED <<env, history>>
        \/ /\ b.len = cmd_data.count
           /\ \E o \in WrOutcomes(b, 0) :
                /\ Sent(b, 0, o, "data")
                /\ IF Complete(b, 0, o) THEN Clean("done")
                   ELSE /\ Again /\ nb_buf' = Buff(b.len, b.idx + o.n) /\ UNCHANGED cmd_data
    BY <1>5, <2>0 DEF ReadBufDelayed
  <2> QED
    BY <2>4, <2>5, <2>6, <2>7
<1> QED
  BY <1>1, <1>2, <1>3, <1>4, <1>5

LEMMA WriteBufStages ==
  ASSUME ReplyInv, WriteBufStart \/ WriteBufRecv \/ WriteBufFails \/ WriteBufStore
  PROVE  Stages'
<1> USE DEF conn, call, client, device, history, env
<1>0. /\ state = "RW_BUF" /\ cmd_data.cmd = "WRITEBUF" /\ Transferring /\ TypeInv /\ Cursors
      /\ request \in Units /\ request.count \in Nat /\ cmd_data.count \in Nat
      /\ nb_buf.len \in Nat /\ cmd_data \in CmdData
  BY DEF WriteBufStart, WriteBufRecv, WriteBufFails, WriteBufStore, Storing, WriteBuf,
         ReplyInv, TypeInv, TypeOK, Units, CmdData
<1>s. state' = "RW_BUF" /\ Transferring' => Stages'
  BY DEF Stages, Fresh, Answering, Repeating, Concluded
<1>t. state' = state /\ UNCHANGED <<cmd_data, request, out>> => Stages'
  <2>1. state' = state /\ UNCHANGED <<cmd_data, request, out>> => Transferring'
    BY <1>0 DEF Transferring, Ok
  <2> QED
    BY <1>0, <1>s, <2>1
<1>1. CASE WriteBufStart
  BY <1>1, <1>t DEF WriteBufStart
<1>2. CASE WriteBufRecv
  BY <1>2, <1>t DEF WriteBufRecv, Go, Again
<1>3. CASE WriteBufFails
  BY <1>3, CleanWell DEF WriteBufFails
<1>4. CASE WriteBufStore
  <2>1. /\ Storable \in Nat /\ Storable > 0 /\ Storable <= nb_buf.len
        /\ UNCHANGED <<setup, request, out>>
    BY <1>0, <1>4, StorableFacts DEF WriteBufStore
  <2>2. Ok /\ request.cmd = "WRITEBUF" /\ out = Accepted /\ nb_buf.len <= cmd_data.count
        /\ cmd_data.count <= request.count
    <3>1. nb_buf.len > 0 /\ nb_buf.len <= cmd_data.count
      BY <1>0, <2>1 DEF Cursors
    <3> QED
      BY <1>0, <3>1 DEF Transferring
  <2>3. CASE cmd_data' = ChunkDone /\ Again
    <3>1. /\ state' = state /\ cmd_data'.cmd = "WRITEBUF"
          /\ cmd_data'.count = cmd_data.count - nb_buf.len
      BY <1>0, <2>3 DEF Again, ChunkDone, CmdData
    <3>2. cmd_data'.count <= request.count
      BY <1>0, <2>2, <3>1
    <3>3. Transferring'
      BY <2>1, <2>2, <3>1, <3>2 DEF Transferring, Ok
    <3> QED
      BY <1>0, <1>s, <3>1, <3>3
  <2>4. CASE /\ cmd_data' = [cmd_data EXCEPT !.cmd = "PRINT", !.count = 0]
             /\ nb_buf' = Buff(0, nb_buf.idx) /\ Go("WRITING_CMD_RESULT")
             /\ res' = [Value("ok") EXCEPT !.buf = Buff(0, 0)]
    <3>1. state' = "WRITING_CMD_RESULT" /\ cmd_data'.cmd = "PRINT" /\ nb_buf'.len = 0
      BY <1>0, <2>4 DEF Go, Buff, CmdData
    <3>2. Done'
      <4>1. PICK v : v = Value("ok")
        OBVIOUS
      <4>2. v.write_val /\ v.val = "ok"
            /\ v \in [write_val : BOOLEAN, val : {"ok", "err"},
                      buf : [len : {0, 1}, idx : {0, 1}]]
        BY <1>0, <4>1, ValueTypes
      <4>3. res' = [v EXCEPT !.buf = Buff(0, 0)]
        BY <2>4, <4>1
      <4> QED
        BY <4>2, <4>3 DEF Done
    <3>3. Ok' /\ Second' /\ request'.cmd = "WRITEBUF"
      BY <2>1, <2>2, <3>1 DEF Ok, Second
    <3>4. Result'
      BY <3>1, <3>2, <3>3 DEF Result, SimpleCmds
    <3>5. ~ValueSent' /\ ~TextSent' /\ out' = <<"ok", "nl">>
      BY <2>1, <2>2, <3>1, <3>3 DEF ValueSent, TextSent, HasText, Accepted
    <3>6. Said'
      BY <3>3, <3>5 DEF Said
    <3> QED
      BY <3>1, <3>4, <3>6 DEF Stages, Fresh, Answering, Transferring, Repeating, Concluded
  <2>5. CASE "push" \in setup.dev_fails /\ Clean("done")
    BY <2>1, <2>5, CleanWell
  <2> QED
    BY <1>4, <2>3, <2>4, <2>5 DEF WriteBufStore
<1> QED
  BY <1>1, <1>2, <1>3, <1>4

LEMMA CyclicStages ==
  ASSUME ReplyInv, Cyclic PROVE Stages'
<1> USE DEF conn, call, client, device, history, env
<1>0. /\ state = "PUSH_CYCLIC_BUFFER" /\ out \in Replies(request) /\ res.buf.idx = res.buf.len
      /\ request \in Units /\ inp \in Seq(Units)
  BY DEF Cyclic, PushFails, PushAnother, PushByte, PushLine, Pushed, Pushing, ReplyInv, Repeating,
         TypeInv, TypeOK
<1>1. CASE PushFails
  BY <1>0, <1>1, CleanDone DEF PushFails
<1>2. CASE PushAnother
  BY <1>2, EnvStages DEF PushAnother
<1>3. CASE PushByte
  BY <1>3, SameStages DEF PushByte
<1>4. CASE PushLine
  <2>1. PICK unit : unit = Head(inp)
    OBVIOUS
  <2>2. cmd_data' = Parsed(unit) /\ res' = res
    BY <1>4, <2>1 DEF PushLine
  <2>3. CASE IsClose(unit)
    <3>1. state' = "RUNNING_CMD" /\ nb_buf' = Buff(0, nb_buf.idx) /\ request' = unit /\ out' = <<>>
      BY <1>4, <2>1, <2>3 DEF PushLine, Go
    <3>2. cmd_data'.cmd = "CLOSE" /\ cmd_data'.count = unit.count /\ unit.kind = "line"
          /\ unit.cmd = "CLOSE"
      BY <2>2, <2>3 DEF IsClose, Parsed, Unknown
    <3>3. Fresh'
      BY <1>0, <2>2, <3>1, <3>2 DEF Fresh, Ok, Buff
    <3> QED
      BY <3>1, <3>3 DEF Stages, Answering, Transferring, Repeating, Concluded
  <2>4. CASE ~IsClose(unit)
    <3>1. UNCHANGED <<state, request, out>>
      BY <1>4, <2>1, <2>4 DEF PushLine
    <3> QED
      BY <1>0, <2>2, <3>1 DEF Stages, Fresh, Answering, Transferring, Repeating, Concluded
  <2> QED
    BY <2>3, <2>4
<1> QED
  BY <1>1, <1>2, <1>3, <1>4 DEF Cyclic

LEMMA ReplyStep ==
  ASSUME Replying, ReplyInv, [Next]_vars PROVE ReplyInv'
<1>1. TypeInv' /\ AtRest'
  BY TypeStep, RestStep DEF ReplyInv
<1>2. Disconnected => Stages'
  BY GoneStages DEF Disconnected
<1>3. Stages'
  BY <1>2, EnvStages, ReadingStages, RunningStages, WritingStages, ReadBufStages, WriteBufStages,
     CyclicStages DEF Next, RunState, Buffering
<1> QED
  BY <1>1, <1>3 DEF ReplyInv, Stages

LEMMA ReplyInit == Init => ReplyInv
<1> SUFFICES ASSUME Init PROVE ReplyInv
  OBVIOUS
<1>1. TypeInv
  BY TypeInit
<1>2. state = "READING_LINE" /\ out = <<>> /\ ret = "none" /\ used /\ ~stepping
      /\ cmd_data = NoCmd /\ res = NoResult /\ nb_buf = Buff(0, 0)
  BY DEF Init
<1>3. PICK r \in Replies(request) : r \in Seq(Words)
  BY <1>1, RepliesAre DEF TypeInv, TypeOK
<1>4. ReplyWellFormed
  BY <1>2, <1>3, EmptyBegins, BeginsWell
<1>5. ReplyComplete
  BY <1>2 DEF ReplyComplete, CompleteReply
<1> QED
  BY <1>1, <1>2, <1>4, <1>5 DEF ReplyInv, AtRest, Fresh, Answering, Transferring, Repeating,
     Concluded

\* Whatever clients send and however the transport cuts what is sent, a client reads at
\* every moment the beginning of a reply to its command: the stages of iiod_run_state
\* add no word twice, in the wrong order or after an error.
THEOREM RepliesWellFormed == Replying => (Spec => []ReplyWellFormed)
<1> SUFFICES ASSUME Replying PROVE Spec => []ReplyWellFormed
  OBVIOUS
<1>1. ReplyInv /\ [Next]_vars => ReplyInv'
  BY ReplyStep
<1>2. ReplyInv => ReplyWellFormed
  BY AlwaysWell
<1> QED
  BY <1>1, <1>2, ReplyInit, PTL DEF Spec

\* When iiod_conn_step returns 0 after a command, the reply is complete, every byte
\* of data that READBUF announced included.
THEOREM RepliesComplete == Replying => (Spec => []ReplyComplete)
<1> SUFFICES ASSUME Replying PROVE Spec => []ReplyComplete
  OBVIOUS
<1>1. ReplyInv /\ [Next]_vars => ReplyInv'
  BY ReplyStep
<1>2. ReplyInv => ReplyComplete
  BY DEF ReplyInv, AtRest, Concluded, TypeInv, TypeOK, ReplyComplete, CompleteReply
<1> QED
  BY <1>1, <1>2, ReplyInit, PTL DEF Spec

-----------------------------------------------------------------------------
(* AllStored *)

LEMMA PairedStep ==
  ASSUME TypeInv, AtRest, Paired, [Next]_vars PROVE Paired'
<1> USE DEF conn, call, client, device, history, env
<1>0. /\ request \in Units /\ cmd_data \in CmdData /\ parsing \in BOOLEAN
      /\ nb_buf.len \in Nat /\ cmd_data.count \in Nat
  BY DEF TypeInv, TypeOK, CmdData
<1>a. state' \in {"READING_LINE", "PUSH_CYCLIC_BUFFER"} => Paired'
  BY DEF Paired
<1>b. state' = state /\ UNCHANGED <<cmd_data, request>> => Paired'
  BY DEF Paired, Ok
<1>1. CASE Client \/ Device \/ ConnStep \/ ConnAdd \/ UNCHANGED vars
  BY <1>1, <1>b DEF Client, ClientSend, ClientByte, ClientGone, Device, DeviceFills, DeviceDrains,
     ConnStep, ConnAdd, vars
<1>2. CASE Gone
  BY <1>2, <1>a DEF Gone, Clean
<1>3. CASE ReadLineAgain \/ ReadLineByte \/ ReadLineTooLong
  BY <1>3, <1>a, <1>b DEF ReadLineAgain, ReadLineByte, ReadLineTooLong, Clean, Again
<1>4. CASE ReadLine
  <2>1. PICK unit : unit = Head(inp)
    OBVIOUS
  <2>2. unit \in Units /\ cmd_data = NoCmd
    BY <1>4, <2>1, InpHead DEF ReadLine, TypeInv, TypeOK, AtRest
  <2>3. cmd_data' = Parsed(unit)
    BY <1>4, <2>1 DEF ReadLine
  <2>4. CASE unit.kind = "line" /\ ~parsing
    <3>1. /\ request' = unit
          /\ state' = IF unit.cmd = "WRITE" THEN "READING_WRITE_DATA" ELSE "RUNNING_CMD"
      BY <1>4, <2>1, <2>4 DEF ReadLine, Go, AfterParse
    <3>2. cmd_data'.cmd = unit.cmd /\ cmd_data'.count = unit.count
      BY <2>3, <2>4 DEF Parsed, Unknown
    <3> QED
      BY <2>4, <3>1, <3>2 DEF Paired, Ok
  <2>5. CASE ~(unit.kind = "line" /\ ~parsing)
    <3>1. request' = [unit EXCEPT !.kind = "bad"] /\ state' = "WRITING_CMD_RESULT"
      BY <1>4, <2>1, <2>5 DEF ReadLine, Go, AfterParse
    <3>2. cmd_data'.count = 0
      BY <2>2, <2>3, <2>5 DEF Parsed, Unknown, NoCmd
    <3>3. request'.kind = "bad"
      BY <2>2, <3>1 DEF Units
    <3> QED
      BY <3>1, <3>2, <3>3 DEF Paired, Ok
  <2> QED
    BY <2>4, <2>5
<1>5. CASE ReadWriteData
  BY <1>5 DEF ReadWriteData, Go, Again, Paired, Ok
<1>6. CASE RunSimple \/ RunText \/ RunWrite
  BY <1>6 DEF RunSimple, RunText, RunWrite, Go, Paired, Ok
<1>7. CASE FormatResult \/ SendValue \/ SendText
  BY <1>7, <1>b DEF FormatResult, SendValue, SendText, Sent, Go, Again
<1>8. CASE ResultSent
  BY <1>8, <1>a DEF ResultSent, Go, Clean, Paired, Ok
<1>9. CASE ReadBufAgain \/ ReadBufFails \/ ReadBufFetch
  BY <1>9, <1>a, <1>b DEF ReadBufAgain, ReadBufFails, ReadBufFetch, Clean, Again
<1>10. CASE ReadBufDelayed
  BY <1>10, <1>a, <1>b DEF ReadBufDelayed, Clean, Again, Sent
<1>c. state = "RW_BUF" /\ state' = state /\ request' = request /\ cmd_data' = ChunkDone
        /\ MoreChunks => Paired'
  <2> SUFFICES ASSUME state = "RW_BUF", state' = state, request' = request, cmd_data' = ChunkDone,
                      MoreChunks
               PROVE  Paired'
    OBVIOUS
  <2>1. cmd_data'.cmd = cmd_data.cmd
    BY <1>0 DEF ChunkDone, CmdData
  <2>2. Ok
    BY <1>0 DEF Paired, MoreChunks
  <2> QED
    BY <2>1, <2>2 DEF Paired, Ok
<1>11. CASE ReadBufSend
  <2>1. state = "RW_BUF" /\ request' = request
    BY <1>11 DEF ReadBufSend, ReadBuf, Sent
  <2> QED
    BY <1>11, <1>a, <1>b, <1>c, <2>1 DEF ReadBufSend, Clean, Again
<1>12. CASE WriteBufStart \/ WriteBufRecv \/ WriteBufFails
  BY <1>12, <1>a, <1>b DEF WriteBufStart, WriteBufRecv, WriteBufFails, Clean, Go, Again
<1>13. CASE WriteBufStore
  <2>1. state = "RW_BUF" /\ request' = request /\ cmd_data.cmd = "WRITEBUF"
    BY <1>13 DEF WriteBufStore, Storing, WriteBuf
  <2>2. CASE /\ cmd_data' = [cmd_data EXCEPT !.cmd = "PRINT", !.count = 0]
             /\ Go("WRITING_CMD_RESULT")
    <3>1. cmd_data'.cmd = "PRINT" /\ cmd_data'.count = 0 /\ state' = "WRITING_CMD_RESULT"
      BY <1>0, <2>2 DEF Go, CmdData
    <3> QED
      BY <3>1 DEF Paired
  <2> QED
    BY <1>13, <1>a, <1>c, <2>1, <2>2 DEF WriteBufStore, Again, Clean
<1>14. CASE PushFails \/ PushAnother \/ PushByte
  BY <1>14, <1>a, <1>b DEF PushFails, PushAnother, PushByte, vars
<1>15. CASE PushLine
  <2>1. PICK unit : unit = Head(inp)
    OBVIOUS
  <2>2. CASE IsClose(unit)
    <3>1. state' = "RUNNING_CMD" /\ request' = unit /\ cmd_data' = Parsed(unit)
      BY <1>15, <2>1, <2>2 DEF PushLine, Go
    <3>2. cmd_data'.cmd = "CLOSE" /\ cmd_data'.count = unit.count /\ unit.kind = "line"
          /\ unit.cmd = "CLOSE"
      BY <2>2, <3>1 DEF IsClose, Parsed, Unknown
    <3> QED
      BY <3>1, <3>2 DEF Paired, Ok
  <2>3. CASE ~IsClose(unit)
    <3>1. state' = "PUSH_CYCLIC_BUFFER"
      BY <1>15, <2>1, <2>3 DEF PushLine, Pushed, Pushing
    <3> QED
      BY <1>a, <3>1
  <2> QED
    BY <2>2, <2>3
<1> QED
  BY <1>1, <1>2, <1>3, <1>4, <1>5, <1>6, <1>7, <1>8, <1>9, <1>10, <1>11, <1>12, <1>13, <1>14, <1>15
     DEF Next, RunState, Reading, Running, RunExit, Writing, Buffering, Cyclic, Disconnected

LEMMA LinkedStep ==
  ASSUME TypeInv, AtRest, Linked, [Next]_vars PROVE Linked'
<1> USE DEF conn, call, client, device, history, env
<1>0. setup' = setup
  BY SetupKept
<1>1. CASE ClientGone
  BY <1>0, <1>1 DEF ClientGone, Linked
<1>2. CASE ConnAdd
  BY <1>2 DEF ConnAdd, Linked
<1>3. CASE Gone
  BY <1>0, <1>3 DEF Gone, Clean, Linked
<1>4. CASE ReadBufDelayed
  BY <1>0, <1>4 DEF ReadBufDelayed, Clean, Again, Linked, AtRest, Fetching, ReadBuf
<1>5. CASE ClientSend \/ ClientByte \/ Device
  BY <1>0, <1>5 DEF ClientSend, ClientByte, Device, DeviceFills, DeviceDrains, Linked
<1>6. CASE ConnStep
  BY <1>0, <1>6 DEF ConnStep, Linked
<1>7. CASE UNCHANGED vars
  BY <1>0, <1>7 DEF Linked, vars
<1>8. CASE Reading
  BY <1>0, <1>8 DEF Reading, ReadLineAgain, ReadLineByte, ReadLineTooLong, ReadLine, ReadWriteData,
     Take, Linked, AtRest
<1>9. CASE RunSimple \/ RunText \/ RunWrite
  BY <1>0, <1>9 DEF RunSimple, RunText, RunWrite, Linked, AtRest
<1>10. CASE Writing
  BY <1>0, <1>10 DEF Writing, FormatResult, SendValue, SendText, ResultSent, Linked, AtRest
<1>11. CASE ReadBufAgain \/ ReadBufFails \/ ReadBufFetch \/ ReadBufSend
  BY <1>0, <1>11 DEF ReadBufAgain, ReadBufFails, ReadBufFetch, ReadBufSend, Fetching, ReadBuf, Linked,
     AtRest
<1>12. CASE WriteBufStart \/ WriteBufRecv \/ WriteBufFails \/ WriteBufStore
  BY <1>0, <1>12 DEF WriteBufStart, WriteBufRecv, WriteBufFails, WriteBufStore, Storing, WriteBuf,
     Take, Linked, AtRest
<1>13. CASE Cyclic
  BY <1>0, <1>13 DEF Cyclic, PushFails, PushAnother, PushByte, PushLine, Pushed, Pushing, Take, vars,
     Linked, AtRest
<1> QED
  BY <1>1, <1>2, <1>3, <1>4, <1>5, <1>6, <1>7, <1>8, <1>9, <1>10, <1>11, <1>12, <1>13
     DEF Next, Client, RunState, Running, RunExit, Buffering, Disconnected

KeptInv == TypeInv /\ AtRest /\ Sources /\ Paired /\ Linked /\ Kept

\* Steps that touch nothing the accounts depend on, that leave the command with the
\* ring empty, and that serve another command than WRITEBUF.
LEMMA KeptSame ==
  ASSUME Kept, UNCHANGED <<setup, state, cmd_data, res, nb_buf, room, request, out, stored>>
  PROVE  Kept'
<1>1. /\ Moving' = Moving /\ WriteRequest' = WriteRequest /\ TextPending' = TextPending
      /\ ValueDone' = ValueDone
  BY DEF Moving, WriteRequest, Ok, TextPending, ValueDone, ValuePending
<1> QED
  BY <1>1 DEF Kept, Ring, Tally, Told

LEMMA KeptFree ==
  ASSUME Kept, UNCHANGED <<setup, request, out, stored>>,
         state' \in {"READING_LINE", "PUSH_CYCLIC_BUFFER"},
         setup.push_drains => room' = setup.dev_size
  PROVE  Kept'
<1>1. ~Moving' /\ WriteRequest' = WriteRequest
  BY DEF Moving, WriteRequest, Ok
<1> QED
  BY <1>1 DEF Kept, Ring, Tally, Told

LEMMA KeptOther ==
  ASSUME ~WriteRequest', UNCHANGED setup, setup.push_drains => room' = setup.dev_size
  PROVE  Kept'
  BY DEF Kept, Ring, Tally, Told, Moving

\* The ring is empty unless WRITEBUF is filling it.
LEMMA RingEmpty ==
  ASSUME Kept, ~Moving, setup.push_drains PROVE room = setup.dev_size
  BY DEF Kept, Ring

\* In a transfer that has begun to fill the ring nothing fails.
LEMMA MovingSafe ==
  ASSUME Fits, KeptInv, Moving, setup.push_drains, stored > 0
  PROVE  up /\ "write" \notin setup.dev_fails
<1>1. request \in setup.lines /\ request.count > PayloadLen
  BY DEF KeptInv, Kept, Tally, Moving
<1>2. request.count \in Nat /\ PayloadLen \in Nat /\ setup \in Setups
  BY SetupFacts DEF KeptInv, TypeInv, TypeOK, Units
<1>3. "write" \notin setup.dev_fails /\ ~setup.disconnects
  BY <1>1, <1>2 DEF Fits, Moving, WriteRequest, Ok
<1> QED
  BY <1>3 DEF KeptInv, Linked

LEMMA KeptGone ==
  ASSUME Fits, KeptInv, Disconnected \/ RunExit PROVE Kept'
<1>1. setup.push_drains => room = setup.dev_size
  <2> SUFFICES ASSUME setup.push_drains PROVE room = setup.dev_size
    OBVIOUS
  <2>1. CASE ~Moving
    BY <2>1, RingEmpty DEF KeptInv
  <2>2. CASE Moving
    <3>1. ~up
      BY <2>2 DEF Disconnected, RunExit, Moving
    <3>2. stored \in Nat
      BY DEF KeptInv, TypeInv, TypeOK
    <3>3. stored = 0
      BY <2>2, <3>1, <3>2, MovingSafe
    <3> QED
      BY <2>2, <3>3 DEF KeptInv, Kept, Ring
  <2> QED
    BY <2>1, <2>2
<1>2. UNCHANGED <<setup, request, out, stored, room>> /\ state' = "READING_LINE"
  BY DEF Disconnected, RunExit, Gone, Clean, env, history, device
<1> QED
  BY <1>1, <1>2, KeptFree DEF KeptInv

LEMMA KeptEnv ==
  ASSUME KeptInv, Client \/ Device \/ ConnStep \/ ConnAdd \/ UNCHANGED vars PROVE Kept'
<1> USE DEF conn, call, client, device, history, env
<1>1. CASE DeviceDrains
  <2> SUFFICES ASSUME setup.push_drains PROVE (Ring /\ Tally /\ Told)'
    BY <1>1 DEF Kept, DeviceDrains
  <2>1. /\ UNCHANGED <<setup, state, cmd_data, res, nb_buf, request, out, stored>>
        /\ room < setup.dev_size /\ room' = room + 1
    BY <1>1 DEF DeviceDrains
  <2>2. /\ Moving' = Moving /\ WriteRequest' = WriteRequest /\ TextPending' = TextPending
        /\ ValueDone' = ValueDone
    BY <2>1 DEF Moving, WriteRequest, Ok, TextPending, ValueDone, ValuePending
  <2>3. room \in Nat /\ setup.dev_size \in Nat /\ cmd_data.count \in Nat
    BY SetupFacts DEF KeptInv, TypeInv, TypeOK, CmdData
  <2>4. Moving /\ stored # 0 /\ room >= cmd_data.count
    BY <2>1, <2>3 DEF KeptInv, Kept, Ring
  <2>5. Ring'
    BY <2>1, <2>2, <2>3, <2>4 DEF Ring
  <2> QED
    BY <2>1, <2>2, <2>5 DEF KeptInv, Kept, Tally, Told
<1>2. CASE Client \/ DeviceFills \/ ConnStep \/ ConnAdd \/ UNCHANGED vars
  <2>1. UNCHANGED <<setup, state, cmd_data, res, nb_buf, room, request, out, stored>>
    BY <1>2 DEF Client, ClientSend, ClientByte, ClientGone, DeviceFills, ConnStep, ConnAdd, vars
  <2> QED
    BY <2>1, KeptSame DEF KeptInv
<1> QED
  BY <1>1, <1>2 DEF Device

LEMMA KeptReading ==
  ASSUME Fits, KeptInv, Reading PROVE Kept'
<1> USE DEF conn, call, client, device, history, env
<1>0. setup.push_drains => room = setup.dev_size
  BY RingEmpty DEF KeptInv, Reading, ReadLineAgain, ReadLineByte, ReadLineTooLong, ReadLine,
     ReadWriteData, Moving
<1>1. CASE ReadLineAgain \/ ReadLineByte
  BY <1>1, KeptSame DEF ReadLineAgain, ReadLineByte, Again, KeptInv
<1>2. CASE ReadLineTooLong
  BY <1>0, <1>2, KeptFree DEF ReadLineTooLong, Clean, KeptInv
<1>3. CASE ReadWriteData
  <2>1. ~WriteRequest' /\ setup' = setup /\ room' = room
    BY <1>3 DEF ReadWriteData, WriteRequest, KeptInv, Paired
  <2> QED
    BY <1>0, <2>1, KeptOther
<1>4. CASE ReadLine
  <2>1. PICK unit : unit = Head(inp)
    OBVIOUS
  <2>2. unit \in Units /\ Known(unit) /\ res = NoResult /\ nb_buf = Buff(0, 0)
    BY <1>4, <2>1, InpHead DEF ReadLine, KeptInv, TypeInv, TypeOK, AtRest, Sources
  <2>3. /\ UNCHANGED <<setup, room>> /\ out' = <<>> /\ stored' = 0
        /\ request' = IF unit.kind = "line" /\ ~parsing THEN unit
                      ELSE [unit EXCEPT !.kind = "bad"]
    BY <1>4, <2>1 DEF ReadLine
  <2>4. CASE ~(unit.kind = "line" /\ ~parsing /\ unit.cmd = "WRITEBUF")
    <3>1. ~WriteRequest'
      BY <2>2, <2>3, <2>4 DEF WriteRequest, Ok, Units
    <3> QED
      BY <1>0, <2>3, <3>1, KeptOther
  <2>5. CASE unit.kind = "line" /\ ~parsing /\ unit.cmd = "WRITEBUF"
    <3>1. /\ state' = "RUNNING_CMD" /\ res' = NoResult /\ nb_buf' = Buff(0, 0) /\ request' = unit
          /\ cmd_data'.cmd = "WRITEBUF"
      BY <1>4, <2>1, <2>2, <2>5 DEF ReadLine, Go, AfterParse, Parsed, Unknown
    <3>2. unit \in setup.lines
      BY <2>2, <2>5 DEF Known, NoUnit
    <3>3. ~Moving' /\ Len(<<>>) = 0
      BY <3>1 DEF Moving
    <3>5. Told'
      BY <2>3, <3>1, <3>3 DEF Told, NoResult, Buff
    <3>6. ASSUME setup.push_drains PROVE Ring' /\ Tally' /\ Told'
      BY <1>0, <2>3, <3>1, <3>2, <3>3, <3>5, <3>6 DEF Ring, Tally
    <3> QED
      BY <2>3, <3>6 DEF Kept
  <2> QED
    BY <2>4, <2>5
<1> QED
  BY <1>1, <1>2, <1>3, <1>4 DEF Reading

LEMMA KeptRunning ==
  ASSUME Fits, KeptInv, Running PROVE Kept'
<1> USE DEF conn, call, client, device, history, env
<1>0. /\ state = "RUNNING_CMD" /\ ~Moving /\ Ok /\ cmd_data.cmd = request.cmd
      /\ cmd_data.count = request.count
  BY DEF Running, RunSimple, RunExit, RunText, RunWrite, Moving, KeptInv, Paired
<1>1. setup.push_drains => room = setup.dev_size
  BY <1>0, RingEmpty DEF KeptInv
<1>2. CASE RunExit
  BY <1>2, KeptGone
<1>3. CASE RunSimple
  <2>1. ~WriteRequest' /\ setup' = setup /\ (setup.push_drains => room' = setup.dev_size)
    BY <1>0, <1>1, <1>3 DEF RunSimple, WriteRequest, SimpleCmds
  <2> QED
    BY <2>1, KeptOther
<1>4. CASE RunText
  <2>1. ~WriteRequest' /\ setup' = setup /\ room' = room
    BY <1>0, <1>4 DEF RunText, WriteRequest
  <2> QED
    BY <1>1, <2>1, KeptOther
<1>5. CASE RunWrite
  <2>0. UNCHANGED <<setup, room, cmd_data, request, out, stored>> /\ state' = "WRITING_CMD_RESULT"
    BY <1>5 DEF RunWrite, Go
  <2>1. CASE cmd_data.cmd # "WRITEBUF"
    <3>1. ~WriteRequest'
      BY <1>0, <2>0, <2>1 DEF WriteRequest
    <3> QED
      BY <1>1, <2>0, <3>1, KeptOther
  <2>2. CASE cmd_data.cmd = "WRITEBUF"
    <3> SUFFICES ASSUME setup.push_drains PROVE Ring' /\ Tally' /\ Told'
      BY <2>0 DEF Kept
    <3>1. WriteRequest /\ WriteRequest' /\ ~Moving'
      BY <1>0, <2>0, <2>2 DEF WriteRequest, Moving, Ok
    <3>2. /\ request \in setup.lines /\ stored = 0 /\ out = <<>> /\ nb_buf.len = 0
          /\ res.buf = Buff(0, 0)
      BY <1>0, <3>1 DEF KeptInv, Kept, Tally, Told
    <3>3. nb_buf' = nb_buf /\ res' = Value("ok")
      BY <1>5, <2>2 DEF RunWrite
    <3>4. res'.buf = Buff(0, 0)
      BY <3>2, <3>3, ValueTypes DEF KeptInv
    <3>5. ~TextPending'
      BY <3>4 DEF TextPending, Buff
    <3>6. Ring' /\ Tally'
      BY <1>0, <1>1, <2>0, <2>2, <3>1, <3>2 DEF Ring, Tally
    <3>7. Told'
      BY <2>0, <3>1, <3>2, <3>3, <3>5 DEF Told
    <3> QED
      BY <3>6, <3>7
  <2> QED
    BY <2>1, <2>2
<1> QED
  BY <1>2, <1>3, <1>4, <1>5 DEF Running

LEMMA KeptWriting ==
  ASSUME Fits, KeptInv, Writing PROVE Kept'
<1> USE DEF conn, call, client, device, history, env
<1>0. /\ state = "WRITING_CMD_RESULT" /\ ~Moving /\ UNCHANGED <<setup, room, request, stored>>
      /\ nb_buf \in [len : Nat, idx : Nat] /\ out \in Seq(Words) /\ res.write_val \in BOOLEAN
      /\ res.val \in Words
  BY DEF Writing, FormatResult, SendValue, SendText, ResultSent, Sent, Moving, KeptInv, TypeInv,
         TypeOK, Words
<1>1. setup.push_drains => room = setup.dev_size
  BY <1>0, RingEmpty DEF KeptInv
<1>2. CASE ~WriteRequest
  <2>1. ~WriteRequest'
    BY <1>0, <1>2 DEF WriteRequest, Ok
  <2> QED
    BY <1>0, <1>1, <2>1, KeptOther
<1>3. CASE WriteRequest /\ setup.push_drains
  <2>1. /\ WriteRequest' /\ request \in setup.lines /\ request' = request
        /\ IF cmd_data.cmd = "PRINT" THEN stored = request.count
           ELSE stored = 0 /\ cmd_data.count = request.count
        /\ cmd_data.cmd \in {"WRITEBUF", "PRINT"}
    BY <1>0, <1>3 DEF KeptInv, Kept, Tally, WriteRequest, Ok, Paired
  <2>2. cmd_data.cmd = "WRITEBUF" =>
          ~TextPending /\ nb_buf.len <= 1 /\ Len(out) <= IF ValueDone THEN 2 ELSE 0
    BY <1>0, <1>3 DEF KeptInv, Kept, Told
  <2>3. CASE FormatResult \/ SendValue \/ SendText
    <3>1. state' = state /\ UNCHANGED cmd_data /\ ~Moving'
      BY <1>0, <2>3 DEF FormatResult, SendValue, SendText, Go, Again, Moving
    <3>2. Ring' /\ Tally'
      BY <1>0, <1>1, <1>3, <2>1, <3>1 DEF Ring, Tally
    <3>3. CASE cmd_data.cmd = "PRINT"
      <4>1. Told'
        BY <1>0, <2>1, <3>1, <3>3 DEF Told
      <4> QED
        BY <3>2, <4>1 DEF Kept
    <3>4. CASE cmd_data.cmd = "WRITEBUF"
      <4>1. ~TextPending' /\ nb_buf'.len <= 1 /\ Len(out') <= IF ValueDone' THEN 2 ELSE 0
        <5>1. CASE FormatResult
          <6>1. res' = res /\ out' = out /\ nb_buf' = Buff(1, 0) /\ res.write_val /\ nb_buf.len = 0
            BY <5>1 DEF FormatResult
          <6>2. ~ValueDone /\ ~ValueDone' /\ ~TextPending' /\ nb_buf'.len <= 1
            BY <2>2, <3>4, <6>1 DEF ValueDone, ValuePending, TextPending, Buff
          <6> QED
            BY <2>2, <3>4, <6>1, <6>2
        <5>2. CASE SendValue
          <6>1. PICK o \in WrOutcomes(nb_buf, 1) :
                  /\ Sent(nb_buf, 1, o, res.val) /\ nb_buf' = Buff(nb_buf.len, nb_buf.idx + o.n)
            BY <5>2 DEF SendValue
          <6>2. res' = res /\ nb_buf.idx < nb_buf.len /\ ~ValueDone /\ nb_buf.len = 1
                /\ nb_buf.idx = 0
            BY <1>0, <2>2, <3>4, <5>2 DEF SendValue, ValuePending, ValueDone
          <6>3. Len(out) = 0
            BY <1>0, <2>2, <3>4, <6>2
          <6>4. o.n \in {0, 1} /\ o.nl \in {0, 1} /\ (o.n = 0 => o.nl = 0)
            <7>1. Unsent(nb_buf) = 1
              BY <6>2 DEF Unsent
            <7> QED
              BY <7>1 DEF WrOutcomes, Complete
          <6>5. Len(out') = o.n + o.nl
            <7>1. PICK k, l, t, z : k = o.n /\ l = o.nl /\ t = [i \in 1 .. k |-> res.val]
                                    /\ z = [i \in 1 .. l |-> "nl"]
              OBVIOUS
            <7>2. t \in Seq(Words) /\ z \in Seq(Words) /\ Len(t) = k /\ Len(z) = l
              BY <1>0, <6>4, <7>1 DEF Words
            <7>3. out' = out \o t \o z
              BY <6>1, <7>1 DEF Sent
            <7>4. PICK q : q = out \o t
              OBVIOUS
            <7>5. q \in Seq(Words) /\ Len(q) = k
              BY <1>0, <6>3, <6>4, <7>1, <7>2, <7>4, ConcatFacts
            <7>6. Len(q \o z) = Len(q) + Len(z)
              BY <7>2, <7>5, ConcatFacts
            <7> QED
              BY <7>1, <7>2, <7>3, <7>4, <7>5, <7>6
          <6>6. nb_buf'.len = 1 /\ nb_buf'.idx = o.n
            BY <6>1, <6>2, <6>4 DEF Buff
          <6>7. o.n = 1 => ValueDone'
            BY <6>6 DEF ValueDone, ValuePending
          <6>8. ~TextPending'
            BY <2>2, <3>4, <6>2 DEF TextPending
          <6> QED
            BY <6>4, <6>5, <6>6, <6>7, <6>8
        <5>3. CASE SendText
          BY <2>2, <3>4, <5>3 DEF SendText
        <5> QED
          BY <2>3, <5>1, <5>2, <5>3
      <4>2. Len(out') <= 2 /\ Len(out') \in Nat
        <5>1. out' \in Seq(Words)
          BY WritingTypes, TypeHalves DEF KeptInv, TypeInv, Values, Words
        <5> QED
          BY <4>1, <5>1
      <4>3. Told'
        BY <1>0, <2>1, <3>1, <3>4, <4>1, <4>2 DEF Told
      <4> QED
        BY <3>2, <4>3 DEF Kept
    <3> QED
      BY <2>1, <3>3, <3>4
  <2>4. CASE ResultSent
    <3>0. out' = out /\ ValueDone
      BY <2>4 DEF ResultSent
    <3>1. CASE state' = "RW_BUF" /\ cmd_data.cmd \in BufferCmds /\ nb_buf' = Buff(0, 0)
               /\ UNCHANGED cmd_data
      <4>1. cmd_data.cmd = "WRITEBUF" /\ Moving' /\ nb_buf'.len = 0 /\ stored = 0
            /\ cmd_data.count = request.count
        BY <2>1, <3>1 DEF BufferCmds, Moving, Buff
      <4>2. request.count <= setup.dev_size /\ request.count \in Nat /\ setup.dev_size \in Nat
        <5>1. setup \in Setups /\ request.count \in Nat /\ setup.dev_size \in Nat
          BY SetupFacts DEF KeptInv, TypeInv, TypeOK, Units
        <5> QED
          BY <1>3, <2>1, <5>1 DEF Fits, WriteRequest, Ok
      <4>3. Ring'
        BY <1>0, <1>1, <1>3, <3>1, <4>1, <4>2 DEF Ring
      <4>4. Tally'
        BY <1>0, <2>1, <3>1, <4>1, <4>2 DEF Tally
      <4>5. Len(out') <= 2 /\ Len(out') \in Nat
        BY <1>0, <2>2, <3>0, <4>1
      <4>6. Told'
        BY <3>1, <4>5 DEF Told
      <4> QED
        BY <4>3, <4>4, <4>6 DEF Kept
    <3>2. CASE state' \in {"READING_LINE", "PUSH_CYCLIC_BUFFER"}
      BY <1>0, <1>1, <3>0, <3>2, KeptFree DEF KeptInv
    <3> QED
      BY <2>4, <3>1, <3>2 DEF ResultSent, Go, Clean
  <2> QED
    BY <2>3, <2>4 DEF Writing
<1>4. CASE ~setup.push_drains
  BY <1>0, <1>4 DEF Kept
<1> QED
  BY <1>2, <1>3, <1>4

LEMMA KeptReadBuf ==
  ASSUME KeptInv,
         ReadBufAgain \/ ReadBufFails \/ ReadBufFetch \/ ReadBufSend \/ ReadBufDelayed
  PROVE  Kept'
<1> USE DEF conn, call, client, device, history, env
<1>1. state = "RW_BUF" /\ cmd_data.cmd = "READBUF" /\ UNCHANGED <<setup, room, request>>
  BY DEF ReadBufAgain, ReadBufFails, ReadBufFetch, ReadBufSend, ReadBufDelayed, Fetching, ReadBuf,
         Sent
<1>2. ~WriteRequest /\ ~Moving /\ ~WriteRequest'
  BY <1>1 DEF KeptInv, Paired, WriteRequest, Moving, Ok
<1> QED
  BY <1>1, <1>2, RingEmpty, KeptOther DEF KeptInv

LEMMA KeptWriteBuf ==
  ASSUME Fits, KeptInv, WriteBufStart \/ WriteBufRecv \/ WriteBufFails \/ WriteBufStore
  PROVE  Kept'
<1> USE DEF conn, call, client, device, history, env
<1>0. /\ state = "RW_BUF" /\ cmd_data.cmd = "WRITEBUF" /\ UNCHANGED <<setup, request, out>>
      /\ TypeInv /\ Cursors /\ Kept /\ Paired
      /\ request.count \in Nat /\ cmd_data.count \in Nat /\ nb_buf.len \in Nat /\ nb_buf.idx \in Nat
      /\ room \in Nat /\ stored \in Nat /\ PayloadLen \in Nat \ {0} /\ cmd_data \in CmdData
      /\ nb_buf.len <= PayloadLen /\ nb_buf.len <= cmd_data.count
  BY SetupFacts DEF WriteBufStart, WriteBufRecv, WriteBufFails, WriteBufStore, Storing, WriteBuf,
         KeptInv, TypeInv, TypeOK, Units, CmdData, Cursors
<1>1. CASE ~setup.push_drains
  BY <1>0, <1>1 DEF Kept
<1>2. CASE setup.push_drains /\ ~Ok
  <2>1. cmd_data.count = 0 /\ nb_buf.len = 0 /\ ~WriteRequest' /\ ~Moving
    BY <1>0, <1>2 DEF Paired, WriteRequest, Moving, Ok
  <2>2. Storable = 0
    BY <1>0, <2>1, StorableFacts
  <2>3. room' = room
    BY <2>1, <2>2 DEF WriteBufStart, WriteBufRecv, WriteBufFails, WriteBufStore
  <2> QED
    BY <1>0, <1>2, <2>1, <2>3, RingEmpty, KeptOther
<1>3. CASE setup.push_drains /\ Ok
  <2>1. WriteRequest /\ Moving /\ WriteRequest'
    BY <1>0, <1>3 DEF Paired, WriteRequest, Moving, Ok
  <2>2. /\ room >= cmd_data.count /\ (stored = 0 => room = setup.dev_size)
        /\ request \in setup.lines /\ stored + cmd_data.count = request.count
        /\ stored > 0 => cmd_data.count > 0 /\ request.count > PayloadLen
        /\ nb_buf.len = 0 \/ nb_buf.len = MinOf(PayloadLen, cmd_data.count)
        /\ Len(out) <= 2 /\ (Len(out) > 2 => stored = request.count)
    BY <1>0, <1>3, <2>1 DEF Kept, Ring, Tally, Told
  <2>3. CASE WriteBufStart \/ WriteBufRecv
    <3>1. UNCHANGED <<state, cmd_data, room, stored>>
      BY <2>3 DEF WriteBufStart, WriteBufRecv, Go, Again
    <3>2. nb_buf'.len = nb_buf.len \/ nb_buf'.len = MinOf(PayloadLen, cmd_data.count)
      BY <2>3 DEF WriteBufStart, WriteBufRecv, Buff
    <3>3. Moving'
      BY <1>0, <2>1, <3>1 DEF Moving
    <3>4. Ring' /\ Tally'
      BY <1>0, <2>2, <3>1, <3>2, <3>3 DEF Ring, Tally
    <3>5. Told'
      BY <1>0, <2>2, <3>1 DEF Told
    <3> QED
      BY <3>4, <3>5 DEF Kept
  <2>4. CASE WriteBufFails
    <3>1. stored = 0
      <4>1. ASSUME stored > 0 PROVE FALSE
        <5>1. Storable = 0
          BY <1>3, <2>1, <2>4, <4>1, MovingSafe DEF WriteBufFails
        <5>2. nb_buf.len > 0 /\ room > 0
          BY <1>0, <2>2, <2>4, <4>1 DEF WriteBufFails, Storing
        <5> QED
          BY <1>0, <5>1, <5>2, StorableFacts
      <4> QED
        BY <1>0, <4>1
    <3>2. room' = setup.dev_size /\ state' = "READING_LINE" /\ stored' = stored
      BY <2>2, <2>4, <3>1 DEF WriteBufFails, Clean
    <3> QED
      BY <1>0, <3>2, KeptFree
  <2>5. CASE WriteBufStore
    <3>1. Storable = nb_buf.len /\ nb_buf.len > 0
      <4>1. Storable > 0
        BY <2>5 DEF WriteBufStore
      <4> QED
        BY <1>0, <2>2, <4>1, StorableFacts
    <3>2. stored' = stored + nb_buf.len
      BY <2>5, <3>1 DEF WriteBufStore
    <3>3. nb_buf.len = MinOf(PayloadLen, cmd_data.count)
      BY <2>2, <3>1
    <3>4. CASE /\ MoreChunks /\ cmd_data' = ChunkDone /\ nb_buf' = Buff(0, nb_buf.idx)
               /\ room' = room - Storable /\ Again
      <4>1. /\ state' = state /\ nb_buf'.len = 0 /\ room' = room - nb_buf.len
            /\ cmd_data'.count = cmd_data.count - nb_buf.len
        BY <1>0, <3>1, <3>4 DEF Again, Buff, ChunkDone, CmdData
      <4>2. cmd_data.count > nb_buf.len
        BY <3>4 DEF MoreChunks
      <4>3. nb_buf.len = PayloadLen
        BY <1>0, <3>3, <4>2 DEF MinOf
      <4>4. cmd_data'.count > 0 /\ request.count > PayloadLen /\ room' >= cmd_data'.count
            /\ stored' + cmd_data'.count = request.count /\ stored' > 0
        <5>1. PICK c, l, r, s, q : /\ c = cmd_data.count /\ l = nb_buf.len /\ r = room
                                   /\ s = stored /\ q = request.count
          OBVIOUS
        <5>2. /\ c \in Nat /\ l \in Nat /\ r \in Nat /\ s \in Nat /\ q \in Nat
              /\ r >= c /\ s + c = q /\ l > 0 /\ c > l /\ l = PayloadLen
          BY <1>0, <2>2, <3>1, <4>2, <4>3, <5>1
        <5>3. stored' = s + l /\ room' = r - l /\ cmd_data'.count = c - l
          BY <3>2, <4>1, <5>1
        <5>4. c - l > 0 /\ q > l /\ r - l >= c - l /\ (s + l) + (c - l) = q /\ s + l > 0
          BY <5>2
        <5> QED
          BY <5>1, <5>2, <5>3, <5>4
      <4>5. Moving'
        BY <1>0, <2>1, <4>1 DEF Moving
      <4>6. Ring' /\ Tally'
        BY <1>0, <2>2, <4>1, <4>4, <4>5 DEF Ring, Tally
      <4>7. Told'
        <5>1. ~(Len(out) > 2)
          <6>1. Len(out) \in Nat
            BY DEF KeptInv, TypeInv, TypeOK
          <6> QED
            BY <2>2, <6>1
        <5> QED
          BY <1>0, <2>2, <4>1, <5>1 DEF Told
      <4> QED
        BY <4>6, <4>7 DEF Kept
    <3>5. CASE /\ ~MoreChunks
               /\ cmd_data' = [cmd_data EXCEPT !.cmd = "PRINT", !.count = 0]
               /\ room' = setup.dev_size /\ Go("WRITING_CMD_RESULT")
      <4>1. state' = "WRITING_CMD_RESULT" /\ cmd_data'.cmd = "PRINT" /\ ~Moving'
        BY <1>0, <3>5 DEF Go, CmdData, Moving
      <4>2. stored' = request.count
        BY <1>0, <2>2, <3>2, <3>5 DEF MoreChunks
      <4>3. Ring' /\ Tally'
        BY <1>0, <2>2, <3>5, <4>1, <4>2 DEF Ring, Tally
      <4>4. Told'
        BY <1>0, <4>1, <4>2 DEF Told
      <4> QED
        BY <4>3, <4>4 DEF Kept
    <3>6. "push" \notin setup.dev_fails
      BY <1>3 DEF Fits, KeptInv, TypeInv, TypeOK
    <3> QED
      BY <1>3, <2>5, <3>4, <3>5, <3>6 DEF WriteBufStore
  <2> QED
    BY <2>3, <2>4, <2>5
<1> QED
  BY <1>1, <1>2, <1>3

LEMMA KeptCyclic ==
  ASSUME KeptInv, Cyclic PROVE Kept'
<1> USE DEF conn, call, client, device, history, env
<1>0. /\ state = "PUSH_CYCLIC_BUFFER" /\ Kept /\ UNCHANGED <<setup, room, stored>>
  BY DEF Cyclic, PushFails, PushAnother, PushByte, PushLine, Pushed, Pushing, KeptInv, vars
<1>1. setup.push_drains => room' = setup.dev_size
  BY <1>0, RingEmpty DEF Moving
<1>2. CASE PushFails \/ PushAnother \/ PushByte
  <2>1. UNCHANGED <<request, out>> /\ state' \in {"READING_LINE", "PUSH_CYCLIC_BUFFER"}
    BY <1>0, <1>2 DEF PushFails, PushAnother, PushByte, vars
  <2> QED
    BY <1>0, <1>1, <2>1, KeptFree
<1>3. CASE PushLine
  <2>1. CASE IsClose(Head(inp))
    <3>1. ~WriteRequest'
      BY <1>3, <2>1 DEF PushLine, IsClose, WriteRequest
    <3> QED
      BY <1>0, <1>1, <3>1, KeptOther
  <2>2. CASE ~IsClose(Head(inp))
    <3>1. UNCHANGED <<state, request, out>>
      BY <1>3, <2>2 DEF PushLine
    <3> QED
      BY <1>0, <1>1, <3>1, KeptFree
  <2> QED
    BY <2>1, <2>2
<1> QED
  BY <1>2, <1>3 DEF Cyclic

LEMMA KeptStep ==
  ASSUME Fits, KeptInv, [Next]_vars PROVE KeptInv'
<1>1. TypeInv' /\ AtRest' /\ Sources' /\ Paired' /\ Linked'
  BY TypeStep, RestStep, SourcesStep, PairedStep, LinkedStep DEF KeptInv
<1>2. Kept'
  BY KeptEnv, KeptReading, KeptRunning, KeptWriting, KeptReadBuf, KeptWriteBuf, KeptCyclic, KeptGone
     DEF Next, RunState, Buffering
<1> QED
  BY <1>1, <1>2 DEF KeptInv

LEMMA KeptInit == Init => KeptInv
<1> SUFFICES ASSUME Init PROVE KeptInv
  OBVIOUS
<1>1. TypeInv
  BY TypeInit
<1>2. /\ state = "READING_LINE" /\ out = <<>> /\ ret = "none" /\ used /\ ~stepping /\ up
      /\ cmd_data = NoCmd /\ res = NoResult /\ nb_buf = Buff(0, 0) /\ room = setup.dev_size
      /\ inp = <<>> /\ request = NoUnit
  BY DEF Init
<1>3. AtRest /\ Sources /\ Paired /\ Linked
  BY <1>2 DEF AtRest, Sources, Paired, Linked
<1>4. ~WriteRequest /\ ~Moving
  BY <1>2 DEF WriteRequest, Moving, Ok, NoUnit
<1>5. Kept
  BY <1>2, <1>4 DEF Kept, Ring, Tally, Told
<1> QED
  BY <1>1, <1>3, <1>5 DEF KeptInv

\* On a device that takes what is pushed to it, and whose ring holds the payload, a
\* WRITEBUF that is answered as done has stored every byte, in however many chunks of
\* the payload buffer it came: do_write_buff, which counts a chunk as written whatever
\* iio_write_buffer stored, loses nothing.
THEOREM StoresAll == Fits => (Spec => []AllStored)
<1> SUFFICES ASSUME Fits PROVE Spec => []AllStored
  OBVIOUS
<1>1. KeptInv /\ [Next]_vars => KeptInv'
  BY KeptStep
<1>2. KeptInv => AllStored
  <2> SUFFICES ASSUME KeptInv, setup.push_drains, WriteRequest, out = Accepted \o Accepted
               PROVE  stored = request.count
    BY DEF AllStored, StoredAll, WriteRequest, Ok
  <2>1. Len(out) = 4
    <3>1. out = <<"ok", "nl", "ok", "nl">>
      BY TwiceAccepted
    <3> QED
      BY <3>1
  <2> QED
    BY <2>1 DEF KeptInv, Kept, Told
<1> QED
  BY <1>1, <1>2, KeptInit, PTL DEF Spec

-----------------------------------------------------------------------------
(* InSync: what the client sent *)

LEMMA PayloadFacts ==
  ASSUME NEW u \in Units
  PROVE  Payload(u) \in Nat /\ (u.kind # "line" => Payload(u) = 0)
  BY DEF Payload, Units

\* Receiving n bytes of the e that are due.
LEMMA AlignedTake ==
  ASSUME inp \in Seq(Units), owed \in Nat, NEW e \in Nat, NEW n \in 0 .. Len(inp), n <= e,
         Aligned(e), \A j \in 1 .. n : inp[j].kind = "byte", Take(n)
  PROVE  Aligned(e - n)'
<1>0. PICK L, s, t, w : L = Len(inp) /\ s = inp /\ t = inp' /\ w = owed
  OBVIOUS
<1>1. /\ t \in Seq(Units) /\ Len(t) = L - n /\ owed' = w /\ L \in Nat /\ w \in Nat /\ s \in Seq(Units)
      /\ \A i \in 1 .. L - n : t[i] = s[i + n]
  BY <1>0, TakeFacts
<1>2. \A i \in 1 .. L : s[i] \in Units /\ Payload(s[i]) \in Nat
  BY <1>0, <1>1, PayloadFacts
<1>3. ASSUME NEW j \in Nat, j > 0
      PROVE  Covered(e, j + n) <=> Covered(e - n, j)'
  <2>1. ASSUME NEW i \in 1 .. L, i < j + n, j + n <= i + Payload(s[i])
        PROVE  \E k \in 1 .. L - n : k < j /\ j <= k + Payload(t[k])
    <3>1. i > n
      <4>1. CASE i <= n
        <5>1. s[i].kind = "byte"
          BY <1>0, <4>1
        <5>2. Payload(s[i]) = 0
          BY <1>0, <1>1, <5>1, PayloadFacts
        <5> QED
          BY <2>1, <4>1, <5>2, <1>3
      <4> QED
        BY <4>1
    <3>2. i - n \in 1 .. L - n /\ t[i - n] = s[i]
      BY <1>1, <3>1
    <3>3. i - n < j /\ j <= (i - n) + Payload(t[i - n])
      BY <1>2, <2>1, <3>1, <3>2
    <3> QED
      BY <3>2, <3>3
  <2>2. ASSUME NEW k \in 1 .. L - n, k < j, j <= k + Payload(t[k])
        PROVE  \E i \in 1 .. L : i < j + n /\ j + n <= i + Payload(s[i])
    <3>1. k + n \in 1 .. L /\ t[k] = s[k + n]
      BY <1>1
    <3>2. k + n < j + n /\ j + n <= (k + n) + Payload(s[k + n])
      BY <1>2, <2>2, <3>1
    <3> QED
      BY <3>1, <3>2
  <2>3. j + n <= e <=> j <= e - n
    OBVIOUS
  <2> QED
    BY <1>0, <1>1, <2>1, <2>2, <2>3 DEF Covered
<1>4. ASSUME NEW j \in 1 .. L - n
      PROVE  t[j].kind = "byte" <=> Covered(e - n, j)'
  <2>1. j + n \in 1 .. L /\ t[j] = s[j + n] /\ j \in Nat /\ j > 0
    BY <1>1
  <2>2. s[j + n].kind = "byte" <=> Covered(e, j + n)
    BY <1>0, <2>1 DEF Aligned
  <2> QED
    BY <1>3, <2>1, <2>2
<1>5. e - n <= L - n + w
  BY <1>0, <1>1 DEF Aligned
<1>6. ASSUME NEW i \in 1 .. L - n PROVE i + Payload(t[i]) <= L - n + w
  <2>1. i + n \in 1 .. L /\ t[i] = s[i + n]
    BY <1>1
  <2>2. PICK q : q = Payload(s[i + n])
    OBVIOUS
  <2>3. (i + n) + q <= L + w /\ q \in Nat /\ Payload(t[i]) = q
    BY <1>0, <1>2, <2>1, <2>2 DEF Aligned
  <2>4. L \in Nat /\ w \in Nat
    BY <1>1
  <2>5. i + q <= L - n + w
    BY <2>3, <2>4
  <2> QED
    BY <2>3, <2>5
<1>7. ASSUME w > 0 PROVE Covered(e - n, L - n + w)'
  <2>1. PICK j : j = L - n + w
    OBVIOUS
  <2>2. j \in Nat /\ j > 0 /\ j + n = L + w
    BY <1>1, <1>7, <2>1
  <2>3. Covered(e, j + n)
    BY <1>0, <1>7, <2>2 DEF Aligned
  <2>4. Covered(e - n, j)'
    BY <1>3, <2>2, <2>3
  <2> QED
    BY <1>1, <2>1, <2>4 DEF Covered
<1> QED
  BY <1>0, <1>1, <1>4, <1>5, <1>6, <1>7 DEF Aligned

\* A unit that is not a byte comes next only when no payload is due; the payload it
\* announces is due after it.
LEMMA AlignedLine ==
  ASSUME inp \in Seq(Units), owed \in Nat, NEW e \in Nat, inp # <<>>, Head(inp).kind # "byte",
         Aligned(e), Take(1), NEW p, p = Payload(Head(inp))
  PROVE  Aligned(p)'
<1>0. PICK L, s, t, w : L = Len(inp) /\ s = inp /\ t = inp' /\ w = owed
  OBVIOUS
<1>h. Head(inp) = inp[1] /\ 1 \in 0 .. Len(inp) /\ Head(inp) \in Units
  BY InpHead
<1>1. /\ t \in Seq(Units) /\ Len(t) = L - 1 /\ owed' = w /\ L \in Nat /\ w \in Nat /\ s \in Seq(Units)
      /\ L > 0
      /\ \A i \in 1 .. L - 1 : t[i] = s[i + 1]
  BY <1>0, <1>h, TakeFacts
<1>2. /\ \A i \in 1 .. L : s[i] \in Units /\ Payload(s[i]) \in Nat
      /\ p = Payload(s[1]) /\ p \in Nat /\ s[1].kind # "byte"
  BY <1>0, <1>h, <1>1, PayloadFacts
<1>e. e = 0
  <2>1. ~Covered(e, 1)
    BY <1>0, <1>1, <1>2 DEF Aligned
  <2> QED
    BY <2>1 DEF Covered
<1>3. ASSUME NEW j \in Nat, j > 0
      PROVE  Covered(e, j + 1) <=> Covered(p, j)'
  <2>1. ASSUME NEW i \in 1 .. L, i < j + 1, j + 1 <= i + Payload(s[i])
        PROVE  j <= p \/ \E k \in 1 .. L - 1 : k < j /\ j <= k + Payload(t[k])
    <3>1. CASE i = 1
      BY <1>2, <2>1, <3>1
    <3>2. CASE i > 1
      <4>1. i - 1 \in 1 .. L - 1 /\ t[i - 1] = s[i]
        BY <1>1, <3>2
      <4>2. i - 1 < j /\ j <= (i - 1) + Payload(t[i - 1])
        BY <1>2, <2>1, <3>2, <4>1
      <4> QED
        BY <4>1, <4>2
    <3> QED
      BY <3>1, <3>2
  <2>2. ASSUME NEW k \in 1 .. L - 1, k < j, j <= k + Payload(t[k])
        PROVE  \E i \in 1 .. L : i < j + 1 /\ j + 1 <= i + Payload(s[i])
    <3>1. k + 1 \in 1 .. L /\ t[k] = s[k + 1]
      BY <1>1
    <3>2. k + 1 < j + 1 /\ j + 1 <= (k + 1) + Payload(s[k + 1])
      BY <1>2, <2>2, <3>1
    <3> QED
      BY <3>1, <3>2
  <2>3. ASSUME j <= p PROVE \E i \in 1 .. L : i < j + 1 /\ j + 1 <= i + Payload(s[i])
    <3>1. 1 \in 1 .. L /\ 1 < j + 1 /\ j + 1 <= 1 + Payload(s[1])
      BY <1>1, <1>2, <1>3, <2>3
    <3> QED
      BY <3>1
  <2>4. ~(j + 1 <= e)
    BY <1>e
  <2> QED
    BY <1>0, <1>1, <2>1, <2>2, <2>3, <2>4 DEF Covered
<1>4. ASSUME NEW j \in 1 .. L - 1
      PROVE  t[j].kind = "byte" <=> Covered(p, j)'
  <2>1. j + 1 \in 1 .. L /\ t[j] = s[j + 1] /\ j \in Nat /\ j > 0
    BY <1>1
  <2>2. s[j + 1].kind = "byte" <=> Covered(e, j + 1)
    BY <1>0, <2>1 DEF Aligned
  <2> QED
    BY <1>3, <2>1, <2>2
<1>5. p <= L - 1 + w
  <2>1. 1 + Payload(s[1]) <= L + w
    BY <1>0, <1>1 DEF Aligned
  <2> QED
    BY <1>1, <1>2, <2>1
<1>6. ASSUME NEW i \in 1 .. L - 1 PROVE i + Payload(t[i]) <= L - 1 + w
  <2>1. i + 1 \in 1 .. L /\ t[i] = s[i + 1]
    BY <1>1
  <2>2. PICK q : q = Payload(s[i + 1])
    OBVIOUS
  <2>3. (i + 1) + q <= L + w /\ q \in Nat /\ Payload(t[i]) = q
    BY <1>0, <1>2, <2>1, <2>2 DEF Aligned
  <2>4. L \in Nat /\ w \in Nat
    BY <1>1
  <2>5. i + q <= L - 1 + w
    BY <2>3, <2>4
  <2> QED
    BY <2>3, <2>5
<1>7. ASSUME w > 0 PROVE Covered(p, L - 1 + w)'
  <2>1. PICK j : j = L - 1 + w
    OBVIOUS
  <2>2. j \in Nat /\ j > 0 /\ j + 1 = L + w
    BY <1>1, <1>7, <2>1
  <2>3. Covered(e, j + 1)
    BY <1>0, <1>7, <2>2 DEF Aligned
  <2>4. Covered(p, j)'
    BY <1>3, <2>2, <2>3
  <2> QED
    BY <1>1, <2>1, <2>4 DEF Covered
<1> QED
  BY <1>0, <1>1, <1>4, <1>5, <1>6, <1>7 DEF Aligned

\* What comes next when no payload is due, and when some is.
LEMMA AlignedNext ==
  ASSUME inp \in Seq(Units), NEW e \in Nat, inp # <<>>, Aligned(e)
  PROVE  Head(inp).kind = "byte" <=> e > 0
<1>1. Head(inp) = inp[1] /\ 1 \in 1 .. Len(inp)
  BY InpHead
<1>2. inp[1].kind = "byte" <=> Covered(e, 1)
  BY <1>1 DEF Aligned
<1>3. Covered(e, 1) <=> 1 <= e
  BY DEF Covered
<1> QED
  BY <1>1, <1>2, <1>3

\* The client sends a line, or a byte that it owes.
LEMMA AlignedSend ==
  ASSUME inp \in Seq(Units), owed \in Nat, NEW e \in Nat, Aligned(e), NEW u \in Units,
         inp' = Append(inp, u),
         \/ owed = 0 /\ u.kind # "byte" /\ owed' = Payload(u)
         \/ owed > 0 /\ u.kind = "byte" /\ owed' = owed - 1
  PROVE  Aligned(e)'
<1>0. PICK L, s, t, w, x : L = Len(inp) /\ s = inp /\ t = inp' /\ w = owed /\ x = owed'
  OBVIOUS
<1>1. /\ t \in Seq(Units) /\ Len(t) = L + 1 /\ L \in Nat /\ w \in Nat /\ s \in Seq(Units)
      /\ t[L + 1] = u /\ \A i \in 1 .. L : t[i] = s[i]
  BY <1>0
<1>2. /\ \A i \in 1 .. L : s[i] \in Units /\ Payload(s[i]) \in Nat
      /\ Payload(u) \in Nat /\ (u.kind = "byte" => Payload(u) = 0)
  BY <1>0, <1>1, PayloadFacts
<1>x. /\ x \in Nat
      /\ \/ w = 0 /\ u.kind # "byte" /\ x = Payload(u)
         \/ w > 0 /\ u.kind = "byte" /\ x = w - 1
  BY <1>0, <1>1, <1>2
<1>a. /\ \A j \in 1 .. L : s[j].kind = "byte" <=> Covered(e, j)
      /\ e <= L + w
      /\ \A i \in 1 .. L : i + Payload(s[i]) <= L + w
      /\ w > 0 => Covered(e, L + w)
  BY <1>0 DEF Aligned
<1>c. \A j \in Nat : Covered(e, j) <=>
        j <= e \/ \E i \in 1 .. L : i < j /\ j <= i + Payload(s[i])
  BY <1>0 DEF Covered
<1>d. \A j \in Nat : Covered(e, j)' <=>
        j <= e \/ \E i \in 1 .. L + 1 : i < j /\ j <= i + Payload(t[i])
  BY <1>0, <1>1 DEF Covered
<1>3. ASSUME NEW j \in 1 .. L + 1 PROVE t[j].kind = "byte" <=> Covered(e, j)'
  <2>1. CASE j <= L
    <3>1. Covered(e, j) <=> Covered(e, j)'
      <4>1. \A i \in 1 .. L + 1 : i < j => i \in 1 .. L /\ t[i] = s[i]
        BY <1>1, <2>1
      <4> QED
        BY <1>1, <1>c, <1>d, <2>1, <4>1
    <3> QED
      BY <1>1, <1>a, <2>1, <3>1
  <2>2. CASE j = L + 1 /\ w = 0
    <3>1. \A i \in 1 .. L + 1 : i < j => ~(j <= i + Payload(t[i]))
      BY <1>1, <1>2, <1>a, <2>2
    <3>2. ~(j <= e)
      BY <1>1, <1>a, <2>2
    <3>3. j \in Nat
      OBVIOUS
    <3>4. ~(Covered(e, j)')
      BY <1>d, <3>1, <3>2, <3>3
    <3>5. t[j].kind # "byte"
      BY <1>1, <1>x, <2>2
    <3> QED
      BY <3>4, <3>5
  <2>3. CASE j = L + 1 /\ w > 0
    <3>1. L + w \in Nat /\ j \in Nat
      BY <1>1
    <3>2. L + w <= e \/ \E i \in 1 .. L : L + w <= i + Payload(s[i])
      BY <1>a, <1>c, <2>3, <3>1
    <3>3. j <= e \/ \E i \in 1 .. L + 1 : i < j /\ j <= i + Payload(t[i])
      <4>1. CASE L + w <= e
        BY <1>1, <2>3, <4>1
      <4>2. ASSUME NEW i \in 1 .. L, L + w <= i + Payload(s[i])
            PROVE  \E k \in 1 .. L + 1 : k < j /\ j <= k + Payload(t[k])
        <5>1. i \in 1 .. L + 1 /\ i < j /\ j <= i + Payload(t[i])
          BY <1>1, <1>2, <2>3, <4>2
        <5> QED
          BY <5>1
      <4> QED
        BY <3>2, <4>1, <4>2
    <3>4. Covered(e, j)'
      BY <1>d, <3>1, <3>3
    <3>5. t[j].kind = "byte"
      BY <1>1, <1>x, <2>3
    <3> QED
      BY <3>4, <3>5
  <2> QED
    BY <1>1, <2>1, <2>2, <2>3
<1>4. e <= (L + 1) + x
  BY <1>1, <1>a, <1>x
<1>5. ASSUME NEW i \in 1 .. L + 1 PROVE i + Payload(t[i]) <= (L + 1) + x
  <2>1. CASE i <= L
    BY <1>1, <1>2, <1>a, <1>x, <2>1
  <2>2. CASE i = L + 1
    BY <1>1, <1>2, <1>x, <2>2
  <2> QED
    BY <1>1, <2>1, <2>2
<1>6. ASSUME x > 0 PROVE Covered(e, (L + 1) + x)'
  <2>0. (L + 1) + x \in Nat
    BY <1>1, <1>x
  <2>1. CASE w = 0
    <3>1. L + 1 \in 1 .. L + 1 /\ L + 1 < (L + 1) + x /\ (L + 1) + x <= (L + 1) + Payload(t[L + 1])
      BY <1>1, <1>6, <1>x, <2>1
    <3> QED
      BY <1>d, <2>0, <3>1
  <2>2. CASE w > 0
    <3>1. (L + 1) + x = L + w
      BY <1>1, <1>x, <2>2
    <3>2. L + w <= e \/ \E i \in 1 .. L : i < L + w /\ L + w <= i + Payload(s[i])
      BY <1>a, <1>c, <2>0, <2>2, <3>1
    <3>3. L + w <= e \/ \E i \in 1 .. L + 1 : i < L + w /\ L + w <= i + Payload(t[i])
      BY <1>1, <3>2
    <3> QED
      BY <1>d, <2>0, <3>1, <3>3
  <2> QED
    BY <1>1, <2>1, <2>2
<1> QED
  BY <1>0, <1>1, <1>3, <1>4, <1>5, <1>6 DEF Aligned

\* What is left of an overlong line is an unknown command.
LEMMA AlignedLong ==
  ASSUME inp \in Seq(Units), inp # <<>>, owed' = owed, NEW e \in Nat, Aligned(e),
         Head(inp).kind = "long", inp' = <<[NoUnit EXCEPT !.kind = "bad"]>> \o Tail(inp)
  PROVE  Aligned(e)'
<1>0. PICK L, s, t : L = Len(inp) /\ s = inp /\ t = inp'
  OBVIOUS
<1>1. /\ L \in Nat /\ L > 0 /\ s[1].kind = "long" /\ s[1] \in Units
  BY <1>0, InpHead
<1>2. PICK b : b = [NoUnit EXCEPT !.kind = "bad"]
  OBVIOUS
<1>3. b \in Units /\ b.kind = "bad"
  BY <1>2, NoUnitTypes DEF NoUnit
<1>4. /\ t \in Seq(Units) /\ Len(t) = L /\ t[1] = b /\ \A i \in 2 .. L : t[i] = s[i]
  <2>1. PICK q : q = Tail(s)
    OBVIOUS
  <2>2. q \in Seq(Units) /\ Len(q) = L - 1 /\ \A i \in 1 .. L - 1 : q[i] = s[i + 1]
    BY <1>0, <1>1, <2>1
  <2>3. t = <<b>> \o q
    BY <1>0, <1>2, <2>1
  <2>4. t \in Seq(Units) /\ Len(t) = L /\ t[1] = b /\ \A i \in 1 .. L - 1 : t[i + 1] = q[i]
    BY <1>1, <1>3, <2>2, <2>3
  <2>5. ASSUME NEW i \in 2 .. L PROVE t[i] = s[i]
    <3>1. i - 1 \in 1 .. L - 1 /\ (i - 1) + 1 = i
      BY <1>1
    <3> QED
      BY <2>2, <2>4, <3>1
  <2> QED
    BY <2>4, <2>5
<1>5. Payload(s[1]) = 0 /\ Payload(t[1]) = 0 /\ (\A i \in 1 .. L : Payload(t[i]) = Payload(s[i]))
      /\ (\A i \in 1 .. L : t[i].kind = "byte" <=> s[i].kind = "byte")
  <2>1. Payload(s[1]) = 0 /\ Payload(t[1]) = 0
    BY <1>1, <1>3, <1>4, PayloadFacts
  <2>2. ASSUME NEW i \in 1 .. L
        PROVE  Payload(t[i]) = Payload(s[i]) /\ (t[i].kind = "byte" <=> s[i].kind = "byte")
    <3>1. CASE i = 1
      BY <1>1, <1>3, <1>4, <2>1, <3>1
    <3>2. CASE i # 1
      <4>1. i \in 2 .. L
        BY <1>1, <3>2
      <4> QED
        BY <1>4, <4>1
    <3> QED
      BY <3>1, <3>2
  <2> QED
    BY <2>1, <2>2
<1>6. ASSUME NEW j PROVE Covered(e, j) <=> Covered(e, j)'
  BY <1>0, <1>4, <1>5 DEF Covered
<1>7. PICK w : w = owed
  OBVIOUS
<1> QED
  BY <1>0, <1>4, <1>5, <1>6, <1>7 DEF Aligned

-----------------------------------------------------------------------------
(* InSync: steps *)

StreamInv == KeptInv /\ Stream

\* The case that InSync is about.
Sound == used /\ setup.dev_fails = {} /\ setup.push_drains
Skipping == state = "PUSH_CYCLIC_BUFFER" /\ cmd_data.dev # "none"

LEMMA StreamTypes ==
  ASSUME StreamInv
  PROVE  /\ inp \in Seq(Units) /\ owed \in Nat /\ Expected \in Nat
         /\ nb_buf \in [len : Nat, idx : Nat] /\ nb_buf.len \in Nat /\ nb_buf.idx \in Nat
         /\ cmd_data.count \in Nat /\ request \in Units /\ request.count \in Nat
         /\ room \in Nat /\ PayloadLen \in Nat \ {0} /\ cmd_data \in CmdData
<1>1. /\ inp \in Seq(Units) /\ owed \in Nat
      /\ nb_buf \in [len : Nat, idx : Nat] /\ nb_buf.len \in Nat /\ nb_buf.idx \in Nat
      /\ cmd_data.count \in Nat /\ request \in Units /\ request.count \in Nat
      /\ room \in Nat /\ PayloadLen \in Nat \ {0} /\ Cursors /\ cmd_data \in CmdData
  BY SetupFacts DEF StreamInv, KeptInv, TypeInv, TypeOK, Units, CmdData
<1>2. CASE state = "READING_WRITE_DATA"
  BY <1>1, <1>2 DEF Expected, Cursors
<1>3. CASE state = "RW_BUF"
  <2>1. PICK x : x = IF nb_buf.len = 0 THEN 0 ELSE nb_buf.idx
    OBVIOUS
  <2>2. x \in Nat /\ x <= cmd_data.count
    BY <1>1, <1>3, <2>1 DEF Cursors
  <2>3. Expected = IF Moving THEN cmd_data.count - x ELSE 0
    BY <1>3, <2>1 DEF Expected
  <2> QED
    BY <1>1, <2>2, <2>3
<1>4. CASE state \notin {"READING_WRITE_DATA", "RW_BUF"}
  BY <1>1, <1>4 DEF Expected, Moving
<1> QED
  BY <1>1, <1>2, <1>3, <1>4

LEMMA ExpectedZero ==
  /\ state \in {"READING_LINE", "PUSH_CYCLIC_BUFFER"} => Expected = 0
  /\ state' \in {"READING_LINE", "PUSH_CYCLIC_BUFFER"} => Expected' = 0
  /\ ~WriteRequest /\ state # "READING_WRITE_DATA" => Expected = 0
  /\ ~WriteRequest' /\ state' # "READING_WRITE_DATA" => Expected' = 0
  BY DEF Expected, Moving

LEMMA StreamHas ==
  ASSUME StreamInv, Sound, ~Skipping PROVE Aligned(Expected) /\ ~parsing
  BY DEF StreamInv, Stream, Sound, Skipping

LEMMA StreamTo ==
  ASSUME NEW e \in Nat, Aligned(e)', Expected' = e, ~parsing' PROVE Stream'
<1>1. Aligned(Expected)'
  BY DEF Aligned, Covered
<1> QED
  BY <1>1 DEF Stream

\* Steps that receive nothing and keep what is expected.
LEMMA StreamSame ==
  ASSUME StreamInv, ~Skipping, UNCHANGED <<inp, owed, setup, used>>, Expected' = Expected,
         ~parsing => ~parsing'
  PROVE  Stream'
<1>1. CASE Sound
  <2>1. PICK e : e = Expected
    OBVIOUS
  <2>2. e \in Nat /\ Aligned(e) /\ ~parsing
    BY <1>1, <2>1, StreamTypes, StreamHas
  <2>3. Aligned(e)'
    BY <2>2 DEF Aligned, Covered
  <2> QED
    BY <2>1, <2>2, <2>3, StreamTo
<1>2. CASE ~Sound
  BY <1>2 DEF Sound, Stream
<1> QED
  BY <1>1, <1>2

LEMMA StreamEnv ==
  ASSUME StreamInv, Client \/ Device \/ ConnStep \/ ConnAdd \/ UNCHANGED vars PROVE Stream'
<1> USE DEF conn, call, client, device, history, env
<1>0. inp \in Seq(Units) /\ owed \in Nat /\ Expected \in Nat
  BY StreamTypes
<1>1. CASE ConnAdd
  <2>1. state' = "READING_LINE" /\ ~parsing' /\ inp' = <<>> /\ owed' = 0
    BY <1>1 DEF ConnAdd, StreamInv, KeptInv, AtRest, Linked
  <2>2. Expected' = 0
    BY <2>1, ExpectedZero
  <2>3. Aligned(0)'
    BY <2>1 DEF Aligned
  <2> QED
    BY <2>1, <2>2, <2>3, StreamTo
<1>2. CASE Client \/ Device \/ ConnStep \/ UNCHANGED vars
  <2>1. UNCHANGED <<setup, used, state, cmd_data, nb_buf, request, parsing>>
    BY <1>2 DEF Client, ClientSend, ClientByte, ClientGone, Device, DeviceFills, DeviceDrains,
       ConnStep, vars
  <2>2. Expected' = Expected /\ Skipping' = Skipping /\ Sound' = Sound
    BY <2>1 DEF Expected, Moving, WriteRequest, Ok, Skipping, Sound
  <2>3. ASSUME NEW e \in Nat, Aligned(e) PROVE Aligned(e)'
    <3>1. CASE ClientSend
      <4>1. PICK u \in setup.lines : inp' = Append(inp, u) /\ owed' = Payload(u) /\ owed = 0
        BY <3>1 DEF ClientSend, Payload
      <4>2. u \in Units /\ u.kind # "byte"
        BY SetupFacts DEF StreamInv, KeptInv, TypeInv, TypeOK
      <4> QED
        BY <1>0, <2>3, <4>1, <4>2, AlignedSend
    <3>2. CASE ClientByte
      <4>1. PICK u : u = [NoUnit EXCEPT !.kind = "byte"]
        OBVIOUS
      <4>2. u \in Units /\ u.kind = "byte"
        BY <4>1, NoUnitTypes DEF NoUnit
      <4>3. inp' = Append(inp, u) /\ owed > 0 /\ owed' = owed - 1
        BY <3>2, <4>1 DEF ClientByte
      <4> QED
        BY <1>0, <2>3, <4>2, <4>3, AlignedSend
    <3>3. CASE ClientGone \/ Device \/ ConnStep \/ UNCHANGED vars
      <4>1. UNCHANGED <<inp, owed>>
        BY <3>3 DEF ClientGone, Device, DeviceFills, DeviceDrains, ConnStep, vars
      <4> QED
        BY <2>3, <4>1 DEF Aligned, Covered
    <3> QED
      BY <1>2, <3>1, <3>2, <3>3 DEF Client
  <2>4. CASE Sound /\ Skipping
    <3>1. PICK e \in Nat : Aligned(e)
      BY <2>4 DEF StreamInv, Stream, Sound, Skipping
    <3>2. \E d \in Nat : Aligned(d)'
      BY <2>3, <3>1
    <3> QED
      BY <2>2, <2>4, <3>2 DEF Stream, Skipping
  <2>5. CASE Sound /\ ~Skipping
    <3>1. PICK e : e = Expected
      OBVIOUS
    <3>2. e \in Nat /\ Aligned(e) /\ ~parsing
      BY <1>0, <2>5, <3>1, StreamHas
    <3>3. Aligned(e)'
      BY <2>3, <3>2
    <3> QED
      BY <2>1, <2>2, <3>1, <3>2, <3>3, StreamTo
  <2>6. CASE ~Sound
    BY <2>2, <2>6 DEF Sound, Stream
  <2> QED
    BY <2>4, <2>5, <2>6
<1> QED
  BY <1>1, <1>2

LEMMA StreamReading ==
  ASSUME StreamInv, Reading PROVE Stream'
<1> USE DEF conn, call, client, device, history, env
<1>0. inp \in Seq(Units) /\ owed \in Nat /\ Expected \in Nat /\ nb_buf.len \in Nat
      /\ nb_buf.idx \in Nat /\ nb_buf \in [len : Nat, idx : Nat]
  BY StreamTypes
<1>1. /\ state \in {"READING_LINE", "READING_WRITE_DATA"} /\ ~Skipping
      /\ UNCHANGED <<setup, used>>
  BY DEF Reading, ReadLineAgain, ReadLineByte, ReadLineTooLong, ReadLine, ReadWriteData, Skipping
<1>2. CASE ~Sound
  BY <1>1, <1>2 DEF Sound, Stream
<1>3. CASE Sound /\ state = "READING_LINE"
  <2>1. Aligned(0) /\ ~parsing /\ 0 \in Nat
    <3>1. Expected = 0
      BY <1>3, ExpectedZero
    <3> QED
      BY <1>1, <1>3, <3>1, StreamHas
  <2>2. inp # <<>> => Head(inp).kind # "byte" /\ Head(inp) \in Units
    BY <1>0, <2>1, AlignedNext, InpHead
  <2>3. CASE ReadLineAgain
    <3>1. Expected' = Expected
      BY <1>3, <2>3, ExpectedZero DEF ReadLineAgain, Again
    <3> QED
      BY <1>1, <2>3, <3>1, StreamSame DEF ReadLineAgain
  <2>4. CASE ReadLineByte
    <3>1. inp # <<>> /\ Head(inp).kind = "empty" /\ ~parsing' /\ Take(1) /\ state' = state
      BY <2>1, <2>2, <2>4 DEF ReadLineByte
    <3>2. Payload(Head(inp)) = 0
      BY <2>2, <3>1, PayloadFacts
    <3>3. Aligned(0)'
      BY <1>0, <2>1, <2>2, <3>1, <3>2, AlignedLine
    <3>4. Expected' = 0
      BY <1>3, <3>1, ExpectedZero
    <3> QED
      BY <2>1, <3>1, <3>3, <3>4, StreamTo
  <2>5. CASE ReadLineTooLong
    <3>1. Aligned(0)'
      BY <1>0, <2>1, <2>5, AlignedLong DEF ReadLineTooLong
    <3>2. state' = "READING_LINE" /\ ~parsing'
      BY <2>5 DEF ReadLineTooLong, Clean
    <3>3. Expected' = 0
      BY <3>2, ExpectedZero
    <3> QED
      BY <2>1, <3>1, <3>2, <3>3, StreamTo
  <2>6. CASE ReadLine
    <3>1. PICK unit, p : unit = Head(inp) /\ p = Payload(Head(inp))
      OBVIOUS
    <3>2. /\ unit \in Units /\ unit.kind # "byte" /\ inp # <<>> /\ Take(1) /\ ~parsing'
          /\ p = Payload(unit) /\ p \in Nat
      BY <2>2, <2>6, <3>1, PayloadFacts DEF ReadLine
    <3>3. Aligned(p)'
      BY <1>0, <2>1, <3>1, <3>2, AlignedLine
    <3>4. CASE unit.kind = "line" /\ unit.cmd = "WRITE"
      <4>1. state' = "READING_WRITE_DATA" /\ nb_buf' = Buff(unit.count, 0)
        BY <2>1, <2>6, <3>1, <3>4 DEF ReadLine, Go, AfterParse
      <4>2. Expected' = unit.count - 0 /\ unit.count \in Nat
        BY <3>2, <4>1 DEF Expected, Buff, Units
      <4>3. Expected' = p
        BY <3>2, <3>4, <4>2 DEF Payload
      <4> QED
        BY <3>2, <3>3, <4>3, StreamTo
    <3>5. CASE unit.kind = "line" /\ unit.cmd # "WRITE"
      <4>1. state' = "RUNNING_CMD" /\ request' = unit
        BY <2>1, <2>6, <3>1, <3>5 DEF ReadLine, Go, AfterParse
      <4>2. Expected' = p
        BY <3>2, <3>5, <4>1 DEF Expected, Moving, WriteRequest, Ok, Payload
      <4> QED
        BY <3>2, <3>3, <4>2, StreamTo
    <3>6. CASE unit.kind # "line"
      <4>1. state' = "WRITING_CMD_RESULT" /\ request' = [unit EXCEPT !.kind = "bad"]
        BY <2>6, <3>1, <3>6 DEF ReadLine, Go, AfterParse
      <4>2. ~WriteRequest' /\ p = 0
        BY <3>2, <3>6, <4>1, PayloadFacts DEF WriteRequest, Ok, Units
      <4>3. Expected' = p
        BY <4>1, <4>2, ExpectedZero
      <4> QED
        BY <3>2, <3>3, <4>3, StreamTo
    <3> QED
      BY <3>4, <3>5, <3>6
  <2> QED
    BY <1>3, <2>3, <2>4, <2>5, <2>6 DEF Reading, ReadWriteData
<1>4. CASE Sound /\ state = "READING_WRITE_DATA"
  <2>1. ReadWriteData /\ nb_buf.idx <= nb_buf.len /\ request.cmd = "WRITE"
    BY <1>4 DEF Reading, ReadLineAgain, ReadLineByte, ReadLineTooLong, ReadLine, StreamInv, KeptInv,
       TypeInv, Cursors, Paired
  <2>2. PICK n, e : n = Received /\ e = Expected
    OBVIOUS
  <2>3. e \in Nat /\ e = nb_buf.len - nb_buf.idx /\ e = Unsent(nb_buf) /\ Aligned(e) /\ ~parsing
    BY <1>0, <1>1, <1>4, <2>2, StreamHas DEF Expected, Unsent
  <2>4. n \in 0 .. Len(inp) /\ n <= e /\ n <= Arrived /\ n \in Nat
    BY <1>0, <2>1, <2>2, <2>3, RecvFacts
  <2>5. \A j \in 1 .. n : inp[j].kind = "byte"
    BY <1>0, <2>4, ArrivedFacts
  <2>6. /\ Take(n) /\ nb_buf' = Buff(nb_buf.len, nb_buf.idx + n) /\ ~parsing' /\ request' = request
        /\ IF n = Unsent(nb_buf) THEN Go("RUNNING_CMD") ELSE Again
    BY <2>1, <2>2, <2>3 DEF ReadWriteData, Received
  <2>7. Aligned(e - n)'
    BY <1>0, <2>3, <2>4, <2>5, <2>6, AlignedTake
  <2>8. CASE n = Unsent(nb_buf)
    <3>1. state' = "RUNNING_CMD" /\ ~WriteRequest'
      BY <2>1, <2>6, <2>8 DEF Go, WriteRequest
    <3>2. Expected' = e - n /\ e - n \in Nat
      BY <2>3, <2>4, <2>8, <3>1, ExpectedZero
    <3> QED
      BY <2>6, <2>7, <3>2, StreamTo
  <2>9. CASE n # Unsent(nb_buf)
    <3>1. state' = "READING_WRITE_DATA"
      BY <1>4, <2>6, <2>9 DEF Again
    <3>2. Expected' = nb_buf.len - (nb_buf.idx + n)
      BY <2>6, <3>1 DEF Expected, Buff
    <3>3. Expected' = e - n /\ e - n \in Nat
      BY <1>0, <2>3, <2>4, <3>2
    <3> QED
      BY <2>6, <2>7, <3>3, StreamTo
  <2> QED
    BY <2>8, <2>9
<1> QED
  BY <1>1, <1>2, <1>3, <1>4

LEMMA StreamGone ==
  ASSUME Gone PROVE Stream'
  BY DEF Gone, Stream

LEMMA StreamRunning ==
  ASSUME StreamInv, Running PROVE Stream'
<1> USE DEF conn, call, client, device, history, env
<1>1. CASE RunExit
  BY <1>1, StreamGone DEF RunExit
<1>2. CASE RunSimple \/ RunText \/ RunWrite
  <2>1. /\ state = "RUNNING_CMD" /\ state' = "WRITING_CMD_RESULT" /\ ~Skipping
        /\ UNCHANGED <<cmd_data, request, inp, owed, setup, used, parsing>>
    BY <1>2 DEF RunSimple, RunText, RunWrite, Go, Skipping
  <2>2. cmd_data.cmd = request.cmd
    BY <2>1 DEF StreamInv, KeptInv, Paired
  <2>3. Expected' = Expected
    BY <2>1, <2>2 DEF Expected, Moving, WriteRequest, Ok
  <2> QED
    BY <2>1, <2>3, StreamSame
<1> QED
  BY <1>1, <1>2 DEF Running

LEMMA StreamWriting ==
  ASSUME StreamInv, Writing PROVE Stream'
<1> USE DEF conn, call, client, device, history, env
<1>a. ~parsing => ~parsing'
  BY DEF Writing, FormatResult, SendValue, SendText, ResultSent, Clean
<1>b. /\ state = "WRITING_CMD_RESULT" /\ ~Skipping
      /\ UNCHANGED <<inp, owed, setup, used, request>>
  BY DEF Writing, FormatResult, SendValue, SendText, ResultSent, Sent, Skipping
<1>0. /\ state = "WRITING_CMD_RESULT" /\ ~Skipping
      /\ UNCHANGED <<inp, owed, setup, used, request>> /\ (~parsing => ~parsing')
  BY <1>a, <1>b
<1>1. CASE FormatResult \/ SendValue \/ SendText
  <2>1. state' = state /\ UNCHANGED cmd_data
    BY <1>1 DEF FormatResult, SendValue, SendText, Go, Again
  <2>2. Expected' = Expected
    BY <1>0, <2>1 DEF Expected, Moving, WriteRequest, Ok
  <2> QED
    BY <1>0, <2>2, StreamSame
<1>2. CASE ResultSent
  <2>1. CASE ~Sound
    BY <1>0, <2>1 DEF Sound, Stream
  <2>2. CASE /\ Sound /\ state' = "RW_BUF" /\ cmd_data.cmd \in BufferCmds /\ nb_buf' = Buff(0, 0)
             /\ UNCHANGED cmd_data
    <3>1. CASE WriteRequest
      <4>1. cmd_data.cmd = "WRITEBUF" /\ cmd_data.count = request.count
        BY <1>0, <2>2, <3>1 DEF StreamInv, KeptInv, Paired, Kept, Tally, BufferCmds, WriteRequest,
           Sound
      <4>2. Expected = request.count
        BY <1>0, <3>1, <4>1 DEF Expected, Moving
      <4>3. Moving' /\ nb_buf'.len = 0
        BY <1>0, <2>2, <3>1 DEF Moving, WriteRequest, Ok, Buff
      <4>4. Expected' = cmd_data.count - 0
        BY <2>2, <4>3 DEF Expected
      <4>5. Expected' = Expected
        BY <4>1, <4>2, <4>4, StreamTypes
      <4> QED
        BY <1>0, <4>5, StreamSame
    <3>2. CASE ~WriteRequest
      <4>1. ~WriteRequest'
        BY <1>0, <3>2 DEF WriteRequest, Ok
      <4>2. Expected' = Expected
        BY <1>0, <2>2, <3>2, <4>1, ExpectedZero
      <4> QED
        BY <1>0, <4>2, StreamSame
    <3> QED
      BY <3>1, <3>2
  <2>3. CASE state' \in {"READING_LINE", "PUSH_CYCLIC_BUFFER"} /\ cmd_data.cmd \notin BufferCmds
    <3>1. Expected = 0
      BY <1>0, <2>3 DEF Expected, Moving, BufferCmds
    <3>2. Expected' = Expected
      BY <2>3, <3>1, ExpectedZero
    <3> QED
      BY <1>0, <3>2, StreamSame
  <2> QED
    BY <1>2, <2>1, <2>2, <2>3 DEF ResultSent, Go, Clean
<1> QED
  BY <1>1, <1>2 DEF Writing

LEMMA StreamReadBuf ==
  ASSUME StreamInv,
         ReadBufAgain \/ ReadBufFails \/ ReadBufFetch \/ ReadBufSend \/ ReadBufDelayed
  PROVE  Stream'
<1> USE DEF conn, call, client, device, history, env
<1>1. /\ state = "RW_BUF" /\ cmd_data.cmd = "READBUF" /\ UNCHANGED <<setup, request, inp, owed>>
      /\ state' # "READING_WRITE_DATA" /\ (~parsing => ~parsing') /\ ~Skipping
  BY DEF ReadBufAgain, ReadBufFails, ReadBufFetch, ReadBufSend, ReadBufDelayed, Fetching, ReadBuf,
         Sent, Again, Clean, Skipping
<1>2. ~WriteRequest /\ ~WriteRequest'
  BY <1>1 DEF StreamInv, KeptInv, Paired, WriteRequest, Ok
<1>3. Expected' = Expected
  BY <1>1, <1>2, ExpectedZero
<1>4. CASE used' = used
  BY <1>1, <1>3, <1>4, StreamSame
<1>5. CASE used' = FALSE
  BY <1>5 DEF Stream
<1> QED
  BY <1>4, <1>5 DEF ReadBufAgain, ReadBufFails, ReadBufFetch, ReadBufSend, ReadBufDelayed

LEMMA StreamWriteBuf ==
  ASSUME StreamInv, WriteBufStart \/ WriteBufRecv \/ WriteBufFails \/ WriteBufStore
  PROVE  Stream'
<1> USE DEF conn, call, client, device, history, env
<1>0. /\ state = "RW_BUF" /\ cmd_data.cmd = "WRITEBUF" /\ UNCHANGED <<setup, request, used>>
      /\ ~Skipping /\ (~parsing => ~parsing')
  BY DEF WriteBufStart, WriteBufRecv, WriteBufFails, WriteBufStore, Storing, WriteBuf, Clean,
         Skipping
<1>t. /\ inp \in Seq(Units) /\ owed \in Nat /\ Expected \in Nat
      /\ nb_buf \in [len : Nat, idx : Nat] /\ nb_buf.len \in Nat /\ nb_buf.idx \in Nat
      /\ cmd_data.count \in Nat /\ room \in Nat /\ PayloadLen \in Nat \ {0} /\ cmd_data \in CmdData
      /\ nb_buf.len <= cmd_data.count
      /\ nb_buf.len > 0 => nb_buf.idx <= nb_buf.len
      /\ TypeInv
  BY <1>0, StreamTypes DEF StreamInv, KeptInv, TypeInv, Cursors
<1>1. CASE ~Sound
  BY <1>0, <1>1 DEF Sound, Stream
<1>2. CASE ~Ok
  <2>1. cmd_data.count = 0 /\ nb_buf.len = 0 /\ ~WriteRequest /\ ~WriteRequest'
    BY <1>0, <1>2, <1>t DEF StreamInv, KeptInv, Paired, WriteRequest, Ok
  <2>2. Storable = 0
    BY <1>t, <2>1, StorableFacts
  <2>3. WriteBufFails
    BY <1>t, <2>1, <2>2 DEF WriteBufStart, WriteBufRecv, WriteBufStore
  <2>4. UNCHANGED <<inp, owed>> /\ state' = "READING_LINE"
    BY <2>3 DEF WriteBufFails, Clean
  <2>5. Expected' = Expected
    BY <1>0, <2>1, <2>4, ExpectedZero
  <2> QED
    BY <1>0, <2>4, <2>5, StreamSame
<1>3. CASE Sound /\ Ok
  <2>1. Moving /\ WriteRequest' /\ WriteRequest
    BY <1>0, <1>3 DEF StreamInv, KeptInv, Paired, WriteRequest, Moving, Ok
  <2>2. room >= cmd_data.count /\ setup.dev_fails = {}
    BY <1>3, <2>1 DEF StreamInv, KeptInv, Kept, Ring, Sound
  <2>3. Expected = cmd_data.count - (IF nb_buf.len = 0 THEN 0 ELSE nb_buf.idx)
    BY <1>0, <2>1 DEF Expected
  <2>4. CASE WriteBufStart
    <3>1. /\ nb_buf.len = 0 /\ nb_buf'.idx = 0 /\ UNCHANGED <<state, cmd_data, inp, owed>>
      BY <2>4 DEF WriteBufStart, Buff
    <3>2. Moving'
      BY <2>1, <3>1 DEF Moving
    <3>3. Expected' = cmd_data.count - 0
      BY <1>0, <3>1, <3>2 DEF Expected
    <3>4. Expected' = Expected
      BY <1>t, <2>3, <3>1, <3>3
    <3> QED
      BY <1>0, <3>1, <3>4, StreamSame
  <2>5. CASE WriteBufRecv
    <3>1. nb_buf.idx < nb_buf.len
      BY <2>5 DEF WriteBufRecv
    <3>2. PICK n, e : n = Received /\ e = Expected
      OBVIOUS
    <3>3. e \in Nat /\ e = cmd_data.count - nb_buf.idx /\ Aligned(e) /\ ~parsing
      BY <1>0, <1>3, <1>t, <2>3, <3>1, <3>2, StreamHas
    <3>4. n \in 0 .. Len(inp) /\ n <= nb_buf.len - nb_buf.idx /\ n <= Arrived /\ n \in Nat
      BY <1>t, <3>1, <3>2, RecvFacts
    <3>5. n <= e
      BY <1>t, <3>1, <3>3, <3>4
    <3>6. \A j \in 1 .. n : inp[j].kind = "byte"
      BY <1>t, <3>4, ArrivedFacts
    <3>7. /\ Take(n) /\ nb_buf' = Buff(nb_buf.len, nb_buf.idx + n) /\ ~parsing'
          /\ state' = state /\ cmd_data' = cmd_data
      BY <2>5, <3>2, <3>3 DEF WriteBufRecv, Received, Go, Again
    <3>8. Aligned(e - n)'
      BY <1>t, <3>3, <3>4, <3>5, <3>6, <3>7, AlignedTake
    <3>9. Moving' /\ nb_buf'.len = nb_buf.len /\ nb_buf'.idx = nb_buf.idx + n
      BY <2>1, <3>7 DEF Moving, Buff
    <3>10. Expected' = cmd_data.count - (nb_buf.idx + n)
      BY <1>0, <1>t, <3>1, <3>7, <3>9 DEF Expected
    <3>11. Expected' = e - n /\ e - n \in Nat
      <4>1. PICK c, x : c = cmd_data.count /\ x = nb_buf.idx
        OBVIOUS
      <4>2. c \in Nat /\ x \in Nat /\ e \in Nat /\ n \in Nat /\ n <= e /\ e = c - x
        BY <1>t, <3>3, <3>4, <3>5, <4>1
      <4>3. c - (x + n) = e - n /\ e - n \in Nat
        BY <4>2
      <4> QED
        BY <3>10, <4>1, <4>3
    <3> QED
      BY <3>7, <3>8, <3>11, StreamTo
  <2>6. CASE WriteBufFails
    <3>1. Storable = 0 /\ (nb_buf.len = 0 => cmd_data.count = 0)
      BY <2>2, <2>6 DEF WriteBufFails, Storing
    <3>2. nb_buf.len = 0 /\ cmd_data.count = 0
      BY <1>t, <2>2, <3>1, StorableFacts
    <3>3. Expected = 0
      BY <2>3, <3>2
    <3>4. UNCHANGED <<inp, owed>> /\ state' = "READING_LINE"
      BY <2>6 DEF WriteBufFails, Clean
    <3>5. Expected' = Expected
      BY <3>3, <3>4, ExpectedZero
    <3> QED
      BY <1>0, <3>4, <3>5, StreamSame
  <2>7. CASE WriteBufStore
    <3>1. nb_buf.len > 0 /\ nb_buf.idx >= nb_buf.len
      <4>1. Storable > 0 /\ nb_buf.idx >= nb_buf.len
        BY <2>7 DEF WriteBufStore, Storing
      <4> QED
        BY <1>t, <4>1, StorableFacts
    <3>2. nb_buf.idx = nb_buf.len
      BY <1>t, <3>1
    <3>3. Expected = cmd_data.count - nb_buf.len
      BY <1>t, <2>3, <3>1, <3>2
    <3>4. UNCHANGED <<inp, owed>>
      BY <2>7 DEF WriteBufStore
    <3>5. CASE cmd_data' = ChunkDone /\ nb_buf' = Buff(0, nb_buf.idx) /\ Again
      <4>1. state' = state /\ nb_buf'.len = 0 /\ cmd_data'.count = cmd_data.count - nb_buf.len
        BY <1>t, <3>5 DEF Again, Buff, ChunkDone, CmdData
      <4>2. Moving'
        BY <1>0, <2>1, <4>1 DEF Moving
      <4>3. Expected' = cmd_data'.count - 0
        BY <1>0, <4>1, <4>2 DEF Expected
      <4>4. Expected' = Expected
        BY <1>t, <3>3, <4>1, <4>3
      <4> QED
        BY <1>0, <3>4, <4>4, StreamSame
    <3>6. CASE /\ ~MoreChunks /\ Go("WRITING_CMD_RESULT")
               /\ cmd_data' = [cmd_data EXCEPT !.cmd = "PRINT", !.count = 0]
      <4>1. state' = "WRITING_CMD_RESULT" /\ cmd_data'.cmd = "PRINT"
        BY <1>t, <3>6 DEF Go, CmdData
      <4>2. Expected' = 0
        BY <4>1 DEF Expected, Moving
      <4>3. Expected = 0
        BY <1>t, <3>3, <3>6 DEF MoreChunks
      <4> QED
        BY <1>0, <3>4, <4>2, <4>3, StreamSame
    <3> QED
      BY <2>2, <2>7, <3>5, <3>6 DEF WriteBufStore
  <2> QED
    BY <2>4, <2>5, <2>6, <2>7
<1> QED
  BY <1>1, <1>2, <1>3

LEMMA StreamCyclic ==
  ASSUME StreamInv, Cyclic PROVE Stream'
<1> USE DEF conn, call, client, device, history, env
<1>0. /\ state = "PUSH_CYCLIC_BUFFER" /\ UNCHANGED <<setup, used>> /\ inp \in Seq(Units)
      /\ owed \in Nat /\ parsing \in BOOLEAN
  BY StreamTypes DEF Cyclic, PushFails, PushAnother, PushByte, PushLine, Pushed, Pushing, vars,
     StreamInv, KeptInv, TypeInv, TypeOK
<1>1. CASE ~Sound
  BY <1>0, <1>1 DEF Sound, Stream
<1>2. CASE PushAnother
  BY <1>2, StreamEnv DEF PushAnother
<1>3. CASE Sound /\ PushFails
  <2>1. ~Skipping /\ UNCHANGED <<inp, owed>> /\ state' = "READING_LINE" /\ ~parsing'
    BY <1>3 DEF PushFails, Skipping, Sound
  <2>2. Expected' = Expected
    BY <1>0, <2>1, ExpectedZero
  <2> QED
    BY <1>0, <2>1, <2>2, StreamSame
<1>4. CASE Sound /\ (PushByte \/ PushLine)
  <2>1. Skipping /\ inp # <<>> /\ Take(1)
    BY <1>0, <1>4 DEF PushByte, PushLine, Pushed, Skipping
  <2>2. PICK e \in Nat : Aligned(e)
    BY <1>4, <2>1 DEF StreamInv, Stream, Sound, Skipping
  <2>3. PICK unit, p : unit = Head(inp) /\ p = Payload(Head(inp))
    OBVIOUS
  <2>4. unit \in Units /\ p \in Nat /\ p = Payload(unit) /\ 1 \in 0 .. Len(inp) /\ unit = inp[1]
    BY <1>0, <2>1, <2>3, InpHead, PayloadFacts
  <2>5. unit.kind # "byte" => Aligned(p)'
    BY <1>0, <2>1, <2>2, <2>3, <2>4, AlignedLine
  <2>6. unit.kind = "byte" => e - 1 \in Nat /\ Aligned(e - 1)'
    <3> SUFFICES ASSUME unit.kind = "byte" PROVE e - 1 \in Nat /\ Aligned(e - 1)'
      OBVIOUS
    <3>1. e > 0
      BY <1>0, <2>1, <2>2, <2>3, AlignedNext
    <3>2. 1 <= e /\ e - 1 \in Nat /\ \A j \in 1 .. 1 : inp[j].kind = "byte"
      BY <2>4, <3>1
    <3> QED
      BY <1>0, <2>1, <2>2, <2>4, <3>2, AlignedTake
  <2>7. \E d \in Nat : Aligned(d)'
    BY <2>4, <2>5, <2>6
  <2>8. CASE PushByte
    <3>1. Skipping'
      BY <2>1, <2>8 DEF PushByte, Skipping
    <3> QED
      BY <2>7, <3>1 DEF Stream, Skipping
  <2>9. CASE PushLine /\ IsClose(unit)
    <3>1. /\ state' = "RUNNING_CMD" /\ request' = unit /\ unit.kind = "line" /\ unit.cmd = "CLOSE"
          /\ ~parsing'
      BY <2>3, <2>9 DEF PushLine, IsClose, Go
    <3>2. p = 0 /\ ~WriteRequest'
      BY <2>4, <3>1 DEF Payload, WriteRequest
    <3>3. Expected' = p
      BY <3>1, <3>2, ExpectedZero
    <3> QED
      BY <2>4, <2>5, <3>1, <3>3, StreamTo
  <2>10. CASE PushLine /\ ~IsClose(unit)
    <3>1. state' = state /\ cmd_data' = Parsed(unit)
      BY <2>3, <2>10 DEF PushLine
    <3>2. unit.dev # "none"
      BY <2>4 DEF Units
    <3>3. Skipping'
      BY <2>1, <3>1, <3>2 DEF Parsed, Skipping
    <3> QED
      BY <2>7, <3>3 DEF Stream, Skipping
  <2> QED
    BY <1>4, <2>8, <2>9, <2>10
<1> QED
  BY <1>1, <1>2, <1>3, <1>4 DEF Cyclic

LEMMA StreamStep ==
  ASSUME Fits, StreamInv, [Next]_vars PROVE StreamInv'
<1>1. KeptInv'
  BY KeptStep DEF StreamInv
<1>2. Disconnected => Stream'
  BY StreamGone DEF Disconnected
<1>3. Stream'
  BY <1>2, StreamEnv, StreamReading, StreamRunning, StreamWriting, StreamReadBuf, StreamWriteBuf,
     StreamCyclic DEF Next, RunState, Buffering
<1> QED
  BY <1>1, <1>3 DEF StreamInv

\* After every command that went well the next thing the daemon receives is a line, never
\* a byte of payload it would take for one: for every payload buffer, ring and sequence of
\* commands, the ones ignored while a cyclic buffer is pushed included.
THEOREM StaysInSync == Fits => (Spec => []InSync)
<1> SUFFICES ASSUME Fits PROVE Spec => []InSync
  OBVIOUS
<1>1. Init => StreamInv
  <2> SUFFICES ASSUME Init PROVE StreamInv
    OBVIOUS
  <2>1. KeptInv
    BY KeptInit
  <2>2. state = "READING_LINE" /\ inp = <<>> /\ owed = 0 /\ ~parsing
    BY DEF Init
  <2>3. Expected = 0
    BY <2>2, ExpectedZero
  <2>4. Aligned(0)
    BY <2>2 DEF Aligned
  <2>5. Stream
    BY <2>2, <2>3, <2>4 DEF Stream
  <2> QED
    BY <2>1, <2>5 DEF StreamInv
<1>2. StreamInv /\ [Next]_vars => StreamInv'
  BY StreamStep
<1>3. StreamInv => InSync
  <2> SUFFICES ASSUME StreamInv, ret = "done", inp # <<>>, setup.dev_fails = {},
                      setup.push_drains
               PROVE  Head(inp).kind # "byte"
    BY DEF InSync
  <2>1. used /\ state = "READING_LINE" /\ inp \in Seq(Units)
    BY DEF StreamInv, KeptInv, AtRest, Linked, TypeInv, TypeOK
  <2>2. Aligned(0)
    <3>1. Expected = 0
      BY <2>1, ExpectedZero
    <3> QED
      BY <2>1, <3>1 DEF StreamInv, Stream
  <2> QED
    BY <2>1, <2>2, AlignedNext
<1> QED
  BY <1>1, <1>2, <1>3, PTL DEF Spec
=============================================================================
