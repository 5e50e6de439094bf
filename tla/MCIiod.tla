------------------------------- MODULE MCIiod -------------------------------
(* Model checking of Iiod: the lines that clients send. *)
EXTENDS Iiod

Line(cmd, dev, count, cyclic) ==
  [kind |-> "line", cmd |-> cmd, dev |-> dev, count |-> count,
   cyclic |-> cyclic]
Other(kind, cmd) ==
  [kind |-> kind, cmd |-> cmd, dev |-> "a", count |-> 0, cyclic |-> FALSE]

\* One line of each kind of command, those that are not commands, and those
\* that lack what READBUF and WRITEBUF need.
Commands ==
  {Line("SET", "a", 0, FALSE), Line("HELP", "a", 0, FALSE),
   Line("PRINT", "a", 0, FALSE), Line("VERSION", "a", 0, FALSE),
   Line("READ", "a", 0, FALSE), Line("WRITE", "a", 2, FALSE),
   Line("EXIT", "a", 0, FALSE), Line("READBUF", "a", 0, FALSE),
   Other("bad", "READBUF"), Other("bad", "WRITEBUF"),
   Other("bad", "HELP"), Other("empty", "HELP"), Other("long", "HELP")}

\* Buffer transfers of one and of several chunks.
Transfers ==
  {Line("OPEN", "a", 0, FALSE), Line("CLOSE", "a", 0, FALSE),
   Line("READBUF", "a", 3, FALSE), Line("WRITEBUF", "a", 3, FALSE),
   Line("READBUF", "a", 1, FALSE), Line("WRITEBUF", "a", 1, FALSE)}

\* Transfers that fit the payload buffer, and one that does not.
ShortTransfers ==
  {Line("OPEN", "a", 0, FALSE), Line("READBUF", "a", 2, FALSE),
   Line("WRITEBUF", "a", 2, FALSE)}
NetTransfers == ShortTransfers \union {Line("READBUF", "a", 3, FALSE)}

\* Cyclic use, on one device and with a second one around.
CyclicUse ==
  {Line("OPEN", "a", 0, TRUE), Line("WRITEBUF", "a", 1, FALSE),
   Line("CLOSE", "a", 0, FALSE), Other("empty", "HELP"),
   Other("long", "HELP")}
CyclicTwo == CyclicUse \union {Line("READ", "b", 0, FALSE)}

\* A serial link, devices that do not fail, clients that stay.
Base ==
  [network |-> FALSE, dev_size |-> 3, lines |-> Transfers, dev_fails |-> {},
   newline_short |-> FALSE, push_drains |-> TRUE, disconnects |-> FALSE,
   max_cmds |-> 3, max_short |-> 1]

\* Line commands, short sends, clients that vanish.
LineCommands ==
  [Base EXCEPT !.lines = Commands, !.dev_size = 1, !.disconnects = TRUE]
\* Buffers over a serial link, with two short sends anywhere.
Serial == [Base EXCEPT !.max_short = 2]
\* Buffers over the network, with a short send anywhere.
OverNetwork ==
  [Base EXCEPT !.network = TRUE, !.lines = NetTransfers,
               !.disconnects = TRUE]
\* Devices that fail in mid-transfer, and a ring that fills up.
Faults ==
  [Base EXCEPT !.dev_fails = {"read", "write"}, !.push_drains = FALSE,
               !.max_cmds = 2]
\* A cyclic buffer whose push may fail.
CyclicPush ==
  [Base EXCEPT !.lines = CyclicUse, !.dev_fails = {"push"}, !.dev_size = 1,
               !.max_cmds = 4, !.max_short = 0]

AllSetups == {LineCommands, Serial, OverNetwork, Faults, CyclicPush}

CyclicQuiet ==
  {[Base EXCEPT !.lines = CyclicUse, !.max_short = 0]}
NetworkBig ==
  {[Base EXCEPT !.network = TRUE, !.max_cmds = 1, !.max_short = 0]}
NetworkShort ==
  {[Base EXCEPT !.network = TRUE, !.lines = ShortTransfers, !.max_cmds = 1]}
LoneNewline ==
  {[Base EXCEPT !.lines = Commands, !.newline_short = TRUE, !.max_cmds = 2]}
PushError ==
  {[Base EXCEPT !.lines = ShortTransfers, !.dev_fails = {"push"},
                !.max_cmds = 2, !.max_short = 0]}
FullRing == {[Base EXCEPT !.push_drains = FALSE, !.max_cmds = 2, !.max_short = 0]}
SmallRing == {[Base EXCEPT !.dev_size = 2, !.max_short = 0]}
BrokenOff == {[Base EXCEPT !.disconnects = TRUE, !.max_short = 0]}
RefillError ==
  {[Base EXCEPT !.lines = ShortTransfers, !.dev_fails = {"refill"},
                !.max_cmds = 2, !.max_short = 0]}
Malformed ==
  {[Base EXCEPT !.lines = Commands, !.max_cmds = 1, !.max_short = 0]}
TwoDevices ==
  {[Base EXCEPT !.lines = CyclicTwo, !.max_cmds = 4, !.max_short = 0]}
=============================================================================
