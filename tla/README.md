# Verification of the no-OS framework

TLA+ models, TLC runs and TLAPS proofs for the framework part of the no-OS
repository: the data structures, the IIO subsystem and the services that run
between a chip driver and a client program. Paths below are relative to the
root of the repository (`src/` in `PROJECT.json`).

no-OS runs on bare metal: one main loop, interrupt handlers that may preempt it
anywhere, DMA engines that move data behind its back, no locks by default (the
mutex functions are empty weak stubs) and clients connected by a UART or by TCP.
What is hard to test there is what this project is about: preemption between two
stores, transfers cut short, calls that fail half-way, counters that wrap, and
loops that never come back.

## 1. Inventory

| Component | State | Operations | Interacts with |
|---|---|---|---|
| Circular buffer, `util/no_os_circular_buffer.c` | two pointers (index, spin counter, open transaction), the memory | init/cfg, size, write, read, prepare/end of asynchronous writes and reads | IIO buffers; DMA engines fill or drain the block of an open transaction; interrupt handlers push scans |
| UART FIFO, `util/no_os_lf256fifo.c` | two 8-bit indices, 256 bytes | write, read, flush, full, empty | receive interrupt of a UART driver against the main loop |
| IIO devices and triggers, `iio/iio.c`, `iio/iio_trigger.c` | per device: buffer, allocation flag, mask, linked trigger; per trigger: flag, interrupt enable | OPEN, CLOSE, SETTRIG, trigger interrupt, software trigger, asynchronous scan, block interface | called by the daemon; calls drivers; owns circular buffers |
| IIO daemon, `iio/iiod.c` | per connection: state, parsed command, result, two transfer cursors, cyclic flag | `iiod_conn_add`, `iiod_conn_step`, `iiod_conn_remove`; one case of `iiod_run_state` per state | transport (UART or socket) on one side, the operations of `iio.c` on the other |
| IIO server loop, `iio/iio.c` (`iio_step`), `iio/iio_app/iio_app.c` | queue of connections | accept clients, pop, step, push back or remove | daemon, sockets, triggers |
| TCP sockets, `network/tcp_socket.c`, `network/lwip_raw_socket/lwip_socket.c` | table of sockets, chains of received packets | open, bind, listen, accept, send, receive, close; lwIP callbacks | server loop, lwIP |
| WiFi sockets, `network/wifi/wifi.c` over `network/wifi/at_parser.c` | sockets, connection ids and their rings, buffer of answers, state of the receive parser | open, connect, accept, send, receive, close: a command and the wait for its answer; receive interrupt | UART interrupt, WiFi module, MQTT and IIO clients |
| DMA, `drivers/api/no_os_dma.c`, `drivers/platform/maxim/common/maxim_dma.c`, SPI over DMA in `max32665/maxim_spi.c` | channels with a list of transfers, event actions, per job the arrays of transfers | acquire, release, configure, start, abort; completion interrupt; synchronous and asynchronous SPI transfers | SPI devices, interrupt controller |
| JESD204, `jesd204/` | topology, links | start, stop: callbacks of every device in every state | converter and clock drivers |
| Bus API, `drivers/api/no_os_i2c.c`, `no_os_spi.c` | table of shared buses with a reference count and a mutex | init, remove, transfers | every chip driver |
| Lists and packet FIFO, `util/no_os_list.c`, `util/no_os_fifo.c` | linked nodes | add, get, edit, remove, iterate; insert, remove | device and action tables |
| Numeric helpers, `util/no_os_crc*.c`, `no_os_pid.c`, `no_os_util.c` | none | pure functions | drivers |
| Chip drivers, platforms, projects | register values | initialise, configure, transfer | hardware |

What makes each correct, and what is hard about it:

* **Circular buffer** - the reader gets what the writer wrote, in order; losing
  data is noticed; no copy leaves the memory; every call ends. Writer and reader
  are an interrupt (or a DMA engine) and the main loop; a pointer is updated by
  two stores; `spin_count` wraps.
* **UART FIFO** - accepted bytes come out, once, in order. Lock-free between an
  interrupt and the main loop; the indices wrap by overflow.
* **IIO devices** - a handler runs once per trigger event and only while there is
  a buffer to push to; the allocation flag is the truth; interrupts are enabled
  exactly while a device that needs them is open. Interrupts hit between any two
  statements of OPEN, CLOSE and the scan; callbacks fail.
* **IIO daemon** - every command is answered completely and in the format the
  client expects; payload is never taken for a command; a step returns. Every
  send may be short, the client may vanish, the device may fail or be slow in the
  middle of a transfer.
* **Server loop and sockets** - no connection is served after it was removed or
  starves; a socket slot is not used by two clients; running out of slots hurts
  only the new client. lwIP closes, resets and reuses slots in its callbacks,
  and the server notices one round later.
* **WiFi sockets** - an answer belongs to the command that waits; payload reaches
  the socket of its peer. The module answers late or never, and the interrupt
  closes connections between any two statements of the socket functions.
* **DMA** - a list is only touched while its channel is quiet; "done" means both
  directions are done; every job ends. RX and TX complete in any order, in
  interrupts, while the next job is being set up.
* **JESD204** - in every state each device is called once, in the order of
  dependency, whatever the order of links and devices; a failure is reported.
* **Bus API** - a bus lives as long as a device uses it, and one transfer at a
  time is on it.

The hazards that follow from this are listed, each at its line, under
`hazards` in `PROJECT.json`.

## 2. Plan

Done, in this order: circular buffer (with its abstract specification and the
proofs), UART FIFO, devices and triggers, the daemon's connection; then the
network server (server loop composed with the socket table), DMA, WiFi sockets,
bus table, JESD204.

Modelling that is left: the block interface of `iio.c` (`iio_call_submit`,
`iio_buffer_get_block`, `iio_buffer_block_done`) over `CircularBuffer`, of which
only the transaction it may leave open is modelled (`Abandons`); client sockets
over lwIP; the CRC functions as operators checked against polynomial
division.

Theorems: done for the circular buffer, the UART FIFO, the devices and triggers,
the daemon, the network server, the bus table, the WiFi sockets, DMA and JESD204:
every invariant a run checks, and both refinements, are proved (section 6). Only
the liveness properties stay with TLC.

## 3. Modules

### ByteStream, CircularBuffer (`util/no_os_circular_buffer.c`)

`ByteStream` is the promise of both byte buffers: a FIFO of at most `Capacity`
bytes, which its reader may empty at once where it can be flushed (`Flushed`,
`Discard`). A byte is its position in the stream, so "the right byte" is a number.
The circular buffer implements it with `Size` bytes and without flushing, the
UART FIFO with `N - 1` bytes and flushing.

`CircularBuffer` has the two `no_os_cb_ptr` records, the memory, and for each
side the call it is in. A step is one access to state the other side uses too:

| Action | Code |
|---|---|
| `StartWrite`, `StartRead` | entry of `no_os_cb_write`/`read` and of the `prepare_async` functions |
| `WBusy`, `RBusy` | `-EBUSY` of a transaction that is open already: an asynchronous call returns it, a blocking call asks again for ever (the loop of lines 275-280) |
| `WAbandon`, `RAbandon` | a caller that starts a transaction and never ends it, as `iio_call_submit` does when the driver fails (`iio/iio.c:1291`) |
| `WPrepare` | `no_os_cb_prepare_async_operation` for the writer |
| `WCopyByte`, `RCopyByte` | one byte of the `memcpy`, or of the DMA transfer |
| `WEndSpin`, `WEndIdx`, `REndSpin`, `REndIdx` | the two stores of `no_os_cb_end_async_operation`, and the loop of `no_os_cb_operation` |
| `RSpins`, `RSize` | the two halves of `no_os_cb_size`: spin counters, then indices |
| `RResync`, `RResyncIdx` | the stores after an overrun |
| `RPrepare`, `RPrepareNothing`, `REndNotStarted` | start of a transaction, and the paths on which none is started |

`Preemptible` names the sides whose calls the other side can interrupt: `{}` is
one call at a time (the open block of a DMA transfer still overlaps with calls of
the other side), `{"writer"}` a reader in an interrupt handler, both is two
threads. `Checked` restricts requests as `iio_read_buffer` and
`iio_write_buffer` do, which ask `no_os_cb_size` first; without it callers ask
for anything. `Abandons` names the sides whose caller may leave a transaction open.
`SpinMod` is the range of `spin_count`. `wtotal`, `rtotal`, `out` and `abandoned`
are history: the positions in the stream and the sides with a transaction left
open, used only by properties. The model is the default build. Built with
`IIO_IGNORE_BUFF_OVERRUN_ERR` (some projects, such as `swiot1l` and
`adxrs290-pmdz`), lines 194-196 leave out the store of `RResyncIdx`, and
`ResyncOldest` does not hold.

### Lf256Fifo (`util/no_os_lf256fifo.c`)

`WriteTest`, `WriteStore`, `WritePublish` are the three accesses of
`lf256fifo_write` in the receive interrupt; `ReadTest`, `ReadLoad`,
`ReadAdvance` those of `lf256fifo_read`, and `Flush` of `lf256fifo_flush`.
`N` stands for 256. The interrupt comes whenever it likes and the main loop may
let the FIFO fill up. With `N - 1` bytes from slot 0 on the test of
`lf256fifo_is_full` compares 0 with 256 and does not see that the FIFO is full:
`overflowed` remembers that a byte was accepted in this state, and is all that
the properties except. `RefusedWhenFull` says that it is the only such state.
`FifoImplementsStream` maps the FIFO to `ByteStream` until then: a byte is accepted
when `fempty` moves and handed out when it is loaded (`HandedOut`), before
`ffilled` moves.

### IioDevice (`iio/iio.c`, `iio/iio_trigger.c`)

The main loop is a cycle of `iio_process_async_triggers` (`ScanSkip`,
`ScanHandle`, `ScanClear`: a device is looked at, its handler runs, a flag is
cleared) and one client command (`NoCommand`, `SetTrigger`, `TriggerNow`,
`OpenFree` - `OpenAlloc` - `OpenEnable` or `OpenFails`, `CloseFree` -
`CloseDisable` or `CloseFails`). `Interrupt(t)` is `iio_hw_trig_handler` of an
enabled trigger and comes between any two of them. A buffer is represented by the
state of its memory, a mask by whether it is zero. Devices may share a trigger,
and their numbers need not agree with those of the triggers. The scan clears
`trigs[i].triggered` after the handler of device `i`, so that only the flag of a
trigger whose own device is linked to it is ever cleared (`Cleared`). CLOSE of one
device disables a trigger another one is open on; `ArmedWhileOpen` is about
triggers all of whose devices are open, `OpenStaysArmed` in section 5 about the
others.

### Iiod (`iio/iiod.c`)

One connection slot. The client appends units (lines, payload bytes) to `inp`; a
line is the record `iiod_parse_line` makes of it. `ConnStep` enters
`iiod_conn_step`, after which the actions of `RunState` are the cases of
`iiod_run_state`, split at calls of the transport and of the device:

| State of the code | Actions |
|---|---|
| `IIOD_READING_LINE` | `ReadLineAgain`, `ReadLineByte`, `ReadLineTooLong`, `ReadLine` |
| `IIOD_READING_WRITE_DATA` | `ReadWriteData` |
| `IIOD_RUNNING_CMD` | `RunSimple`, `RunExit`, `RunText`, `RunWrite` |
| `IIOD_WRITING_CMD_RESULT` | `FormatResult`, `SendValue`, `SendText`, `ResultSent` |
| `IIOD_RW_BUF`, READBUF | `ReadBufAgain`, `ReadBufFails`, `ReadBufFetch`, `ReadBufSend`, `ReadBufDelayed` (network) |
| `IIOD_RW_BUF`, WRITEBUF | `WriteBufStart`, `WriteBufRecv`, `WriteBufFails`, `WriteBufStore` |
| `IIOD_PUSH_CYCLIC_BUFFER` | `PushFails`, `PushAnother`, `PushByte`, `PushLine` |

`Go`, `Again` and `Clean` are the three ways a pass of the loop in
`iiod_conn_step` ends: 0 and on, `-EAGAIN` and return with everything kept, and
`conn_clean_state`. `WrOutcomes` are the outcomes of a send in `rw_iiod_buff`:
all, or any shorter part (`max_short` bounds how often), or all but the newline
(`newline_short`). `ConnAdd` gives the slot to the next client. The text of a
value, attribute, XML or mask is one character; data is counted in bytes. Of the
device only the bytes in its ring are kept: `data` to read, `room` to write.
`dev_fails` names the operations that may fail. `conn_clean_state` clears the
command, so that its device is `"none"` until a line names one: a cyclic push for
it fails (`PushFails`), as `push_buffer` finds no such device. Lines may be
malformed: READBUF without a count enters `IIOD_RW_BUF` with a count of 0, as
does one that asks for 0 bytes, and never leaves it (`Stuck`, with the two cases
of READBUF over the network that also ask for nothing). `ChunksInPayload` is
about the chunks of READBUF and WRITEBUF only; WRITE receives as many bytes as its
line announces into the same buffer (`ReadWriteData`), and `ValueInPayload` in
section 5 says that they fit.

### IioServer (`iio/iio.c`, `iio/iio_app/iio_app.c`, `network/tcp_socket.c`, `network/lwip_raw_socket/lwip_socket.c`)

The loop of `iio_app_run` over `iio_step` as a cycle of three places: accepting
(`AcceptClient` until `AcceptNone`, or `AcceptUndone`, `AcceptNoDesc`), polling
lwIP, and serving one connection. That is `ServeNobody`, `ServeGone`, `ServeIdle`,
`ServeRequest`, and what a request may do to the loop: `ServeExit` (`-ENOTCONN`, the
connection is removed), `ServeError` (any other error, such as that of a line that
is too long or of READBUF on a device that is not open: `iio_step` returns it and
`iio_app_run` stops), `StartCyclic`, `CyclicLine` and `CyclicFails` (the loop inside
`iiod_conn_step`: lwIP is not polled, and only lines that had already arrived on
the same connection are read). `cause` says why the server stopped. The lwIP callbacks `ClientConnects`, `Receive`, `RemoteClose`
and `Reset` happen only while it is polled, as with the raw interface of lwIP
and no operating system. `sockets` is the table of `lwip_socket.c`, `conns` and
`queue` are the pool of `iiod.c` and the ring of connection ids of `iio.c`; a
frame received is the number of its sender. A new client is given any slot that is
`SOCKET_CLOSED` (`Available`); `reused` remembers that it was one an iiod
connection still referred to, which is when connections and clients get mixed up.
What happens to a request is module `Iiod`; here it is taken by a connection. When `socket_accept` has no memory it
closes its own socket, the server's (`network/tcp_socket.c:455`), and the slot
of the client stays connected for ever; the server stops in any case.

### Dma (`drivers/api/no_os_dma.c`, Maxim `maxim_dma.c`, `maxim_spi.c`, `maxim_irq.c`)

The program is a call of `max_config_dma_and_start`, step by step: `Call`,
`AcquireTx`, `AcquireRx`, `ConfigTx`, `ConfigRx`, `StartRx`, `StartTx`, `Return`,
with the error paths `AcquireBusy` and `ConfigFails`. The hardware ends a
transfer at any moment (`Move`); a pending interrupt comes before the program's
next step: `Interrupt` is `max_dma_handler`, which calls `default_sg_callback`
for the RX and the TX action of the channel, `SgCallback` and `SgEmpty` are its
two ways to go, with `max_dma_xfer_cycle` inside the former. Each device has its
own table of channels (`dma_descriptor` is tested in `maxim_dma_init` and never
assigned), so "free" in one table says nothing about the other. `Config` ignores
what `no_os_list_add_last` returns, as line 279 of `no_os_dma.c` does: where
allocations fail, any of the messages may be missing from the list (`Added`).
`lost` are the devices this has happened to. Not modelled:
`no_os_dma_config_xfer` returns with the mutex of the channel locked
(`no_os_dma.c:305`), which matters only with an operating system; the registers
of the SPI block, among them the length, to which each next one is added with
`|=` (`maxim_spi.c:118`); a program that starts a job on a device that is busy.

### Wifi (`network/wifi/wifi.c`, `network/wifi/at_parser.c`)

Text is a sequence of tokens. The module (external) answers the commands it gets
(`Answer`), in time or late, or they are lost (`Lose`); peers connect, send and
close. `Rx` is the receive interrupt: `RxClosed`, `RxPrompt`, `RxAnswer` for
everything that lands in the buffer of answers, which may overflow, and for a
payload `RxPayload` (its header: `READING_PAYLOAD`) and later `RxPayloadEnd`. In
between the program runs. It may store `WAITING_SEND` over `READING_PAYLOAD`
(`WaitingSend`, the store of `at_parser.c:539`, a step after the write of `Issue`),
and the rest of the payload is then parsed as text (`RxOverwritten`), in which
anything may be found. `UartError` and `RxBroken` are `at_callback_error`.

A call of the program that needs the module is `Issue`, then the waits of
`at_run_cmd` (`TakeAnswer`, `TakeSendOk`, `WritePayload`, `Timeout`), then the end of
the socket function (`Connected`, `Disconnected`, `SendReturns`). `at_run_cmd`
returns an error after an OK if there was an error of the UART (`TakeAnswer`).
`Open`, `Close`, `Recv` and `Accept` do without the module. `held` are the sockets
the program owns: it closes no others. A server has called bind and listen in the
initial state. Two histories are used by the properties only: `granted`, the
AT+CIPSTART that last opened a link, and `spoiled`, what has put the program and the
module out of step: `"late"` (a command was given up before its answer came),
`"text"` (payload was parsed as text) and `"link"` (the id of an open link was
released).

Not modelled: a command issued while the module still works on an earlier one; UDP
and the start-up of the module; matching of answers character by character,
including the place the answer is cut out of (`at_parser.c:524`); the prompt that
comes in the very last millisecond of its timeout (`at_parser.c:549`); data that
`wifi_socket_recv` gives up when the peer has closed (`wifi.c:679`); after a payload
was parsed as text, the asynchronous transaction its ring is left with, and a
notice of a closed connection found in that text.

### BusTable (`drivers/api/no_os_spi.c`, `no_os_i2c.c`, `platform/freeRTOS/freertos_mutex.c`)

Tasks with one device each. `InitDevice`, `NewBus` or `NewBusFails`,
`PlatformInit` or `PlatformInitFails`, `Attach` are `no_os_spi_init` (and, line
for line, `no_os_i2c_init`); `RemoveDevice`, `Detach`, `PlatformRemove` or
`PlatformRemoveFails` are `no_os_spi_remove`. When the platform has no `remove` or
it fails, the device is off its bus and its descriptor still refers to it (`Off`):
the program gives it up (`Drop`) or goes on with it (`UseAgain`, remembered in
`reused`). `LockBus` and `EndTransfer` enclose a transfer;
`no_os_spi_transfer` has a loop around them (`LockOuter`, `NextMessage`,
`EndMessages`) or leaves everything to the platform. A bus descriptor is an
address, allocated again after it was freed. `setup.serial` says that the
application initializes and removes devices from one task at a time.

### Jesd204 (`jesd204/jesd204-core.c`, `jesd204-fsm.c`)

`TopologyInit` sorts an array of devices into top device, others and SYSREF
provider. The actions of `jesd204_fsm_start` and `jesd204_fsm_stop` are the
passes of their loops over ops, links and devices; each appends the callbacks it
makes to `calls`, and a callback may fail, which nobody looks at: `failed` are the
transitions in which one did. `Supplied` are the callbacks the loops reach: a
device that shares no link with the top device has none, and the `per_device`
callback of the top device is made even when it has no links. `mode`, which
according to `include/jesd204.h:182` selects one of the two callbacks of an op, is
read nowhere in the code: both are called where both are supplied. Drivers supply one per
op, the one `mode` selects, with one exception:
`drivers/adc/ad9081/ad9081.c:1372-1374` supplies `per_device` for `JESD204_OP_DEVICE_INIT` and leaves `mode` at
`JESD204_STATE_OP_MODE_PER_LINK`. What a transition owes its drivers (`Owed`) are
the supplied callbacks that `mode` selects. `TransitionComplete` demands them when
no callback failed and does not ask that others be made, or that any be made
after a failure; of all that are made it states the order. On the way down
the `per_device` callback of the other devices still comes before their
`per_link` callbacks. The arrays of devices
fit the fixed arrays of the code (`per_device_op_done` and the link ids, 16
entries each), which the code does not check.

## 4. Runs

Passing runs:

| Run | Shows |
|---|---|
| `cb_stream` | used one call at a time by callers that ask first, the ring implements `ByteStream`; size is exact |
| `cb_overrun` | callers that write and read whatever they like: an overrun is reported only if bytes were lost, and reading resumes at the oldest byte |
| `cb_threads` | both sides preempt each other anywhere, overrun each other and leave transactions open: copies stay in the memory, and the only calls that do not return are blocking ones on a side whose transaction was left open |
| `lf256` | interrupt against main loop, the FIFO fills up in every position: it accepts a byte it has no room for in one position only; until then it implements `ByteStream` with `N - 1` bytes and flushing, and everything is eventually taken |
| `iio_device` | five applications. `Plain`: a trigger for each device. `Shared(0)`, `Shared(1)`: one trigger for both devices. `Shifted`: a device on a trigger of another number. `Rough`: failing allocations and callbacks, SETTRIG, software triggers, static buffers. Handlers run at most once per event where the scan clears the right flag, a trigger all of whose devices are open is armed and one without open device is not, every flag is served, the allocation flag is the truth |
| `iiod` | five setups of a connection. `LineCommands`: every command, malformed, empty and overlong lines, READBUF that asks for nothing, short sends, vanishing clients. `Serial`: READBUF and WRITEBUF of one and of several chunks with short sends. `OverNetwork`: transfers that fit the payload buffer and one that does not, short sends, clients that vanish. `Faults`: device errors and a full ring in mid-transfer. `CyclicPush`: one device in cyclic mode. Replies are well formed and complete, payload stays payload, all bytes move once, chunks stay inside the payload buffer, steps return, and every command is answered or is a READBUF that asks for nothing (`Stuck`) |
| `iio_server` | three environments. `Base`: clients connect, send, leave and replace each other at any moment. `Lively`: also resets, EXIT and cyclic buffers. `Rough`: requests that fail, cyclic buffers, and memory, sends and pushes that fail. The queue is exactly the pool in all of them; until a slot is given away that is still referred to, requests are executed for their sender and the server stops only for want of memory or for a failed request; every request is served unless a cyclic push goes on for ever |
| `dma` | one device with jobs of one or two messages, and two devices with overlapping jobs, allocations that fail, those nobody notices included: a list is extended only on a quiet channel; where no message was left out of a list, a synchronous call returns after everything was moved and every job is refused or ends complete |
| `wifi` | `Client`, `Lossy` (the serial line loses commands), `Server`, `Slow` (answers after the timeout), `Noisy` (UART errors, overflow of the buffer of answers): answers match commands until one was given up too early or payload was parsed as text; payload goes to the right socket when connection ids are reused, until the same or the release of an open link; every command returns |
| `bus_table` | tasks on shared buses, through single transfers or lists of messages, removals that fail: until the program goes on with a device whose removal failed, at most one task is on a bus, and the bus is there while a device is on it |
| `jesd204` | all arrays of three devices with up to two links in all orders, a top device without links and callback tables that supply more than `mode` selects among them, callbacks that fail: only supplied callbacks are made, none twice, in order, and without a failure all that are owed |

In all modules but `CircularBuffer`, `Lf256Fifo` and `Jesd204` the application,
the environment and the clients are a record `setup`, chosen in the initial state
from the constant `Setups` and fixed from then on (in `Jesd204`, the array of
devices is chosen in this way); one run covers several of them. Properties that
need a well-behaved setup say so (`Steady`; `setup.push_drains`;
`setup.dev_fails`). Where the code goes wrong in a particular event, the event is
part of the runs, recorded in a history variable (`abandoned`, `overflowed`,
`reused`, `lost`, `spoiled`, `failed`) or named by a predicate (`Cleared`, `Stuck`),
and the property excepts what follows it. It thereby says that nothing else goes
wrong, and the same property without the exception, `Every...` or named in section
5, is refuted by the same model.

One run ends in a violation, with a finding in `PROJECT.json`:

| Run | What the counterexample shows |
|---|---|
| `dma_callback` | the completion callback of an asynchronous SPI transfer runs while RX is still going on, because the wait in `max_dma_xfer_cycle` says "and" for "or" |

### Bounds

* `Size = 3` has a first, a middle and a last index; `MaxRequest = 3` reaches a
  full ring, a request that wraps and one that does not; `MaxBytes = 8` makes
  both sides go round more than twice, so that with `SpinMod = 2` or `4` the spin
  counter wraps as well; `cb_threads` stops at 5 bytes, one lap and a half, enough
  for an undetected overrun, with both sides free to leave a transaction open. The
  theorems of section 6 remove the bounds of this
  list for the properties they state.
* `N = 4` and 11 bytes: the indices of the FIFO wrap twice, and it fills up in every
  position.
* Two devices and two triggers and 3 events: a second event finds the first one
  pending, being handled, or just handled; two devices are needed for "the wrong
  flag" and for a shared trigger.
* `PayloadLen = 2` against transfers of 1, 2 and 3 bytes: less than, exactly, and
  more than a chunk with a rest. `DevSize = 3` is room for a transfer; without
  draining (`push_drains` false) two transfers fill it. Two to four lines
  in all: what one command leaves behind meets the next. One or two short sends,
  at any place. `MaxInp = 2` units in transit: a line and what follows it.

* Server: three sockets (one is the listener), two connections, three clients
  with up to two requests each, so that one can follow a cyclic OPEN. Every slot and every pool entry is used again by the third
  client. With 10 sockets and `IIOD_MAX_CONNECTIONS = 10` the code has one
  connection more than it can have clients; the model has none to spare.
* DMA: four channels are enough for two jobs at the same time; channels that a
  failed job does not give back make the next ones run out. Three jobs (four in
  `dma_callback`): a channel serves both directions and both devices.
* WiFi: two connection ids, two peers; three commands and one payload for the
  client, two commands where lines are lossy (with two payloads), slow or noisy,
  one command and two payloads for the server: an id is closed and given to
  another socket, with payload under way, and a command is written while one is
  being received.
* Bus: three tasks (interchangeable, hence symmetry) on two buses, so that two
  share one, and three addresses: more than there are buses, so that a freed
  address comes back or not.
* JESD204: two ops, two links, three devices; the loops have a first and a last
  pass, and all relative orders of the links occur. Three tables of callbacks: as
  the drivers have it, both callbacks everywhere, and one in which `mode` selects a
  callback that is not there, as in `ad9081.c`.

`CHECK_DEADLOCK FALSE` is used where the bounded input ends (all bytes written,
all lines sent) and the system stops. `IioDevice` runs for ever and is checked
for deadlock.

### Fairness

* Circular buffer: weak fairness of each side's steps inside a call, the answer
  `-EBUSY` included; a call that has begun goes on when it is not preempted for
  ever. Nothing forces a new call, or a caller to end its transaction at all.
* UART FIFO: weak fairness of both sides; the main loop polls the FIFO.
* `IioDevice`: weak fairness of the main loop, which calls `iio_step` for ever
  (`iio_app_run`). No fairness of interrupts or of clients.
* `Iiod`: weak fairness of `ConnStep` (the queue of `iio_step` serves every
  connection in turn), of the code inside a step, of a client that has announced
  payload, and of a device that keeps producing and consuming. Clients need not
  send commands or stay connected. Short sends are bounded: a transport that
  refuses for ever answers nobody.

* `IioServer`: weak fairness of the main loop; no fairness of clients or lwIP, and
  none that would make a push fail and end a cyclic buffer.
* `Dma`: weak fairness of the program, of interrupts and of each channel; nothing
  forces a new job.
* `Wifi`: weak fairness of the waiting program, which counts down its timeout, of
  the receive interrupt, and of the module, which answers or loses a command.

## 5. Disagreements between code and comments without a run of their own

The models reach these too. Each is a property stated in its module that TLC
refutes with the setup named here in the `.cfg` of the module's run, with that
property alone and `CHECK_DEADLOCK FALSE` ("as in the run": nothing else is
changed; for `CircularBuffer`, otherwise: `Size = 3`, `SpinMod = 4`, `MaxRequest = 3`,
`MaxBytes = 8`, `Abandons = {}`).

| Property | Setup | What happens | What the repository says |
|---|---|---|---|
| `OverrunReported` | `Preemptible = {}`, `Checked = FALSE` | a writer almost two laps ahead whose index is not beyond the reader's yields a plausible size and 0 | `util/no_os_circular_buffer.c:134` "-NO_OS_EOVERRUN - A buffer overrun occurred" |
| `NeverMoreThanAsked` | the same | the ring runs empty in a later iteration of `no_os_cb_operation`, which copies the previous chunk again, beyond the request | line 284 "If no data is available return error" |
| `AsyncReadStarted` | the same | an asynchronous read of an empty ring returns 0 and starts nothing | line 338 "-EAGAIN - No data available at this moment" |
| `EveryCallReturns` | as in the run `cb_threads` | a caller leaves a transaction open (`iio/iio.c:1291`); the next `no_os_cb_write` or `no_os_cb_read` on this side gets `-EBUSY` and asks again for ever (`util/no_os_circular_buffer.c:186`, 275-280) | lines 380-382 and 395-398 list 0, -EINVAL and -NO_OS_EOVERRUN as the results |
| `NoLostEvent` | `Asynchronous`, one device | an interrupt between a handler and the clearing of its flag is dropped | `iio/iio.h:140` "will be called from iio_step if trigger is asynchronous" |
| `HandlerHasBuffer` | `Synchronous`, one device | `iio_close_dev` frees the buffer before it disables the trigger (`iio/iio.c:1239`) | `iio/iio.h:156` "Write to buffer iio_buffer.bytes_per_scan bytes from data" |
| `ReplyWellFormed` | `LoneNewline` | a newline the transport refuses is not sent again, since `buf->idx` is already `buf->len` (`iio/iiod.c:499`, 805) | `iio/iiod.h:101` "They will be called again if there is still data to be sent/recevied" |
| `CompleteReply` | `PushError` | an error of `push_buffer` after WRITEBUF is stored and then wiped (`iio/iiod.c:845`) | `iio/iiod_private.h:112` "If set. Val needs to be sent" |
| `EveryAnswered` | `NetworkShort` | after one short send `do_read_buff_delayed` asks for 0 bytes, gets `-EAGAIN` and returns, for ever (`iio/iiod.c:519`) | `iio/iiod.c:836` "Non blocking read/write until all data is processed" |
| `EveryAnswered` | `Malformed` | READBUF without a count, or with 0, enters `IIOD_RW_BUF` with nothing to transfer; `iiod_conn_step` returns `-EAGAIN` for ever and the connection takes no other command | `iio/iiod.c:836` "Non blocking read/write until all data is processed" |
| `ValueInPayload` | `Malformed` | WRITE receives as many bytes as its line announces into `payload_buf`, whatever its size (`iio/iiod.c:677`, 776-778, 867) | `iio/iiod.h:89` "Size of the provided buffer. It must fit the max attribute size" |
| `CyclicDevice` | `TwoDevices` | a command for another device while a cyclic buffer is open redirects the pushing (`iio/iiod.c:824`, 893) | `iio/iiod.c:897` "All other commands will be ignored." |
| `CyclicKept` | `CyclicQuiet` | a line that names no device after an OPEN that is cyclic leaves `cmd_data.device` empty: `push_buffer` fails and the cyclic mode ends without closing the device (`iio/iiod.c:824`, 876) | `iio/iiod.c:897` "All other commands will be ignored." |
| `ReplyWellFormed` | `RefillError` | after a failed `refill_buffer` the error is sent, and `IIOD_RW_BUF` sends data all the same (`iio/iiod.c:688`, 829) | `iio/iiod.h:123` "Called to notify that buffer must be refiiled", before data is read |
| `AllStored` | `PushError`, `SmallRing`, `BrokenOff` | bytes of a transfer that a failed push or a lost client left in the ring, or more bytes than the ring holds, take the room of a WRITEBUF, which drops what does not fit and reports success (`iio/iiod.c:606`) | `iio/iio.c:1360` "@return Bytes_count or negative value in case of error." |
| `NoSpuriousOverrun` | `Preemptible = {"writer"}`, `Checked = TRUE` | a reader between the stores of `spin_count` and `idx` that end a write (`util/no_os_circular_buffer.c:245`) gets an overrun that did not happen | line 73 "Circular buffer implementation is thread safe for one write and one reader" |
| `NoSpuriousOverrun`, `ReadInOrder` | `Preemptible = {"reader"}`, `Checked = TRUE` | a writer in an interrupt between the two halves of `no_os_cb_size`, which reads the spin counters and then the indices (`util/no_os_circular_buffer.c:139`): the reader sees an overrun that did not happen and goes back to bytes it already had | line 73 "Circular buffer implementation is thread safe for one write and one reader" |
| `NothingLost` | as in the run | `fempty + 1` is an `int` and does not wrap at 255 (`util/no_os_lf256fifo.c:86`): one byte too many is accepted and 256 disappear | line 87 "intended overflow at 256 (data size is 256)" |
| `EveryOncePerEvent` | `ShiftedSetups` | the flag is cleared by device index instead of trigger index (`iio/iio.c:1056`) | `iio/iio.h:137` "Signal iio that a trigger has been triggered" |
| `OpenStaysArmed` | `SharedSetups` | CLOSE of one device disables the trigger it shares with a device that stays open, which gets no events any more | `iio/iio.h:140` "will be called from iio_step if trigger is asynchronous" |
| `EveryAnswered` | `NetworkBig` | READBUF over the network waits for more bytes than the payload buffer holds (`iio/iiod.c:527`) | `iio/iiod.c:836` "Non blocking read/write until all data is processed" |
| `NeverBlocks` | `CyclicQuiet` | `iiod_conn_step` does not return while a cyclic buffer is pushed (`iio/iiod.c:890`) | `iio/iiod.h:195` "Will not block" |
| `StoredAll` | `FullRing` | WRITEBUF into a ring that is too full drops bytes and reports success (`iio/iiod.c:606`) | `iio/iio.c:1360` "@return Bytes_count or negative value in case of error." |
| `ClosedIsUnused` | `Reconnects` | the slot of a client that left is given to the next one while an iiod connection still refers to it; the old connection then serves the new client, a second one is made for it, and the pool overflows | `network/lwip_raw_socket/lwip_socket.h:68` "Available to be used" |
| `EveryRequestServed` | `Cyclic` | while one connection pushes a cyclic buffer, `iiod_conn_step` does not return (`iio/iiod.c:890`) and no other connection is served | `iio/iiod.h:195` "Will not block" |
| `RequestNeverStops` | `Errors` | a request that fails (a line that is too long, READBUF on a device that is not open) makes `iio_step` return its error and `iio_app_run` stop (`iio/iio.c:1511-1522`, `iio/iio_app/iio_app.c:437`) | `iio/iiod.c:744-749` on an error "the connection must be cleaned up" |
| `NoFreedPcb` | `Resets` | `lwip_err_callback` keeps the pcb in the slot and `lwip_socket_close` passes it to lwIP | `network/lwip_raw_socket/lwip_socket.c:431` "The pcb may have already been freed" |
| `EverySyncComplete` | as in the run | the failure of `no_os_list_add_last` is ignored (`drivers/api/no_os_dma.c:278-279`): a message is left out, and the synchronous transfer returns 0 without it | `max32665/maxim_spi.c:628` "Wait for the completion before returning." |
| `EveryJobEnds` | `Single` | the same; with no message in the list nothing is started and the wait of `maxim_spi.c:597` does not end | the same |
| `ChannelsReturn` | `Single` | releasing or aborting a channel never sets `free`: after a few failed jobs none can be acquired | `drivers/api/no_os_dma.c:212` "Free DMA channel" |
| `SafeToAdd`, `SyncComplete`, `JobsEnd` | `LongSetups` | two devices with jobs of two messages: between two transfers of a list the channel looks idle to the table of the other device, and both event actions of a channel run for one interrupt | `drivers/platform/maxim/common/maxim_dma.c:52` "There is only one DMA controller"; `drivers/api/no_os_dma.c:275` "It's safe to do so, since there are no ongoing transfers on this channel" |
| `EveryAnswerMatches` | `SlowSetups` | an answer that comes after the timeout stays in the buffer and answers the next command | `network/wifi/at_parser.c:480` "Wait the response for the last command" |
| `EveryAnswerMatches` | `ClientSetups` | `WAITING_SEND` is stored over `READING_PAYLOAD` (`network/wifi/at_parser.c:539`); the rest of the payload is parsed as text and may look like an answer | the same |
| `EveryOwnPayload` | `NoisySetups` | after an OK to AT+CIPSTART and an error of the UART `at_run_cmd` returns the error, and `wifi_socket_connect` releases the id of a link that is open (`network/wifi/wifi.c:571`); the peer's payload lands in the ring of the next socket that takes the id | `network/wifi/wifi.c:83` "Socket connected to a server or to a client" |
| `OwnPayload` | `HangUpSetups`, `NbPeers = 3` | after AT+CIPCLOSE the interrupt has released the connection and given the socket to a new peer; `wifi_socket_disconnect` then releases the new peer's (`network/wifi/wifi.c:626`) | `network/wifi/wifi.c:192` "it shouldn't be released twice" |
| `ServerKeepsServing` | `HangUpSetups` | `wifi_socket_close` marks a socket of the backlog unused, and no new client ever gets it (`network/wifi/wifi.c:536`) | `network/wifi/wifi.c:524` "Server socket circular buffer will be released" only with the server |
| `ConnectedHasConn` | `ClientSetups` | the peer closes before `wifi_socket_connect` stores the state (`network/wifi/wifi.c:575`) | `network/wifi/wifi.c:83` "Socket connected to a server or to a client" |
| `NoSelfLock` | `MessageSetups` | `no_os_spi_transfer` holds the mutex of the bus and `no_os_spi_write_and_read` takes it again: with the binary semaphore of FreeRTOS the task waits for itself | `drivers/api/no_os_spi.c:185` "Iterate over head list and send all spi messages" |
| `EveryBusHeld`, `EveryOneOnBus` | as in the run | `no_os_spi_remove` takes the device off its bus and then returns the error of the platform; a program that believes it and goes on with the device, or removes it again, uses a bus that is freed or takes it from the others (`drivers/api/no_os_spi.c:127-132`) | `drivers/api/no_os_spi.c:119` "0 in case of success, -1 otherwise" |
| `OneOnBus` | `PlatformSetups` | the platform's own `transfer` is called without the mutex (`drivers/api/no_os_spi.c:201`) | the mutex of line 204 |
| `OneOnBus`, `BusHeld` | `RacingSetups` | two tasks that initialize or remove devices of one bus at the same time: the table has no lock | the mutex of line 177 |
| `StartReports` | `AllArrays` | `jesd204_fsm_start` ignores what the callbacks return and returns 0 (`jesd204/jesd204-fsm.c:31`) | `include/jesd204.h:224` "number of retries in case of error" |
| `ModeRespected` | `AllArrays` | `mode` is read nowhere: both callbacks of an op are called where both are supplied, and the other one where only that is | `include/jesd204.h:182` "depending on this per_device or per_link is called" |
| `EveryDeviceCalled` | `AllArrays` | a device that shares no link with the top device is never called | `include/jesd204.h:183` "op called for each JESD204 **device** during a transition" |

## 6. Proofs

TLAPS checks the theorems below for every value of the constants, from the
assumptions named in each module (a ring has a place, `spin_count` at least two
values, there is a device, the setups are well formed). What a theorem needs
beyond them is its hypothesis, and is stated in it.

| Module | Theorem | Property | Needs |
|---|---|---|---|
| `BufferProofs` | `TypeCorrect` | `TypeOK` | nothing: any preemption, any callers |
| | `AlwaysInBounds` | `InBounds`: no copy and no block handed to a DMA engine leaves the memory | nothing |
| | `OverrunIsReal` | `NoSpuriousOverrun` | `Preemptible = {}`: calls exclude each other; `Abandons = {}`: transactions are ended |
| | `ResyncsToOldest` | `ResyncOldest` | the same |
| | `ReadsInOrder` | `ReadInOrder` | the same and `Checked`: callers ask for the size first |
| | `SizeIsExact` | `SizeExact` | the same |
| | `Refinement` | `ImplementsStream`: the ring implements `ByteStream` | the same |
| | `CallsAreBounded` | `Bounded`: a side takes less than `(MaxRequest + 1) * (Size + 8)` steps in a call, whatever the other does, apart from retries after `-EBUSY`; `BusyIsAbandoned`: a call meets `-EBUSY` only on a side whose caller left a transaction open | nothing |
| | `FifoTypeCorrect` | `FifoTypeOK` | nothing |
| | `FifoRefinement` | `FifoImplementsStream`: the UART FIFO implements `ByteStream` until it overflows | nothing |
| | `FullRefuses` | `RefusedWhenFull`: it overflows in one position only | nothing |
| `IioDeviceProofs` | `TypeCorrect` | `TypeOK` | nothing |
| | `AllocatedTrue` | `AllocatedIsLive` | nothing |
| | `NoneStray` | `NoStrayInterrupt` | nothing (the property itself is about steady setups) |
| | `OpenIsArmed` | `ArmedWhileOpen` | nothing: devices share triggers in any way |
| | `OnePerEvent` | `OncePerEvent` | nothing (the property itself is about triggers whose flag is cleared) |
| `IiodProofs` | `TypeCorrect` | `TypeOK` | nothing |
| | `ChunksStayInPayload` | `ChunksInPayload` | nothing |
| | `RepliesWellFormed` | `ReplyWellFormed` | `Replying`: the transport refuses no lone newline, `refill_buffer` does not fail |
| | `RepliesComplete` | `ReplyComplete` | the same |
| | `StoresAll` | `AllStored` | `Fits`: pushes do not fail, payloads fit the ring, transfers of several chunks are not broken off |
| | `StaysInSync` | `InSync` | the same |
| `IioServerProofs` | `TypeCorrect` | `TypeOK` | nothing |
| | `QueueHoldsPool` | `QueueIsPool` | nothing |
| | `KeepsRunning` | `ServerRuns` | `RoomForAll`: a connection for every socket a client can have |
| | `ServesOwn` | `OwnRequests` | nothing (both properties except `reused`) |
| `BusTableProofs` | `TypeCorrect` | `TypeOK` | nothing |
| | `BusIsHeld` | `BusHeld` | `Serial`: one task at a time initializes or removes devices |
| | `OneTaskOnBus` | `OneOnBus` | `Serial`, and `Locking`: the transfer function takes the mutex (both properties except `reused`) |
| `WifiProofs` | `AnswersOwnCommand` | `AnswersMatch` | nothing (the property itself excepts `"late"` and `"text"`) |
| | `OwnsPayload` | `OwnPayload` | `StaysOn`: a server leaves it to its clients to close (the property excepts all of `spoiled`) |
| `DmaProofs` | `ChannelAtRest` | `SafeToAdd` | `Separate`: jobs of one message, or a single device; `lost = {}`: no addition to a list has failed so far |
| | `SyncMovesAll` | `SyncComplete` | the same |
| `Jesd204Proofs` | `TransitionsComplete` | `TransitionComplete` | nothing |

Each hypothesis is needed: section 5 names setups without it and what then goes
wrong. The exceptions are `RoomForAll`, which the code satisfies (`MAX_SOCKETS`
and `IIOD_MAX_CONNECTIONS` are both 10), and, for `SafeToAdd`, `lost = {}`, without
which the invariant of the other property is gone. A hypothesis is about every setup
in `Setups`; the theorem then covers each setup that satisfies it. Most theorems
have none: what goes wrong is an event of the model, and the property speaks of
everything up to that event (section 4).

*Circular buffer, bounds.* `InBounds` is not inductive: that a copy stays inside
the memory depends on how its block was chosen, several steps before, and for a
reader whose ring ran empty, on a block of an earlier iteration. `BoundsInv` adds
`WriterBlock` (an open write transaction lies inside the memory and inside the
request) and `ReaderBlock` (so does the last chunk of the reader, whether or not
its transaction is open). It refers to nothing the other side can change, which
is why it survives any preemption.

*Circular buffer, stream.* `StreamInv` relates the pointers to the positions in
the stream: `SpinRelation` (equal spin counters and the indices differ by the
number of unread bytes, or one spin apart and they differ by `Size` less), with a
pointer between its two stores standing for the position it is about to have;
`Contents` (the ring holds the unread bytes in order, and the copied part of an
open write behind them); `Room` (nobody asks for more than there is) and
`ReaderLocals` (what `no_os_cb_size` found still holds when it is used, which is
where the absence of preemption enters). `SpinRelation` is needed for the
arithmetic of `no_os_cb_size`: the lemmas `NbSpinsRange`, `SpinStep` and
`SpinInjective` carry it across the wrap-around of `spin_count`. The refinement
maps the step that publishes a chunk to `Accept`, the copy of a byte by the
reader to `Deliver`, and all others to stuttering.

*Circular buffer, overruns.* Callers that do not ask can be any number of laps
apart, so `SpinRelation` does not hold. `OverrunInv` says instead how far the
writer is ahead: `Laps` (there is a number `d` of laps by which the positions
and the indices differ, and the spin counters tell `d` up to a multiple of
`SpinMod`), `Behind` (the reader is never ahead), `Newest` (each place of the
memory holds the byte that was written there last) and `OverrunLocals` (where
`no_os_cb_size` found an overrun there is one). The counters may agree by accident
after `SpinMod` laps; then an overrun goes unnoticed, which these two
properties allow and `OverrunReported` in section 5 does not.

*Circular buffer, termination.* That calls return is a liveness property and
rests on fairness, but what stands behind it is safety: `WriterLeft` and
`ReaderLeft` bound the steps a call still has to take (the bytes left of the
request, each worth a whole iteration of the loop, then the place inside the
iteration and the bytes of the chunk still to copy). Each step of a side makes its
own measure smaller. The step that could fail to do so is the end of an iteration,
and `Moving` says that the chunk just copied was not empty; a reader may even copy
the previous chunk again (section 5), but it was not empty either. The measure of
one side does not change in a step of the other: no preemption and no overrun
makes a call longer. The one step that leaves the measure as it is, is the retry
of a blocking call after `-EBUSY`. `BusyIsAbandoned` says when it is met: a side
that asks for a transaction finds one open only if its own caller left it
open. The other side cannot cause it, and once there it is for ever, which is
`EveryCallReturns` in section 5.

*UART FIFO.* `FifoInv` holds until the FIFO overflows: `FifoPositions` (the indices
differ by the number of bytes held, modulo `N`), `FifoRoom` (a write that has passed
its test has room, or the FIFO is in the one position in which the test is wrong)
and `FifoSomething` (a read that has passed its test has a byte to take), though the
other side runs in between,
`FifoContents` (the slots hold the bytes of their positions) and `FifoInOrder` (the
byte handed out last is the last one before those held). The refinement maps
`WritePublish` to `Accept`, `ReadLoad` to `Deliver`, `Flush` to `Discard` and the
other steps to stuttering.

*Devices.* The properties speak of the state between commands; their
invariants (`StrayInv`, `ArmedInv`, `OnceInv`) extend them into OPEN, CLOSE and
the scan of the triggers. In `ArmedInv` the device that is being opened is the
last one its trigger waits for. `OnceInv` has the counting argument, for each
device of a shared trigger separately (`OnceOf`): while the flag is set a device has
had one event more than its handler has run, unless the scan has passed it
(`Served`) and not yet come to the device that clears the flag (`Uncleared`). A
flag that is set again in between loses an event and adds none.

*Daemon, replies.* `ReplyWellFormed` allows any beginning of any reply and is far
from inductive: what may still be added depends on the state of the connection,
on its cursor and on what the command returned. `ReplyInv` says for each state
which beginning has been sent: `Fresh` (nothing, the command is the request),
`Answering` (in `IIOD_WRITING_CMD_RESULT`, the value when `write_val` is gone
and `idx` characters of the text; `Result` ties the value and the text to the
command), `Transferring` (in `IIOD_RW_BUF`, the head of the reply and exactly the
bytes counted as sent), `Repeating` (a reply that is complete while the cyclic
buffer is pushed) and `Concluded` (the two properties, once lines are read
again). A short send moves the cursor and the reply by the same amount, wherever it
is cut, which is why nothing is sent twice.

*Daemon, storage.* `do_write_buff` advances by the chunk it asked for and not by
what `iio_write_buffer` took, so that success has to mean there was room.
`Ring` says that the room left is enough for the rest of the transfer, `Tally` that
the bytes stored are those of the chunks done, and `Told` that an accepted
WRITEBUF has stored its count. `Ring` needs the ring empty at the start of every
transfer: the previous one was pushed, or was a single chunk that failed as a
whole. This is what `Fits` provides.

*Daemon, synchronization.* `InSync` is about the next unit only. `Aligned` describes
all that is under way: the next `Expected` units (what the command at hand still has
to receive) are bytes, and behind them every line is followed by exactly its
payload, the last one perhaps in part. While a cyclic buffer is pushed, lines are
ignored together with the payload they announced, byte by byte, and `Expected`
is some number the daemon does not know.

*Server.* `QueueInv` (no id is queued twice; a connection is used exactly when
its id is queued) holds in every environment. For the other two properties
`Net` follows a client through three tables: `ServerSlot` (the listener keeps its
slot), `ClientSlots` (a slot that is not closed has the control block of a client,
and a slot closed by a reset keeps the one lwIP has freed), `OneSlot` (a live
control block is in exactly one slot), `Owned` (a used connection refers to the
slot of its client, and no two of them to the same slot). `NetInv` says that it
holds while the server runs and until a slot is given away that is referred to
(`reused`); resets, EXIT, failed requests and cyclic buffers keep it. With it the
pool cannot overflow:
`Owned` is an injection of connections into the slots without the listener.
`Frames` (the bytes in a slot come from its client) then gives `OwnRequests`.

*Bus table.* `HeldInv`: `OneConfigures` (from `Serial`), `Places` (what a task in
the middle of init or remove has done so far), `Entries` (an entry of the table
is allocated and counts the devices that refer to it, the one being removed
included) and `Refers` (a device refers to the entry of its bus, unless a removal
that failed has taken it off). It is inductive until a program goes on with
such a device (`reused`). The counting is a cardinality argument, for which the set of tasks is assumed finite. `Holds`
(a task inside a transfer is the owner of the mutex) adds `OneOnBus`: two owners
of one mutex are one task.

*WiFi, answers.* `OneAnswer`: a command that waits has at most one answer, in one
of three places (still to be given by the module, on the serial line, in the
buffer), and when no command waits there is none. It is inductive while the
program is `Calm`: a timeout with the answer still to come ends it, as does a
payload parsed as text. Errors of the UART, overflows of the buffer and lost
commands do not: an answer that is thrown away leaves none behind.

*WiFi, payloads.* When a payload is taken from the line its connection may have
been closed and started again since the peer sent it, so that `OwnPayload` says
nothing of what is under way. `PayloadInv` describes the line, and is inductive
while `spoiled` is empty. A payload that is being received has its header off the
line and its bytes not yet in a ring (`Receiving`); nothing else is taken from the
line in between, so that the connection it was promised to is still the same at
its end. A notice of a closed
connection divides what is said of that connection; `Among`, `Leaving` and `Links`
say that payloads, and the link of the module, have the same peer exactly when
no notice lies between them, and `Arriving` that the peer of a payload belongs to
the socket `conn_id_to_sock_id` has now if no notice comes before it, and to none
yet otherwise. The tables are inverse to each other (`Mapped`) and the parser's
ring is that of the table (`Ringed`). What remains are the moments when the
program and the interrupt work on one connection: `Starting` (until AT+CIPSTART
is granted nothing happens on the connection, so the program may release it when
it is refused; `granted` tells a refusal from an OK that was thrown away or
followed by an error) and `Stopping` (the notice comes before the answer to AT+CIPCLOSE,
so that `_wifi_release_conn` in the program finds nothing left to release). For a
client `ClientWire` adds that a connection without socket is silent, which makes
it safe to take. `Stopping` is what a server that hangs up breaks: between the
notice and the answer a new peer may get the connection.

*DMA.* Neither property is inductive: that a channel is at rest depends on what
the interrupt left behind, in a table that belongs to another device. `DmaInv` holds
while no message was left out of a list (`lost`). `Progress`
says for each direction of each device how its list, its channel and the messages
moved so far go together: `Over` (the list is empty and all messages were moved),
or `Busy`, in one of four stages: `Waiting` (configured), `Running`, `Signalled`
(moved, the interrupt not yet served) and `Served` (the interrupt has called some
of the handlers). A busy direction has its own transfer loaded in the channel
(`Owned`), so no channel has two busy users. `Listless` and `Silent` say the
converse: without a configured job there is no list, and without a busy one no
activity. An interrupt is served before the program goes on, so that a channel
which `no_os_dma_acquire_channel` finds idle is really `Quiet`, and stays so until
it is configured (`Claimed`). Where jobs have several messages, a second
handler registered on the channel would take a second element off the list;
`Even` and `Serving` exclude it for a single device, whose TX channel is always
even and RX channel the next one, while with jobs of one message the second
handler finds the list empty. `Synced` adds that a synchronous call waits for
both lists to become empty. Without `Separate` the two handlers do meet: `LongSetups` in
section 5.

*JESD204.* `TransitionComplete` is about the moment a transition returns. In
between, a callback that is owed has a turn (`Turn`: which ops, links and devices
the loops have been through, seen from that callback), and `Past` adds the ops
done before. `Records` says that the history consists of exactly the callbacks
`Due`, the supplied ones whose turn has come, each once and in the order of
`TransitionComplete`. That a device's `per_device` callback is made on the first of
its links that the loops reach, and on no other, depends on `per_device_op_done`:
`Flags` says that it is set for the devices whose turn has come in this op. A step
then appends the callbacks that become due; that nothing was made before which had
to come after them is `MustNow`, and `RecordsCallback` extends the history.
`FirstTurn` and `LastTurn` are the ends of an op, where no turn has come yet and
every turn has come: when a transition returns, all supplied callbacks were made,
and those owed are among them.

Only model-checked: the liveness properties, since fairness is out of the prover's
reach. For `CallsReturn` of the circular buffer `CallsAreBounded` proves the part
that is not about fairness, and names the calls that are excepted.

## 7. Not modelled, and why

* The block interface of `iio.c`, apart from the transaction it may leave open, and
  client sockets over lwIP (section 2).
* Lines of the daemon that lack a token the parser expects: it passes a null
  pointer on to string functions (`iio/iiod.c:251`, 256), and what happens then is
  not defined.
* Lists: pointer structures with one user at a time; those shared with an
  interrupt are the lists of `Dma`.
* Allocation and lock wrappers, delays: weak stubs that the platform replaces. The
  mutex of FreeRTOS is in `BusTable`.
* CRC, PID and bit helpers: pure functions on machine words and tables.
* Attributes, XML generation, number formatting: text processing without state
  of its own; the daemon's model keeps the parts a client can tell apart.
* Chip drivers, platform drivers, projects: sequences of register accesses whose
  meaning is in the hardware; each is a system of its own. They appear as
  callbacks that succeed or fail.
* Vendored libraries (lwIP, mbedTLS, FatFs, MQTT, Azure and others): third-party.
* `lf256fifo_remove`, `no_os_cb_remove` and the `remove` functions of the IIO
  layer only free memory after use.

In `CircularBuffer` memory accesses of one side are seen by the other in program
order; reordering by the compiler or the processor is not considered. In `Iiod`
the two devices share one pair of byte counts, since a run transfers data on one
device only.
