-------------------------------- MODULE Dma ---------------------------------
(***************************************************************************)
(* SPI messages moved by DMA on the Maxim parts: max_config_dma_and_start  *)
(* and max_dma_xfer_cycle (drivers/platform/maxim/max32665/maxim_spi.c),   *)
(* over the scatter-gather lists of drivers/api/no_os_dma.c and the        *)
(* channels of drivers/platform/maxim/common/maxim_dma.c, with the event   *)
(* lists of max32665/maxim_irq.c that find the handler of an interrupt.    *)
(*                                                                         *)
(* A job is one call of no_os_spi_transfer_dma_sync or _async: a transfer  *)
(* per message on a TX and on an RX channel.  The descriptor of the        *)
(* controller is never kept in dma_descriptor, so every SPI device has a   *)
(* table of its own over the same channels.  The hardware moves data while *)
(* the program runs; a pending interrupt is taken before the program's     *)
(* next step.  Mutexes are those of util/no_os_mutex.c: they do nothing.   *)
(***************************************************************************)
EXTENDS Integers, Sequences, FiniteSets, FiniteSetsExt

CONSTANTS
  NbChannels,  \* num_ch
  MaxJobs,     \* bound: jobs in the life of the program
  Setups       \* the programs that are considered

ASSUME DmaAssumption ==
  /\ NbChannels \in Nat \ {0} /\ MaxJobs \in Nat
  /\ \A s \in Setups : /\ s.devices \subseteq Nat \ {0} \* SPI devices in use
                       /\ s.lens \subseteq Nat \ {0} \* messages in a job
                       /\ s.fails \in BOOLEAN  \* allocations may fail

Channels == 0 .. NbChannels - 1
Devices == UNION {s.devices : s \in Setups}
Dirs == {"rx", "tx"}
NoDev == 0
NoXfer == [dev |-> NoDev, dir |-> "tx", k |-> 0]

VARIABLES
  setup,   \* member of Setups, fixed
  table,   \* no_os_dma_desc.channels of each device: free and sg_list
  hw,      \* channels: loaded transfer, enabled, CTZ flag, NVIC enable
  action,  \* _events: whose channel the action of (channel, event) refers to
  rxfifo,  \* words an SPI device has shifted in that no channel has moved
  isr,     \* interrupt being served: channel and handlers still to call
  job,     \* last job of each device, its sync_xfer_data and its result
  moved,   \* history: messages of that job each direction has moved
  lost,    \* history: devices a message of which was left out of a list
  pc, cur, \* where the program is, and the device it is calling for
  jobs     \* jobs started so far

channels == <<table, hw, action>>
vars == <<setup, channels, rxfifo, isr, job, moved, lost, pc, cur, jobs>>

NoJob == [len |-> 0, async |-> FALSE, ch |-> [d \in Dirs |-> 0], data |-> FALSE,
          called |-> FALSE, ret |-> "none"]

\* no_os_dma_init for every device of the setup.
Init ==
  /\ setup \in Setups
  /\ table = [d \in setup.devices |->
                [c \in Channels |-> [free |-> TRUE, list |-> <<>>]]]
  /\ hw = [c \in Channels |->
             [xfer |-> NoXfer, en |-> FALSE, ctz |-> FALSE, irq |-> FALSE]]
  /\ action = [c \in Channels |-> [e \in Dirs |-> NoDev]]
  /\ rxfifo = [d \in setup.devices |-> <<>>]
  /\ isr = [ch |-> 0, todo |-> <<>>]
  /\ job = [d \in setup.devices |-> NoJob]
  /\ moved = [d \in setup.devices |-> [e \in Dirs |-> <<>>]]
  /\ lost = {}
  /\ pc = "idle"
  /\ cur \in setup.devices
  /\ jobs = 0

-----------------------------------------------------------------------------
(* Operations on one channel c of the table of device d *)

Xfers(d, dir, len) == [k \in 1 .. len |-> [dev |-> d, dir |-> dir, k |-> k]]

\* maxim_dma_config_xfer.
Load(h, x) == [h EXCEPT !.xfer = x]

\* Mutant: the next transfer is only configured.
Start_Forgotten(h) == [h EXCEPT !.irq = TRUE]

\* no_os_dma_xfer_start: the interrupt, then the channel.
Start(h) == [h EXCEPT !.irq = TRUE, !.en = TRUE]

\* no_os_dma_xfer_abort of the channels S: interrupt and channel disabled, list
\* emptied.  free stays as it is.
Abort(d, S) ==
  /\ hw' = [c \in Channels |->
              IF c \in S THEN [hw[c] EXCEPT !.irq = FALSE, !.en = FALSE] ELSE hw[c]]
  /\ table' = [table EXCEPT ![d] =
                 [c \in Channels |-> IF c \in S THEN [@[c] EXCEPT !.list = <<>>]
                                                ELSE @[c]]]

\* Mutant: a channel in use is handed out again.
Available_IgnoresFree(d) == {c \in Channels : ~hw[c].en}

\* maxim_dma_acquire_free_ch: neither running nor held.  (No caller ever sets
\* sync_lock.)
Available(d) == {c \in Channels : ~hw[c].en /\ table[d][c].free}

-----------------------------------------------------------------------------
(* The hardware *)

\* The transfer of channel c ends.  What TX moves is shifted out and as much is
\* shifted in; RX moves what was shifted in.
Move(c) ==
  /\ hw[c].en
  /\ LET x == hw[c].xfer IN
       /\ x.dir = "rx" => rxfifo[x.dev] # <<>>
       /\ rxfifo' = [rxfifo EXCEPT ![x.dev] =
                       IF x.dir = "tx" THEN Append(@, x.k) ELSE Tail(@)]
       /\ moved' = [moved EXCEPT ![x.dev][x.dir] = Append(@, x.k)]
  /\ hw' = [hw EXCEPT ![c].en = FALSE, ![c].ctz = TRUE]
  /\ UNCHANGED <<setup, table, action, isr, job, lost, pc, cur, jobs>>

Pending == {c \in Channels : hw[c].irq /\ hw[c].ctz}
InIsr == isr.todo # <<>>

\* The action registered for an event of channel c, if any.
Registered(c, e) == IF action[c][e] = NoDev THEN <<>> ELSE <<action[c][e]>>

\* max_dma_handler: clear the flag, then call the action of the RX event and
\* that of the TX event, whichever are registered for this interrupt.
Interrupt(c) ==
  /\ ~InIsr
  /\ c \in Pending
  /\ hw' = [hw EXCEPT ![c].ctz = FALSE]
  /\ isr' = [ch |-> c, todo |-> Registered(c, "rx") \o Registered(c, "tx")]
  /\ UNCHANGED <<setup, table, action, rxfifo, job, moved, lost, pc, cur, jobs>>

\* default_sg_callback finds an empty list.
SgEmpty ==
  /\ InIsr
  /\ LET d == Head(isr.todo) IN
       /\ table[d][isr.ch].list = <<>>
       /\ Abort(d, {isr.ch})
  /\ isr' = [isr EXCEPT !.todo = Tail(@)]
  /\ UNCHANGED <<setup, action, rxfifo, job, moved, lost, pc, cur, jobs>>

\* The wait at the start of max_dma_xfer_cycle is over.
CycleGo(j) == ~(hw[j.ch["rx"]].en /\ hw[j.ch["tx"]].en)

\* default_sg_callback takes the transfer that ended off the list.  The TX
\* transfers have max_dma_xfer_cycle as completion callback: after the last one
\* it calls the user's callback and frees both arrays of transfers.  Then the
\* next transfer is configured and started, or the channel is freed.
SgCallback ==
  /\ InIsr
  /\ LET d == Head(isr.todo)
         c == isr.ch
         list == table[d][c].list
     IN /\ list # <<>>
        /\ LET rest == Tail(list)
               last == rest = <<>>
           IN /\ Head(list).dir = "tx" => CycleGo(job[d])
              /\ job' = IF Head(list).dir = "tx" /\ last
                        THEN [job EXCEPT ![d].data = FALSE,
                                         ![d].called = job[d].async]
                        ELSE job
              /\ table' = [table EXCEPT ![d][c] =
                             [free |-> @.free \/ last, list |-> rest]]
              /\ hw' = [hw EXCEPT ![c] =
                          IF last THEN [@ EXCEPT !.irq = FALSE]
                                  ELSE Start(Load(@, Head(rest)))]
  /\ isr' = [isr EXCEPT !.todo = Tail(@)]
  /\ UNCHANGED <<setup, action, rxfifo, moved, lost, pc, cur, jobs>>

-----------------------------------------------------------------------------
(* max_config_dma_and_start *)

\* The program runs: no interrupt is being served or pending.
Runs == ~InIsr /\ Pending = {}

\* No transfer of the last job of d is under way.
Idle(d) == \A c \in Channels : /\ table[d][c].list = <<>>
                               /\ hw[c].en => hw[c].xfer.dev # d

\* A call for an idle device: the three arrays are allocated, the FIFOs flushed.
\* (When an allocation fails the call returns with nothing changed.)
Call(d, len, async) ==
  /\ pc = "idle" /\ Runs /\ Idle(d)
  /\ jobs < MaxJobs
  /\ job' = [job EXCEPT ![d] = [NoJob EXCEPT !.len = len, !.async = async,
                                             !.data = TRUE]]
  /\ moved' = [moved EXCEPT ![d] = [e \in Dirs |-> <<>>]]
  /\ rxfifo' = [rxfifo EXCEPT ![d] = <<>>]
  /\ cur' = d
  /\ jobs' = jobs + 1
  /\ pc' = "acquire_tx"
  /\ UNCHANGED <<setup, channels, isr, lost>>

Fail == /\ job' = [job EXCEPT ![cur].data = FALSE, ![cur].ret = "err"]
        /\ pc' = "idle"

\* no_os_dma_acquire_channel, and the next place in the program.
Acquire(dir, next) ==
  /\ Runs
  /\ Available(cur) # {}
  /\ LET c == Min(Available(cur)) IN
       /\ table' = [table EXCEPT ![cur][c].free = FALSE]
       /\ job' = [job EXCEPT ![cur].ch[dir] = c]
  /\ pc' = next
  /\ UNCHANGED <<setup, hw, action, rxfifo, isr, moved, lost, cur, jobs>>

AcquireTx == pc = "acquire_tx" /\ Acquire("tx", "acquire_rx")
AcquireRx == pc = "acquire_rx" /\ Acquire("rx", "config_tx")

\* -EBUSY.  maxim_dma_release_ch disables the TX channel, which was not running,
\* and leaves free FALSE.
AcquireBusy ==
  /\ pc \in {"acquire_tx", "acquire_rx"} /\ Runs
  /\ Available(cur) = {}
  /\ Fail
  /\ UNCHANGED <<setup, channels, rxfifo, isr, moved, lost, cur, jobs>>

\* Calls of no_os_list_add_last, whose result nobody looks at: a transfer for
\* which there is no memory is left out.
Added(c, xs) ==
  \/ table' = [table EXCEPT ![cur][c].list = @ \o xs] /\ UNCHANGED lost
  \/ /\ setup.fails
     /\ \E kept \in (SUBSET DOMAIN xs) \ {DOMAIN xs} :
          table' = [table EXCEPT ![cur][c].list =
                      @ \o SelectSeq(xs, LAMBDA x : x.k \in kept)]
     /\ lost' = lost \union {cur}

\* no_os_dma_config_xfer: the transfers join the list of the channel, the first
\* one is configured, on the list or not, and the action of (channel, event) is
\* made to refer to this table.
Config(dir, next) ==
  /\ Runs
  /\ LET c == job[cur].ch[dir]
         xs == Xfers(cur, dir, job[cur].len)
     IN /\ Added(c, xs)
        /\ hw' = [hw EXCEPT ![c] = Load(@, xs[1])]
        /\ action' = [action EXCEPT ![c][dir] = cur]
  /\ pc' = next
  /\ UNCHANGED <<setup, rxfifo, isr, job, moved, cur, jobs>>

ConfigTx == pc = "config_tx" /\ Config("tx", "config_rx")
ConfigRx == pc = "config_rx" /\ Config("rx", "start_rx")

\* No memory for a new action: what was configured is aborted, both channels are
\* released.
ConfigFails ==
  /\ setup.fails /\ Runs
  /\ \/ pc = "config_tx" /\ action[job[cur].ch["tx"]]["tx"] = NoDev
     \/ pc = "config_rx" /\ action[job[cur].ch["rx"]]["rx"] = NoDev
  /\ Abort(cur, {job[cur].ch[e] : e \in Dirs})
  /\ Fail
  /\ UNCHANGED <<setup, action, rxfifo, isr, moved, lost, cur, jobs>>

StartCh(dir, next) ==
  /\ Runs
  /\ hw' = [hw EXCEPT ![job[cur].ch[dir]] = Start(@)]
  /\ pc' = next
  /\ UNCHANGED <<setup, table, action, rxfifo, isr, job, moved, lost, cur, jobs>>

StartRx == pc = "start_rx" /\ StartCh("rx", "start_tx")
StartTx == pc = "start_tx" /\ StartCh("tx", "wait")

\* Mutant: one channel is enough.
Completed_Either(j) == \E e \in Dirs : table[cur][j.ch[e]].free

\* Both no_os_dma_is_completed.
Completed(j) == \A e \in Dirs : table[cur][j.ch[e]].free

\* The call returns: at once when asynchronous, else when both channels are free.
Return ==
  /\ pc = "wait" /\ Runs
  /\ job[cur].async \/ Completed(job[cur])
  /\ job' = [job EXCEPT ![cur].ret = "ok"]
  /\ pc' = "idle"
  /\ UNCHANGED <<setup, channels, rxfifo, isr, moved, lost, cur, jobs>>

-----------------------------------------------------------------------------

Program == \/ AcquireTx \/ AcquireRx \/ AcquireBusy
           \/ ConfigTx \/ ConfigRx \/ ConfigFails
           \/ StartRx \/ StartTx \/ Return

Handler == (\E c \in Channels : Interrupt(c)) \/ SgEmpty \/ SgCallback

Next == \/ \E d \in setup.devices, n \in setup.lens, a \in BOOLEAN : Call(d, n, a)
        \/ Program
        \/ Handler
        \/ \E c \in Channels : Move(c)

Spec == Init /\ [][Next]_vars

\* The program runs on, interrupts are served, and the hardware moves what it
\* can move.
FairSpec == /\ Spec
            /\ WF_vars(Program) /\ WF_vars(Handler)
            /\ \A c \in Channels : WF_vars(Move(c))

-----------------------------------------------------------------------------
(* Properties *)

JobEnded(d) == job[d].ret = "ok" /\ Idle(d)
AllMoved(d) == \A e \in Dirs : moved[d][e] = [k \in 1 .. job[d].len |-> k]

\* "Add the transfers to the channel's SG list. It's safe to do so, since there
\* are no ongoing transfers on this channel": when a job is about to configure a
\* channel, its list is empty and the hardware neither runs nor has an interrupt
\* to deliver there, also when jobs of two devices overlap.
SafeToAdd ==
  \A e \in Dirs : pc = (IF e = "tx" THEN "config_tx" ELSE "config_rx") =>
    LET c == job[cur].ch[e] IN
      /\ \A d \in setup.devices : table[d][c].list = <<>>
      /\ ~hw[c].en
      /\ c \notin Pending

\* "Wait for the completion before returning": when max_spi_dma_transfer_sync has
\* returned 0, every message was sent and received, once and in order, unless a
\* list of this device has been left incomplete, for this job or an earlier one ...
SyncDone(d) == job[d].ret = "ok" /\ ~job[d].async
SyncComplete == \A d \in setup.devices \ lost : SyncDone(d) => AllMoved(d)

\* ... which is less than what 0 stands for.
EverySyncComplete == \A d \in setup.devices : SyncDone(d) => AllMoved(d)

\* "Return immediately, and invoke a callback once they're completed": the
\* callback runs, and the arrays are freed, only when all messages were sent and
\* received.
CallbackAfterAll ==
  \A d \in setup.devices \ lost : job[d].called => AllMoved(d)

\* A job that is called is refused or brought to its end, and then all of it was
\* moved; only a device with an incomplete list may wait for ever ...
Begun(d) == d \in setup.devices /\ job[d].len > 0 /\ job[d].ret = "none"
Ended(d) == d \in setup.devices /\ (job[d].ret = "err" \/ (JobEnded(d) /\ AllMoved(d)))
JobsEnd == \A d \in Devices : Begun(d) ~> (Ended(d) \/ d \in lost)

\* ... which is less than that every job ends.
EveryJobEnds == \A d \in Devices : Begun(d) ~> Ended(d)

\* no_os_dma_release_channel, "Free DMA channel": between jobs every channel can
\* be acquired.
ChannelsReturn ==
  \A d \in setup.devices :
    pc = "idle" /\ Idle(d) => \A c \in Channels : table[d][c].free
=============================================================================
