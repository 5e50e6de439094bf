------------------------------ MODULE DmaProofs ------------------------------
(***************************************************************************)
(* What holds of SPI over DMA for every number of channels, of SPI devices *)
(* and of messages in a job.                                               *)
(***************************************************************************)
EXTENDS Dma, WellFoundedInduction, TLAPS

\* Jobs of one message, or a single device: what keeps the users of a channel
\* apart.
Separate ==
  \A s \in Setups : s.lens \subseteq {1} \/ \E d : s.devices = {d}

-----------------------------------------------------------------------------
(* Inductive invariant *)

XferType == [dev : setup.devices \cup {NoDev}, dir : Dirs, k : Nat]
EntryType == [free : BOOLEAN, list : Seq(XferType)]
ChannelType == [xfer : XferType, en : BOOLEAN, ctz : BOOLEAN, irq : BOOLEAN]
JobType == [len : Nat, async : BOOLEAN, ch : [Dirs -> Channels], data : BOOLEAN,
            called : BOOLEAN, ret : {"none", "ok", "err"}]

Types ==
  /\ setup \in Setups
  /\ cur \in setup.devices
  /\ table \in [setup.devices -> [Channels -> EntryType]]
  /\ hw \in [Channels -> ChannelType]
  /\ action \in [Channels -> [Dirs -> setup.devices \cup {NoDev}]]
  /\ isr \in [ch : Channels, todo : Seq(setup.devices)]
  /\ job \in [setup.devices -> JobType]
  /\ moved \in [setup.devices -> [Dirs -> Seq(Nat)]]
  /\ pc \in {"idle", "acquire_tx", "acquire_rx", "config_tx", "config_rx", "start_rx",
             "start_tx", "wait"}

Chan(d, e) == job[d].ch[e]
List(d, e) == table[d][Chan(d, e)].list

\* How far the last job of d has come in direction e.
Acquired(d, e) ==
  \/ job[d].ret = "ok"
  \/ d = cur /\ pc \in {"config_tx", "config_rx", "start_rx", "start_tx", "wait"}
  \/ d = cur /\ e = "tx" /\ pc = "acquire_rx"
Configured(d, e) ==
  \/ job[d].ret = "ok"
  \/ d = cur /\ pc \in {"start_rx", "start_tx", "wait"}
  \/ d = cur /\ e = "tx" /\ pc = "config_rx"
Started(d, e) ==
  \/ job[d].ret = "ok"
  \/ d = cur /\ pc = "wait"
  \/ d = cur /\ e = "rx" /\ pc = "start_tx"

\* The first n messages have been moved, in order.
Moved(d, e, n) == Len(moved[d][e]) = n /\ \A k \in 1 .. n : moved[d][e][k] = k

\* The program's place and the result of its job.
Called ==
  /\ pc # "idle" => /\ job[cur].ret = "none" /\ job[cur].len \in setup.lens
                    /\ \A e \in Dirs : Configured(cur, e) \/ Moved(cur, e, 0)
  /\ \A d \in setup.devices : job[d].ret = "ok" => job[d].len \in setup.lens

Distinct ==
  \A d \in setup.devices :
    (\A e \in Dirs : Acquired(d, e)) => Chan(d, "tx") # Chan(d, "rx")

\* Transfers handled by default_sg_callback.
Handled(d, e) == job[d].len - Len(List(d, e))

\* The list has the transfers that were not handled.
Listed(d, e) ==
  /\ Len(List(d, e)) <= job[d].len
  /\ \A k \in 1 .. Len(List(d, e)) :
       List(d, e)[k] = [dev |-> d, dir |-> e, k |-> Handled(d, e) + k]

\* A direction that is done.
Over(d, e) ==
  Started(d, e) /\ table[d][Chan(d, e)].free /\ Moved(d, e, job[d].len)

\* The channel of a direction that is not done: its transfer is configured, runs,
\* has ended, or its interrupt is being served.
Owned(d, e) ==
  /\ ~table[d][Chan(d, e)].free
  /\ action[Chan(d, e)][e] = d
  /\ hw[Chan(d, e)].xfer = [dev |-> d, dir |-> e, k |-> Handled(d, e) + 1]
Waiting(d, e) ==
  /\ ~Started(d, e) /\ Handled(d, e) = 0 /\ Moved(d, e, 0)
  /\ ~hw[Chan(d, e)].en /\ ~hw[Chan(d, e)].ctz
  /\ InIsr => isr.ch # Chan(d, e)
Running(d, e) ==
  /\ Started(d, e) /\ Moved(d, e, Handled(d, e))
  /\ hw[Chan(d, e)].irq /\ hw[Chan(d, e)].en /\ ~hw[Chan(d, e)].ctz
Signalled(d, e) ==
  /\ Started(d, e) /\ Moved(d, e, Handled(d, e) + 1)
  /\ hw[Chan(d, e)].irq /\ ~hw[Chan(d, e)].en /\ hw[Chan(d, e)].ctz
Served(d, e) ==
  /\ Started(d, e) /\ Moved(d, e, Handled(d, e) + 1)
  /\ ~hw[Chan(d, e)].en /\ ~hw[Chan(d, e)].ctz
  /\ isr.ch = Chan(d, e) /\ \E i \in 1 .. Len(isr.todo) : isr.todo[i] = d
Busy(d, e) ==
  Owned(d, e) /\ (Waiting(d, e) \/ Running(d, e) \/ Signalled(d, e) \/ Served(d, e))

Direction(d, e) ==
  Configured(d, e) =>
    Listed(d, e) /\ IF List(d, e) = <<>> THEN Over(d, e) ELSE Busy(d, e)
Progress == \A d \in setup.devices, e \in Dirs : Direction(d, e)

\* Only a configured channel has a list, and only one with a list is at work.
Uses(d, e, c) == Configured(d, e) /\ c = Chan(d, e) /\ table[d][c].list # <<>>
Listless ==
  \A d \in setup.devices, c \in Channels : table[d][c].list # <<>> =>
    \E e \in Dirs : Uses(d, e, c)
Silent ==
  \A c \in Channels : hw[c].en \/ hw[c].ctz =>
    \E d \in setup.devices, e \in Dirs : Uses(d, e, c)

Quiet(c) == /\ \A d \in setup.devices : table[d][c].list = <<>>
            /\ ~hw[c].en /\ ~hw[c].ctz

\* A channel the program has acquired and not configured is at rest.
Claimed ==
  \A e \in Dirs : Acquired(cur, e) /\ ~Configured(cur, e) =>
    ~table[cur][Chan(cur, e)].free /\ Quiet(Chan(cur, e))

\* A channel whose interrupt is served does not run, and one handler serves it
\* when a transfer can follow.
Serving ==
  InIsr => /\ ~hw[isr.ch].en /\ ~hw[isr.ch].ctz
           /\ Len(isr.todo) = 1 \/ setup.lens \subseteq {1}

\* A single device gives TX an even channel and RX the next one, so that no channel
\* has two handlers.
Pair(c) ==
  c % 2 = 0 /\ c + 1 \in Channels => (table[cur][c].free <=> table[cur][c + 1].free)
Actions ==
  \A c \in Channels : /\ action[c]["tx"] # NoDev => c % 2 = 0
                      /\ action[c]["rx"] # NoDev => c % 2 = 1
Pairs ==
  /\ \A c \in Channels : (Acquired(cur, "tx") => c # Chan(cur, "tx")) => Pair(c)
  /\ Acquired(cur, "tx") => Chan(cur, "tx") % 2 = 0
  /\ pc = "acquire_rx" =>
       /\ Chan(cur, "tx") + 1 \in Channels => table[cur][Chan(cur, "tx") + 1].free
       /\ \A c \in Channels : c < Chan(cur, "tx") => ~table[cur][c].free
  /\ Acquired(cur, "rx") => Chan(cur, "rx") = Chan(cur, "tx") + 1
Even == ~(setup.lens \subseteq {1}) => setup.devices = {cur} /\ Actions /\ Pairs

\* A job that the program has waited for has nothing left.
Synced ==
  \A d \in setup.devices : job[d].ret = "ok" /\ ~job[d].async =>
    \A e \in Dirs : List(d, e) = <<>>

DmaInv == /\ Types /\ Called /\ Distinct /\ Progress /\ Listless /\ Silent
          /\ Claimed /\ Serving /\ Even /\ Synced

-----------------------------------------------------------------------------
(* Lemmas *)

\* The first of some channels.
LEMMA FirstOf ==
  ASSUME NEW S \in SUBSET Nat, S # {}
  PROVE  Min(S) \in S /\ \A y \in S : Min(S) <= y
<1> DEFINE Less == {ss \in Nat \X Nat : ss[1] < ss[2]}
<1>1. IsWellFoundedOn(Less, Nat)
  BY NatLessThanWellFounded, Zenon DEF OpToRel
<1>2. \A x, y \in Nat : x < y => <<x, y>> \in Less
  OBVIOUS
<1> HIDE DEF Less
<1>3. PICK m \in S : \A y \in S : ~(<<y, m>> \in Less)
  BY <1>1, WFMin
<1>4. ASSUME NEW y \in S PROVE m <= y
  <2>1. m \in Nat /\ y \in Nat
    OBVIOUS
  <2>2. ~(y < m)
    BY <1>2, <1>3, <2>1
  <2> QED
    BY <2>1, <2>2
<1> QED
  BY <1>4 DEF Min

\* What the assumptions on the constants say of the setup in use.
LEMMA SetupFacts ==
  ASSUME Types
  PROVE  /\ setup.devices \subseteq Nat \ {0} /\ NoDev \notin setup.devices
         /\ setup.lens \subseteq Nat \ {0}
         /\ Channels \subseteq Nat
         /\ "rx" \in Dirs /\ "tx" \in Dirs /\ Dirs = {"rx", "tx"} /\ "rx" # "tx"
  BY DmaAssumption DEF Types, NoDev, Channels, Dirs

\* The types of what a step reads.
LEMMA Fields ==
  ASSUME Types
  PROVE  /\ \A d \in setup.devices :
              /\ job[d] \in JobType /\ job[d].len \in Nat
              /\ job[d].ret \in {"none", "ok", "err"}
              /\ \A e \in Dirs : Chan(d, e) \in Channels
              /\ \A e \in Dirs : moved[d][e] \in Seq(Nat)
              /\ \A c \in Channels : /\ table[d][c] \in EntryType
                                     /\ table[d][c].list \in Seq(XferType)
                                     /\ table[d][c].free \in BOOLEAN
              /\ \A e \in Dirs : List(d, e) \in Seq(XferType)
         /\ \A c \in Channels : /\ hw[c] \in ChannelType /\ hw[c].xfer \in XferType
                                /\ hw[c].en \in BOOLEAN /\ hw[c].ctz \in BOOLEAN
                                /\ hw[c].irq \in BOOLEAN
         /\ isr.ch \in Channels /\ isr.todo \in Seq(setup.devices)
<1>1. \A d \in setup.devices :
        /\ job[d] \in JobType /\ job[d].len \in Nat
        /\ job[d].ret \in {"none", "ok", "err"}
        /\ \A e \in Dirs : Chan(d, e) \in Channels
        /\ \A e \in Dirs : moved[d][e] \in Seq(Nat)
  BY DEF Types, JobType, Chan
<1>2. \A d \in setup.devices, c \in Channels :
        /\ table[d][c] \in EntryType /\ table[d][c].list \in Seq(XferType)
        /\ table[d][c].free \in BOOLEAN
  BY DEF Types, EntryType
<1>3. \A d \in setup.devices, e \in Dirs : List(d, e) \in Seq(XferType)
  BY <1>1, <1>2 DEF List
<1>4. \A c \in Channels : /\ hw[c] \in ChannelType /\ hw[c].xfer \in XferType
                          /\ hw[c].en \in BOOLEAN /\ hw[c].ctz \in BOOLEAN
                          /\ hw[c].irq \in BOOLEAN
  BY DEF Types, ChannelType
<1>5. isr.ch \in Channels /\ isr.todo \in Seq(setup.devices)
  BY DEF Types
<1> QED
  BY <1>1, <1>2, <1>3, <1>4, <1>5

\* A direction keeps its place when a step leaves alone all that it depends on.
LEMMA Frame ==
  ASSUME NEW d, NEW e, Direction(d, e),
         Configured(d, e)' => Configured(d, e),
         Started(d, e)' <=> Started(d, e),
         Chan(d, e)' = Chan(d, e), job'[d].len = job[d].len,
         table'[d][Chan(d, e)] = table[d][Chan(d, e)],
         moved'[d][e] = moved[d][e],
         List(d, e) # <<>> /\ Busy(d, e) => Busy(d, e)'
  PROVE  Direction(d, e)'
<1>1. List(d, e)' = List(d, e) /\ Handled(d, e)' = Handled(d, e)
  BY DEF List, Handled
<1>2. Listed(d, e)' <=> Listed(d, e)
  BY <1>1 DEF Listed
<1>3. Over(d, e) => Over(d, e)'
  BY DEF Over, Moved
<1> QED
  BY <1>1, <1>2, <1>3 DEF Direction

\* So does its channel, when a step leaves alone the channel, its action and the
\* interrupt that is served.
LEMMA BusyFrame ==
  ASSUME NEW d, NEW e, Busy(d, e),
         Started(d, e)' <=> Started(d, e),
         Chan(d, e)' = Chan(d, e), job'[d].len = job[d].len,
         table'[d][Chan(d, e)] = table[d][Chan(d, e)],
         moved'[d][e] = moved[d][e],
         hw'[Chan(d, e)] = hw[Chan(d, e)],
         action'[Chan(d, e)][e] = action[Chan(d, e)][e],
         isr' = isr
  PROVE  Busy(d, e)'
<1>1. List(d, e)' = List(d, e) /\ Handled(d, e)' = Handled(d, e)
  BY DEF List, Handled
<1>2. \A n : Moved(d, e, n)' <=> Moved(d, e, n)
  BY DEF Moved
<1>3. Owned(d, e)'
  BY <1>1 DEF Owned, Busy
<1>4. CASE Waiting(d, e)
  <2>1. Waiting(d, e)'
    BY <1>1, <1>4 DEF Waiting, InIsr, Moved
  <2> QED
    BY <1>3, <2>1 DEF Busy
<1>5. CASE Running(d, e)
  <2>1. Running(d, e)'
    BY <1>1, <1>5 DEF Running, Moved
  <2> QED
    BY <1>3, <2>1 DEF Busy
<1>6. CASE Signalled(d, e)
  <2>1. Signalled(d, e)'
    BY <1>1, <1>6 DEF Signalled, Moved
  <2> QED
    BY <1>3, <2>1 DEF Busy
<1>7. CASE Served(d, e)
  <2>1. Served(d, e)'
    BY <1>1, <1>7 DEF Served, Moved
  <2> QED
    BY <1>3, <2>1 DEF Busy
<1> QED
  BY <1>4, <1>5, <1>6, <1>7 DEF Busy

\* A channel with transfers to move has one user, and its state says how far the
\* user has come.
LEMMA Owner ==
  ASSUME DmaInv, NEW d \in setup.devices, NEW e \in Dirs, NEW c \in Channels, Uses(d, e, c)
  PROVE  /\ c = Chan(d, e) /\ Configured(d, e) /\ List(d, e) # <<>>
         /\ Listed(d, e) /\ Busy(d, e) /\ Owned(d, e)
         /\ hw[c].xfer.dev = d /\ hw[c].xfer.dir = e
<1>1. c = Chan(d, e) /\ Configured(d, e) /\ List(d, e) # <<>>
  BY DEF Uses, List
<1>2. Direction(d, e)
  BY DEF DmaInv, Progress
<1>3. Listed(d, e) /\ Busy(d, e)
  BY <1>1, <1>2 DEF Direction
<1> QED
  BY <1>1, <1>3 DEF Busy, Owned

\* No two directions use one channel.
LEMMA OneUser ==
  ASSUME DmaInv, NEW d1 \in setup.devices, NEW e1 \in Dirs,
         NEW d2 \in setup.devices, NEW e2 \in Dirs, NEW c \in Channels,
         Uses(d1, e1, c), Uses(d2, e2, c)
  PROVE  d1 = d2 /\ e1 = e2
<1>1. hw[c].xfer.dev = d1 /\ hw[c].xfer.dir = e1
  BY Owner
<1>2. hw[c].xfer.dev = d2 /\ hw[c].xfer.dir = e2
  BY Owner
<1> QED
  BY <1>1, <1>2

\* While the program runs a transfer that was started is still moving.
LEMMA AtRest ==
  ASSUME DmaInv, Runs, NEW d \in setup.devices, NEW e \in Dirs, NEW c \in Channels,
         Uses(d, e, c)
  PROVE  Waiting(d, e) \/ (Running(d, e) /\ hw[c].en)
<1>1. c = Chan(d, e) /\ Busy(d, e)
  BY Owner
<1>2. ~Signalled(d, e)
  BY <1>1 DEF Signalled, Runs, Pending
<1>3. ~Served(d, e)
  <2>1. isr.todo = <<>>
    BY DEF Runs, InIsr
  <2>2. Len(isr.todo) = 0
    BY <2>1
  <2> QED
    BY <2>2 DEF Served
<1> QED
  BY <1>1, <1>2, <1>3 DEF Busy, Running

\* What does not depend on the channels is as it was when the program stands still.
LEMMA Still ==
  ASSUME Types, UNCHANGED <<setup, cur, pc>>,
         \A f \in setup.devices : /\ job'[f].ret = job[f].ret /\ job'[f].ch = job[f].ch
                                  /\ job'[f].len = job[f].len
  PROVE  /\ \A f \in setup.devices, g \in Dirs :
              /\ Chan(f, g)' = Chan(f, g) /\ (Configured(f, g)' <=> Configured(f, g))
              /\ (Started(f, g)' <=> Started(f, g)) /\ (Acquired(f, g)' <=> Acquired(f, g))
         /\ \A g : /\ Chan(cur, g)' = Chan(cur, g)
                   /\ (Configured(cur, g)' <=> Configured(cur, g))
                   /\ (Acquired(cur, g)' <=> Acquired(cur, g))
  BY DEF Chan, Configured, Started, Acquired, Types

\* The message after the first m is the next one that is moved.
LEMMA NextMoved ==
  ASSUME NEW s \in Seq(Nat), NEW m \in Nat, NEW t,
         Len(s) = m, \A k \in 1 .. m : s[k] = k, t = Append(s, m + 1)
  PROVE  t \in Seq(Nat) /\ Len(t) = m + 1 /\ \A k \in 1 .. m + 1 : t[k] = k
<1>1. m + 1 \in Nat /\ \A k \in 1 .. m + 1 : k \in 1 .. m \/ k = m + 1
  OBVIOUS
<1>2. t \in Seq(Nat) /\ Len(t) = m + 1 /\ t[m + 1] = m + 1 /\ \A k \in 1 .. m : t[k] = s[k]
  BY <1>1
<1> QED
  BY <1>1, <1>2

\* The parts of the invariant that speak of the tables and of the program alone.
LEMMA Undisturbed ==
  ASSUME DmaInv, UNCHANGED <<setup, table, action, job, pc, cur>>
  PROVE  /\ \A f \in setup.devices, g \in Dirs :
              /\ Chan(f, g)' = Chan(f, g) /\ (Configured(f, g)' <=> Configured(f, g))
              /\ (Started(f, g)' <=> Started(f, g)) /\ (Acquired(f, g)' <=> Acquired(f, g))
              /\ List(f, g)' = List(f, g) /\ Handled(f, g)' = Handled(f, g)
              /\ (Listed(f, g)' <=> Listed(f, g))
              /\ \A b : Uses(f, g, b)' <=> Uses(f, g, b)
         /\ \A g : /\ Chan(cur, g)' = Chan(cur, g)
                   /\ (Configured(cur, g)' <=> Configured(cur, g))
                   /\ (Acquired(cur, g)' <=> Acquired(cur, g))
         /\ Distinct' /\ Listless' /\ Even' /\ Synced'
<1> USE DEF DmaInv
<1>1. /\ \A f \in setup.devices, g \in Dirs :
           /\ Chan(f, g)' = Chan(f, g) /\ (Configured(f, g)' <=> Configured(f, g))
           /\ (Started(f, g)' <=> Started(f, g)) /\ (Acquired(f, g)' <=> Acquired(f, g))
      /\ \A g : /\ Chan(cur, g)' = Chan(cur, g)
                /\ (Configured(cur, g)' <=> Configured(cur, g))
                /\ (Acquired(cur, g)' <=> Acquired(cur, g))
  BY Still
<1>2. \A f \in setup.devices, g \in Dirs :
        /\ List(f, g)' = List(f, g) /\ Handled(f, g)' = Handled(f, g)
        /\ (Listed(f, g)' <=> Listed(f, g))
        /\ \A b : Uses(f, g, b)' <=> Uses(f, g, b)
  BY <1>1 DEF List, Handled, Listed, Uses
<1>3. Distinct' /\ Listless' /\ Synced'
  <2>1. Distinct'
    BY <1>1 DEF Distinct, Dirs
  <2>2. Listless'
    BY <1>2 DEF Listless
  <2>3. Synced'
    BY <1>2 DEF Synced
  <2> QED
    BY <2>1, <2>2, <2>3
<1>4. Even'
  <2>1. \A b : Pair(b)' <=> Pair(b)
    BY DEF Pair
  <2>2. Actions' <=> Actions
    BY DEF Actions
  <2>3. Pairs' <=> Pairs
    BY <1>1, <2>1 DEF Pairs
  <2> QED
    BY <2>2, <2>3 DEF Even
<1> QED
  BY <1>1, <1>2, <1>3, <1>4

\* Even and odd channels.
LEMMA Parity ==
  ASSUME NEW a \in Nat
  PROVE  /\ a % 2 = 0 \/ a % 2 = 1
         /\ a % 2 = 0 => (a + 1) % 2 = 1
         /\ a % 2 = 1 => a > 0 /\ (a - 1) % 2 = 0
         /\ \A b \in Nat : a % 2 = 0 /\ b % 2 = 0 => a # b + 1
  OBVIOUS

-----------------------------------------------------------------------------
(* The hardware *)

\* The transfer of a channel ends.
LEMMA MoveKeeps ==
  ASSUME DmaInv, NEW c \in Channels, Move(c)
  PROVE  DmaInv'
<1> USE SetupFacts, Fields DEF DmaInv
<1>1. PICK d \in setup.devices, e \in Dirs : Uses(d, e, c)
  BY DEF Move, Silent
<1>m. PICK m : m = Handled(d, e)
  OBVIOUS
<1>2. /\ c = Chan(d, e) /\ Configured(d, e) /\ List(d, e) # <<>>
      /\ Listed(d, e) /\ Owned(d, e) /\ Running(d, e)
  <2>1. /\ c = Chan(d, e) /\ Configured(d, e) /\ List(d, e) # <<>>
        /\ Listed(d, e) /\ Busy(d, e) /\ Owned(d, e)
    BY <1>1, Owner
  <2>2. hw[c].en
    BY DEF Move
  <2> QED
    BY <2>1, <2>2 DEF Busy, Waiting, Signalled, Served
<1>3. hw[c].xfer = [dev |-> d, dir |-> e, k |-> m + 1] /\ m \in Nat
  <2>1. hw[c].xfer = [dev |-> d, dir |-> e, k |-> m + 1]
    BY <1>2, <1>m DEF Owned
  <2>2. Len(List(d, e)) \in Nat /\ job[d].len \in Nat /\ Len(List(d, e)) <= job[d].len
    BY <1>2 DEF Listed
  <2> QED
    <3> HIDE SetupFacts, Fields
    <3> QED
      BY <1>m, <2>1, <2>2 DEF Handled
<1>4. /\ UNCHANGED <<setup, table, action, isr, job, pc, cur>>
      /\ hw' = [hw EXCEPT ![c].en = FALSE, ![c].ctz = TRUE]
      /\ moved' = [moved EXCEPT ![d][e] = Append(@, m + 1)]
  BY <1>3 DEF Move
<1>5. /\ \A b \in Channels : b # c => hw'[b] = hw[b]
      /\ ~hw'[c].en /\ hw'[c].ctz
      /\ hw'[c].irq = hw[c].irq /\ hw'[c].xfer = hw[c].xfer
  BY <1>4 DEF Types, ChannelType
<1>6. /\ \A f \in setup.devices, g \in Dirs : ~(f = d /\ g = e) => moved'[f][g] = moved[f][g]
      /\ moved'[d][e] = Append(moved[d][e], m + 1)
  BY <1>4 DEF Types
<1>7. \A f \in setup.devices, g \in Dirs :
        /\ Chan(f, g)' = Chan(f, g) /\ (Configured(f, g)' <=> Configured(f, g))
        /\ (Started(f, g)' <=> Started(f, g)) /\ (Acquired(f, g)' <=> Acquired(f, g))
        /\ List(f, g)' = List(f, g) /\ Handled(f, g)' = Handled(f, g)
        /\ (Listed(f, g)' <=> Listed(f, g))
        /\ \A b : Uses(f, g, b)' <=> Uses(f, g, b)
  BY <1>4, Undisturbed
<1>c. \A g : /\ Chan(cur, g)' = Chan(cur, g)
             /\ (Configured(cur, g)' <=> Configured(cur, g))
             /\ (Acquired(cur, g)' <=> Acquired(cur, g))
  BY <1>4, Undisturbed
<1>8. Types'
  <2>1. hw' \in [Channels -> ChannelType]
    <3>1. PICK y, h : y = hw[c] /\ h = [y EXCEPT !.en = FALSE, !.ctz = TRUE]
      OBVIOUS
    <3>2. y \in ChannelType
      BY <3>1
    <3> HIDE SetupFacts, Fields
    <3>3. h \in ChannelType
      BY <3>1, <3>2 DEF ChannelType
    <3>4. hw' = [hw EXCEPT ![c] = h] /\ hw \in [Channels -> ChannelType]
      BY <1>4, <3>1 DEF Types
    <3> QED
      BY <3>3, <3>4
  <2>2. moved' \in [setup.devices -> [Dirs -> Seq(Nat)]]
    <3>1. Append(moved[d][e], m + 1) \in Seq(Nat)
      BY <1>3
    <3> QED
      BY <1>4, <3>1 DEF Types
  <2> QED
    BY <1>4, <2>1, <2>2 DEF Types, ChannelType, EntryType, XferType, JobType
<1>9. Called'
  <2>1. \A g \in Dirs : Configured(cur, g) \/ Moved(cur, g, 0) => Configured(cur, g)' \/ Moved(cur, g, 0)'
    <3> SUFFICES ASSUME NEW g \in Dirs, ~Configured(cur, g), Moved(cur, g, 0) PROVE Moved(cur, g, 0)'
      BY <1>c
    <3>1. ~(cur = d /\ g = e)
      BY <1>2
    <3>2. cur \in setup.devices /\ cur' = cur
      BY <1>4 DEF Types
    <3>3. moved'[cur'][g] = moved[cur][g]
      BY <1>6, <3>1, <3>2
    <3> QED
      BY <3>3 DEF Moved
  <2> QED
    BY <1>4, <2>1 DEF Called
<1>10. Distinct' /\ Listless' /\ Even' /\ Synced'
  BY <1>4, Undisturbed
<1>11. Progress'
  <2> SUFFICES ASSUME NEW f \in setup.devices, NEW g \in Dirs PROVE Direction(f, g)'
    BY <1>4 DEF Progress
  <2>1. CASE f = d /\ g = e
    <3>1. Moved(d, e, m + 1)'
      <4>1. Len(moved[d][e]) = m /\ \A k \in 1 .. m : moved[d][e][k] = k
        BY <1>2, <1>m DEF Running, Moved
      <4>2. moved[d][e] \in Seq(Nat)
        OBVIOUS
      <4>3. Len(moved'[d][e]) = m + 1 /\ \A k \in 1 .. m + 1 : moved'[d][e][k] = k
        <5>1. m \in Nat /\ moved'[d][e] = Append(moved[d][e], m + 1)
          BY <1>3, <1>6
        <5> HIDE SetupFacts, Fields
        <5> QED
          BY <4>1, <4>2, <5>1, NextMoved
      <4> QED
        BY <4>3 DEF Moved
    <3>2. Signalled(d, e)'
      BY <1>2, <1>5, <1>7, <1>m, <3>1 DEF Signalled, Running
    <3>3. Owned(d, e)'
      BY <1>2, <1>4, <1>5, <1>7 DEF Owned
    <3> QED
      BY <1>2, <1>7, <2>1, <3>2, <3>3 DEF Direction, Busy
  <2>2. CASE ~(f = d /\ g = e)
    <3>1. List(f, g) # <<>> /\ Busy(f, g) /\ Configured(f, g) => Busy(f, g)'
      <4> SUFFICES ASSUME List(f, g) # <<>>, Busy(f, g), Configured(f, g) PROVE Busy(f, g)'
        OBVIOUS
      <4>1. Chan(f, g) # c
        <5> SUFFICES ASSUME Chan(f, g) = c PROVE FALSE
          OBVIOUS
        <5>1. Uses(f, g, c)
          BY DEF Uses, List
        <5> QED
          BY <1>1, <2>2, <5>1, OneUser
      <4>2. hw'[Chan(f, g)] = hw[Chan(f, g)]
        BY <1>5, <4>1
      <4> QED
        BY <1>4, <1>6, <1>7, <2>2, <4>2, BusyFrame
    <3>2. Direction(f, g)
      BY DEF Progress
    <3>3. CASE Configured(f, g)
      BY <1>4, <1>6, <1>7, <2>2, <3>1, <3>2, <3>3, Frame
    <3>4. CASE ~Configured(f, g)
      BY <1>7, <3>4 DEF Direction
    <3> QED
      BY <3>3, <3>4
  <2> QED
    BY <2>1, <2>2
<1>12. Silent'
  <2> SUFFICES ASSUME NEW b \in Channels, hw'[b].en \/ hw'[b].ctz
               PROVE  \E f \in setup.devices, g \in Dirs : Uses(f, g, b)'
    BY <1>4 DEF Silent
  <2>1. \E f \in setup.devices, g \in Dirs : Uses(f, g, b)
    BY <1>1, <1>5 DEF Silent
  <2> QED
    BY <1>7, <2>1
<1>13. Claimed'
  <2> SUFFICES ASSUME NEW g \in Dirs, Acquired(cur, g), ~Configured(cur, g)
               PROVE  ~table[cur][Chan(cur, g)].free /\ Quiet(Chan(cur, g))'
    BY <1>4, <1>c DEF Claimed, Types
  <2>1. ~table[cur][Chan(cur, g)].free /\ Quiet(Chan(cur, g))
    BY DEF Claimed
  <2>2. Chan(cur, g) # c
    BY <1>2, <2>1 DEF Quiet, Running
  <2>3. Quiet(Chan(cur, g))'
    <3>1. Chan(cur, g)' = Chan(cur, g) /\ Chan(cur, g) \in Channels
      BY <1>c DEF Types
    <3>2. hw'[Chan(cur, g)] = hw[Chan(cur, g)]
      BY <1>5, <2>2, <3>1
    <3> QED
      BY <1>4, <2>1, <3>1, <3>2 DEF Quiet
  <2> QED
    BY <2>1, <2>3
<1>14. Serving'
  <2>1. InIsr => isr.ch # c
    BY <1>2 DEF Serving, Running
  <2> QED
    BY <1>4, <1>5, <2>1 DEF Serving, InIsr
<1> QED
  BY <1>8, <1>9, <1>10, <1>11, <1>12, <1>13, <1>14

-----------------------------------------------------------------------------
(* The interrupt *)

\* The actions an interrupt calls: they are those of devices, the user of the
\* channel is among them, and there is one when a single device has long jobs.
LEMMA Handlers ==
  ASSUME DmaInv, NEW c \in Channels
  PROVE  /\ Registered(c, "rx") \o Registered(c, "tx") \in Seq(setup.devices)
         /\ \A e \in Dirs : action[c][e] # NoDev =>
              \E i \in 1 .. Len(Registered(c, "rx") \o Registered(c, "tx")) :
                (Registered(c, "rx") \o Registered(c, "tx"))[i] = action[c][e]
         /\ \/ setup.lens \subseteq {1}
            \/ Registered(c, "rx") \o Registered(c, "tx") = <<>>
            \/ Len(Registered(c, "rx") \o Registered(c, "tx")) = 1
<1> USE DEF DmaInv
<1>1. PICK r, t : r = action[c]["rx"] /\ t = action[c]["tx"]
  OBVIOUS
<1>2. (r \in setup.devices \/ r = NoDev) /\ (t \in setup.devices \/ t = NoDev)
  BY <1>1 DEF Types, Dirs
<1>3. ~(setup.lens \subseteq {1}) => r = NoDev \/ t = NoDev
  <2>1. ~(setup.lens \subseteq {1}) => Actions
    BY DEF Even
  <2>2. Actions => (t # NoDev => c % 2 = 0) /\ (r # NoDev => c % 2 = 1)
    BY <1>1 DEF Actions
  <2> QED
    BY <2>1, <2>2
<1>4. PICK u, v : u = Registered(c, "rx") /\ v = Registered(c, "tx")
  OBVIOUS
<1>8. /\ r = NoDev => u = <<>>
      /\ r # NoDev => u = <<r>>
      /\ t = NoDev => v = <<>>
      /\ t # NoDev => v = <<t>>
  BY <1>1, <1>4 DEF Registered
<1>5. NoDev \notin setup.devices
  BY SetupFacts
<1>6. /\ u \o v \in Seq(setup.devices)
      /\ r # NoDev => \E i \in 1 .. Len(u \o v) : (u \o v)[i] = r
      /\ t # NoDev => \E i \in 1 .. Len(u \o v) : (u \o v)[i] = t
      /\ (r = NoDev \/ t = NoDev) /\ u \o v # <<>> => Len(u \o v) = 1
  <2>1. PICK D, n : D = setup.devices /\ n = NoDev
    OBVIOUS
  <2>2. /\ n \notin D /\ (r \in D \/ r = n) /\ (t \in D \/ t = n)
        /\ (r = n => u = <<>>) /\ (r # n => u = <<r>>)
        /\ (t = n => v = <<>>) /\ (t # n => v = <<t>>)
    BY <1>2, <1>5, <1>8, <2>1
  <2>3. /\ u \o v \in Seq(D)
        /\ r # n => \E i \in 1 .. Len(u \o v) : (u \o v)[i] = r
        /\ t # n => \E i \in 1 .. Len(u \o v) : (u \o v)[i] = t
        /\ (r = n \/ t = n) /\ u \o v # <<>> => Len(u \o v) = 1
    <3>1. \A x \in D : <<x>> \in Seq(D) /\ Len(<<x>>) = 1 /\ <<x>>[1] = x
      OBVIOUS
    <3>2. <<>> \in Seq(D) /\ Len(<<>>) = 0
      OBVIOUS
    <3>3. \A x, y \in Seq(D) : /\ x \o y \in Seq(D) /\ Len(x \o y) = Len(x) + Len(y)
                               /\ \A i \in 1 .. Len(x) : (x \o y)[i] = x[i]
                               /\ \A i \in 1 .. Len(y) : (x \o y)[Len(x) + i] = y[i]
      OBVIOUS
    <3>4. PICK q : q = u \o v
      OBVIOUS
    <3>5. CASE r = n /\ t = n
      <4>1. u = <<>> /\ v = <<>>
        BY ONLY <2>2, <3>5
      <4>2. q \in Seq(D) /\ Len(q) = 0
        BY ONLY <3>2, <3>3, <3>4, <4>1
      <4>3. q = <<>>
        BY ONLY <4>2
      <4> QED
        BY ONLY <3>4, <3>5, <4>2, <4>3
    <3>6. CASE r # n /\ t = n
      <4>1. r \in D /\ u = <<r>> /\ v = <<>>
        BY ONLY <2>2, <3>6
      <4>2. q \in Seq(D) /\ Len(q) = 1 /\ q[1] = r
        BY ONLY <3>1, <3>2, <3>3, <3>4, <4>1
      <4> QED
        BY ONLY <3>4, <3>6, <4>2
    <3>7. CASE r = n /\ t # n
      <4>1. t \in D /\ u = <<>> /\ v = <<t>>
        BY ONLY <2>2, <3>7
      <4>2. q \in Seq(D) /\ Len(q) = 1 /\ q[1] = t
        BY ONLY <3>1, <3>2, <3>3, <3>4, <4>1
      <4> QED
        BY ONLY <3>4, <3>7, <4>2
    <3>8. CASE r # n /\ t # n
      <4>1. r \in D /\ t \in D /\ u = <<r>> /\ v = <<t>>
        BY ONLY <2>2, <3>8
      <4>2. q \in Seq(D) /\ Len(q) = 2 /\ q[1] = r /\ q[2] = t
        BY ONLY <3>1, <3>3, <3>4, <4>1
      <4>3. 1 \in 1 .. Len(q) /\ 2 \in 1 .. Len(q)
        BY ONLY <4>2
      <4> QED
        BY ONLY <3>4, <3>8, <4>2, <4>3, Zenon
    <3> QED
      BY ONLY <3>5, <3>6, <3>7, <3>8
  <2> QED
    BY <2>1, <2>3
<1>7. \A e \in Dirs : action[c][e] = r \/ action[c][e] = t
  BY <1>1 DEF Dirs
<1> QED
  BY <1>3, <1>4, <1>6, <1>7, Zenon

\* max_dma_handler takes the interrupt of a channel.
LEMMA InterruptKeeps ==
  ASSUME DmaInv, NEW c \in Channels, Interrupt(c)
  PROVE  DmaInv'
<1> USE SetupFacts, Fields DEF DmaInv
<1>1. PICK d \in setup.devices, e \in Dirs : Uses(d, e, c)
  BY DEF Interrupt, Pending, Silent
<1>2. /\ c = Chan(d, e) /\ Configured(d, e) /\ List(d, e) # <<>>
      /\ Listed(d, e) /\ Owned(d, e) /\ Signalled(d, e)
  <2>1. /\ c = Chan(d, e) /\ Configured(d, e) /\ List(d, e) # <<>>
        /\ Listed(d, e) /\ Busy(d, e) /\ Owned(d, e)
    BY <1>1, Owner
  <2>2. hw[c].ctz
    BY DEF Interrupt, Pending
  <2> QED
    BY <2>1, <2>2 DEF Busy, Waiting, Running, Served
<1>3. /\ UNCHANGED <<setup, table, action, job, moved, pc, cur>>
      /\ hw' = [hw EXCEPT ![c].ctz = FALSE]
      /\ isr' = [ch |-> c, todo |-> Registered(c, "rx") \o Registered(c, "tx")]
      /\ isr.todo = <<>>
  BY DEF Interrupt, InIsr
<1>4. /\ isr'.ch = c /\ isr'.todo \in Seq(setup.devices)
      /\ \E i \in 1 .. Len(isr'.todo) : isr'.todo[i] = d
      /\ setup.lens \subseteq {1} \/ isr'.todo = <<>> \/ Len(isr'.todo) = 1
  <2>1. action[c][e] = d /\ d # NoDev
    BY <1>2 DEF Owned
  <2>2. PICK q : q = Registered(c, "rx") \o Registered(c, "tx")
    OBVIOUS
  <2>3. isr'.ch = c /\ isr'.todo = q
    BY <1>3, <2>2
  <2> HIDE SetupFacts, Fields
  <2>4. /\ q \in Seq(setup.devices)
        /\ \A g \in Dirs : action[c][g] # NoDev => \E i \in 1 .. Len(q) : q[i] = action[c][g]
        /\ setup.lens \subseteq {1} \/ q = <<>> \/ Len(q) = 1
    BY <2>2, Handlers
  <2> QED
    BY <2>1, <2>3, <2>4
<1>5. /\ \A b \in Channels : b # c => hw'[b] = hw[b]
      /\ ~hw'[c].en /\ ~hw'[c].ctz
      /\ hw'[c].irq = hw[c].irq /\ hw'[c].xfer = hw[c].xfer
  BY <1>2, <1>3 DEF Types, ChannelType, Signalled
<1>6. \A f \in setup.devices, g \in Dirs :
        /\ Chan(f, g)' = Chan(f, g) /\ (Configured(f, g)' <=> Configured(f, g))
        /\ (Started(f, g)' <=> Started(f, g)) /\ (Acquired(f, g)' <=> Acquired(f, g))
        /\ List(f, g)' = List(f, g) /\ Handled(f, g)' = Handled(f, g)
        /\ (Listed(f, g)' <=> Listed(f, g))
        /\ \A b : Uses(f, g, b)' <=> Uses(f, g, b)
  BY <1>3, Undisturbed
<1>7. \A g : /\ Chan(cur, g)' = Chan(cur, g)
             /\ (Configured(cur, g)' <=> Configured(cur, g))
             /\ (Acquired(cur, g)' <=> Acquired(cur, g))
  BY <1>3, Undisturbed
<1>8. Types'
  <2>1. hw' \in [Channels -> ChannelType]
    <3> HIDE SetupFacts, Fields
    <3> QED
      BY <1>3 DEF Types, ChannelType
  <2>2. isr' \in [ch : Channels, todo : Seq(setup.devices)]
    BY <1>3, <1>4
  <2> QED
    BY <1>3, <2>1, <2>2 DEF Types, ChannelType, EntryType, XferType, JobType
<1>9. Called'
  BY <1>3, <1>7 DEF Called, Moved
<1>10. Distinct' /\ Listless' /\ Even' /\ Synced'
  BY <1>3, Undisturbed
<1>11. Progress'
  <2> SUFFICES ASSUME NEW f \in setup.devices, NEW g \in Dirs PROVE Direction(f, g)'
    BY <1>3 DEF Progress
  <2>1. CASE f = d /\ g = e
    <3>1. Served(d, e)'
      BY <1>2, <1>3, <1>4, <1>5, <1>6 DEF Signalled, Served, Moved
    <3>2. Owned(d, e)'
      BY <1>2, <1>3, <1>5, <1>6 DEF Owned
    <3> QED
      BY <1>2, <1>6, <2>1, <3>1, <3>2 DEF Direction, Busy
  <2>2. CASE ~(f = d /\ g = e)
    <3>1. List(f, g) # <<>> /\ Busy(f, g) /\ Configured(f, g) => Busy(f, g)'
      <4> SUFFICES ASSUME List(f, g) # <<>>, Busy(f, g), Configured(f, g) PROVE Busy(f, g)'
        OBVIOUS
      <4>1. Chan(f, g) # c
        <5> SUFFICES ASSUME Chan(f, g) = c PROVE FALSE
          OBVIOUS
        <5>1. Uses(f, g, c)
          BY DEF Uses, List
        <5> QED
          BY <1>1, <2>2, <5>1, OneUser
      <4>2. hw'[Chan(f, g)] = hw[Chan(f, g)]
        BY <1>5, <4>1
      <4>3. Owned(f, g)'
        BY <1>3, <1>6, <4>2 DEF Owned, Busy
      <4>4. Waiting(f, g) => Waiting(f, g)'
        BY <1>3, <1>4, <1>6, <4>1, <4>2 DEF Waiting, Moved
      <4>5. Running(f, g) => Running(f, g)'
        BY <1>3, <1>6, <4>2 DEF Running, Moved
      <4>6. Signalled(f, g) => Signalled(f, g)'
        BY <1>3, <1>6, <4>2 DEF Signalled, Moved
      <4>7. ~Served(f, g)
        <5>1. Len(isr.todo) = 0
          BY <1>3
        <5> QED
          BY <5>1 DEF Served
      <4> QED
        BY <4>3, <4>4, <4>5, <4>6, <4>7 DEF Busy
    <3>2. Direction(f, g)
      BY DEF Progress
    <3>3. CASE Configured(f, g)
      BY <1>3, <1>6, <2>2, <3>1, <3>2, <3>3, Frame
    <3>4. CASE ~Configured(f, g)
      BY <1>6, <3>4 DEF Direction
    <3> QED
      BY <3>3, <3>4
  <2> QED
    BY <2>1, <2>2
<1>12. Silent'
  <2> SUFFICES ASSUME NEW b \in Channels, hw'[b].en \/ hw'[b].ctz
               PROVE  \E f \in setup.devices, g \in Dirs : Uses(f, g, b)'
    BY <1>3 DEF Silent
  <2>1. \E f \in setup.devices, g \in Dirs : Uses(f, g, b)
    BY <1>5 DEF Silent
  <2> QED
    BY <1>6, <2>1
<1>13. Claimed'
  <2> SUFFICES ASSUME NEW g \in Dirs, Acquired(cur, g), ~Configured(cur, g)
               PROVE  ~table[cur][Chan(cur, g)].free /\ Quiet(Chan(cur, g))'
    BY <1>3, <1>7 DEF Claimed, Types
  <2>1. ~table[cur][Chan(cur, g)].free /\ Quiet(Chan(cur, g))
    BY DEF Claimed
  <2>2. Chan(cur, g) # c
    BY <1>2, <2>1 DEF Quiet, Signalled
  <2>3. Quiet(Chan(cur, g))'
    <3>1. Chan(cur, g)' = Chan(cur, g) /\ Chan(cur, g) \in Channels
      BY <1>7 DEF Types
    <3>2. hw'[Chan(cur, g)] = hw[Chan(cur, g)]
      BY <1>5, <2>2, <3>1
    <3> QED
      BY <1>3, <2>1, <3>1, <3>2 DEF Quiet
  <2> QED
    BY <2>1, <2>3
<1>14. Serving'
  BY <1>3, <1>4, <1>5 DEF Serving, InIsr
<1> QED
  BY <1>8, <1>9, <1>10, <1>11, <1>12, <1>13, <1>14

\* The device whose handler is called.
LEMMA Served1 ==
  ASSUME Types, InIsr
  PROVE  /\ Head(isr.todo) \in setup.devices /\ isr.ch \in Channels
         /\ Tail(isr.todo) \in Seq(setup.devices)
         /\ Len(Tail(isr.todo)) = Len(isr.todo) - 1 /\ Len(isr.todo) \in Nat \ {0}
         /\ \A i \in 1 .. Len(isr.todo) : isr.todo[i] # Head(isr.todo) =>
              \E j \in 1 .. Len(Tail(isr.todo)) : Tail(isr.todo)[j] = isr.todo[i]
<1>1. isr.todo \in Seq(setup.devices) /\ isr.todo # <<>> /\ isr.ch \in Channels
  BY Fields DEF InIsr
<1>2. /\ Len(isr.todo) \in Nat \ {0} /\ Tail(isr.todo) \in Seq(setup.devices)
      /\ Len(Tail(isr.todo)) = Len(isr.todo) - 1 /\ Head(isr.todo) = isr.todo[1]
      /\ Head(isr.todo) \in setup.devices
      /\ \A i \in 1 .. Len(isr.todo) - 1 : Tail(isr.todo)[i] = isr.todo[i + 1]
  <2>1. PICK q, D : q = isr.todo /\ D = setup.devices
    OBVIOUS
  <2>2. q \in Seq(D) /\ q # <<>>
    BY <1>1, <2>1
  <2>3. /\ Len(q) \in Nat \ {0} /\ Tail(q) \in Seq(D)
        /\ Len(Tail(q)) = Len(q) - 1 /\ Head(q) = q[1] /\ Head(q) \in D
        /\ \A i \in 1 .. Len(q) - 1 : Tail(q)[i] = q[i + 1]
    BY <2>2
  <2> QED
    BY <2>1, <2>3
<1>3. ASSUME NEW i \in 1 .. Len(isr.todo), isr.todo[i] # Head(isr.todo)
      PROVE  \E j \in 1 .. Len(Tail(isr.todo)) : Tail(isr.todo)[j] = isr.todo[i]
  <2>1. i # 1
    BY <1>2, <1>3
  <2>2. i - 1 \in 1 .. Len(isr.todo) - 1 /\ (i - 1) + 1 = i
    BY <1>2, <2>1
  <2>3. Tail(isr.todo)[i - 1] = isr.todo[i]
    BY <1>2, <2>2
  <2> QED
    BY <1>2, <2>2, <2>3
<1> QED
  BY <1>1, <1>2, <1>3

\* default_sg_callback with an empty list disables the channel of the interrupt,
\* which does not run.
LEMMA SgEmptyKeeps ==
  ASSUME DmaInv, SgEmpty
  PROVE  DmaInv'
<1> USE SetupFacts, Fields DEF DmaInv
<1>1. PICK d, c : d = Head(isr.todo) /\ c = isr.ch
  OBVIOUS
<1>2. InIsr /\ table[d][c].list = <<>> /\ Abort(d, {c})
  BY <1>1 DEF SgEmpty
<1>3. /\ d \in setup.devices /\ c \in Channels /\ Tail(isr.todo) \in Seq(setup.devices)
      /\ Len(Tail(isr.todo)) = Len(isr.todo) - 1 /\ Len(isr.todo) \in Nat \ {0}
      /\ \A i \in 1 .. Len(isr.todo) : isr.todo[i] # d =>
           \E j \in 1 .. Len(Tail(isr.todo)) : Tail(isr.todo)[j] = isr.todo[i]
  BY <1>1, <1>2, Served1
<1>4. /\ UNCHANGED <<setup, action, job, moved, pc, cur>>
      /\ isr' = [isr EXCEPT !.todo = Tail(@)]
  BY DEF SgEmpty
<1>5. isr'.ch = c /\ isr'.todo = Tail(isr.todo)
  BY <1>1, <1>4 DEF Types
<1>6. ~hw[c].en /\ ~hw[c].ctz
  BY <1>1, <1>2 DEF Serving
<1>7. table' = table
  <2>1. table' = [table EXCEPT ![d] =
                   [b \in Channels |-> IF b \in {c} THEN [table[d][b] EXCEPT !.list = <<>>]
                                                    ELSE table[d][b]]]
    BY <1>2 DEF Abort
  <2>2. [table[d][c] EXCEPT !.list = <<>>] = table[d][c]
    BY <1>2, <1>3 DEF EntryType
  <2>3. [b \in Channels |-> IF b \in {c} THEN [table[d][b] EXCEPT !.list = <<>>]
                                         ELSE table[d][b]] = [b \in Channels |-> table[d][b]]
    BY <2>2
  <2>4. [b \in Channels |-> table[d][b]] = table[d]
    BY <1>3 DEF Types
  <2> QED
    <3> HIDE SetupFacts, Fields
    <3> QED
      BY <1>3, <2>1, <2>3, <2>4 DEF Types
<1>8. /\ \A b \in Channels : b # c => hw'[b] = hw[b]
      /\ hw'[c].en = FALSE /\ hw'[c].ctz = hw[c].ctz /\ hw'[c].xfer = hw[c].xfer
      /\ hw' \in [Channels -> ChannelType]
  <2>1. hw' = [b \in Channels |-> IF b \in {c} THEN [hw[b] EXCEPT !.irq = FALSE, !.en = FALSE]
                                               ELSE hw[b]]
    BY <1>2 DEF Abort
  <2>2. [hw[c] EXCEPT !.irq = FALSE, !.en = FALSE] \in ChannelType
    <3>1. PICK y : y = hw[c] /\ y \in ChannelType
      BY <1>3
    <3> HIDE SetupFacts, Fields
    <3>2. [y EXCEPT !.irq = FALSE, !.en = FALSE] \in ChannelType
      BY <3>1 DEF ChannelType
    <3> QED
      BY <3>1, <3>2
  <2>3. /\ hw'[c] = [hw[c] EXCEPT !.irq = FALSE, !.en = FALSE]
        /\ \A b \in Channels : b # c => hw'[b] = hw[b]
    BY <1>3, <2>1
  <2>4. \A b \in Channels : hw'[b] \in ChannelType
    BY <2>2, <2>3
  <2> QED
    BY <1>3, <2>1, <2>3, <2>4 DEF ChannelType
<1>9. \A f \in setup.devices, g \in Dirs :
        /\ Chan(f, g)' = Chan(f, g) /\ (Configured(f, g)' <=> Configured(f, g))
        /\ (Started(f, g)' <=> Started(f, g)) /\ (Acquired(f, g)' <=> Acquired(f, g))
        /\ List(f, g)' = List(f, g) /\ Handled(f, g)' = Handled(f, g)
        /\ (Listed(f, g)' <=> Listed(f, g))
        /\ \A b : Uses(f, g, b)' <=> Uses(f, g, b)
  BY <1>4, <1>7, Undisturbed
<1>10. \A g : /\ Chan(cur, g)' = Chan(cur, g)
             /\ (Configured(cur, g)' <=> Configured(cur, g))
             /\ (Acquired(cur, g)' <=> Acquired(cur, g))
  BY <1>4, <1>7, Undisturbed
<1>11. Types'
  <2>1. isr' \in [ch : Channels, todo : Seq(setup.devices)]
    BY <1>3, <1>4 DEF Types
  <2> QED
    BY <1>4, <1>7, <1>8, <2>1 DEF Types, ChannelType, EntryType, XferType, JobType
<1>12. Called'
  BY <1>4, <1>10 DEF Called, Moved
<1>13. Distinct' /\ Listless' /\ Even' /\ Synced'
  BY <1>4, <1>7, Undisturbed
<1>14. Progress'
  <2> SUFFICES ASSUME NEW f \in setup.devices, NEW g \in Dirs PROVE Direction(f, g)'
    BY <1>4 DEF Progress
  <2>1. ASSUME List(f, g) # <<>>, Busy(f, g) PROVE Busy(f, g)'
    <3>1. CASE Chan(f, g) = c
      <4>1. f # d
        BY <1>2, <2>1, <3>1 DEF List
      <4>2. Owned(f, g)'
        BY <1>4, <1>7, <1>8, <1>9, <2>1, <3>1 DEF Owned, Busy
      <4>3. ~Running(f, g) /\ ~Signalled(f, g)
        BY <1>6, <3>1 DEF Running, Signalled
      <4>4. ~Waiting(f, g)
        BY <1>1, <1>2, <3>1 DEF Waiting
      <4>5. Served(f, g)
        BY <2>1, <4>3, <4>4 DEF Busy
      <4>6. PICK i \in 1 .. Len(isr.todo) : isr.todo[i] = f
        BY <4>5 DEF Served
      <4>7. \E j \in 1 .. Len(isr'.todo) : isr'.todo[j] = f
        BY <1>3, <1>5, <4>1, <4>6
      <4>8. Served(f, g)'
        BY <1>4, <1>5, <1>6, <1>8, <1>9, <3>1, <4>5, <4>7 DEF Served, Moved
      <4> QED
        BY <4>2, <4>8 DEF Busy
    <3>2. CASE Chan(f, g) # c
      <4>1. hw'[Chan(f, g)] = hw[Chan(f, g)]
        BY <1>8, <3>2
      <4>2. Owned(f, g)'
        BY <1>4, <1>7, <1>9, <2>1, <4>1 DEF Owned, Busy
      <4>3. Waiting(f, g) => Waiting(f, g)'
        BY <1>4, <1>5, <1>9, <3>2, <4>1 DEF Waiting, Moved
      <4>4. Running(f, g) => Running(f, g)'
        BY <1>4, <1>9, <4>1 DEF Running, Moved
      <4>5. Signalled(f, g) => Signalled(f, g)'
        BY <1>4, <1>9, <4>1 DEF Signalled, Moved
      <4>6. ~Served(f, g)
        BY <1>1, <3>2 DEF Served
      <4> QED
        BY <2>1, <4>2, <4>3, <4>4, <4>5, <4>6 DEF Busy
    <3> QED
      BY <3>1, <3>2
  <2>2. Direction(f, g)
    BY DEF Progress
  <2> QED
    BY <1>4, <1>7, <1>9, <2>1, <2>2, Frame
<1>15. Silent'
  <2> SUFFICES ASSUME NEW b \in Channels, hw'[b].en \/ hw'[b].ctz
               PROVE  \E f \in setup.devices, g \in Dirs : Uses(f, g, b)'
    BY <1>4 DEF Silent
  <2>1. \E f \in setup.devices, g \in Dirs : Uses(f, g, b)
    BY <1>8 DEF Silent
  <2> QED
    BY <1>9, <2>1
<1>16. Claimed'
  <2> SUFFICES ASSUME NEW g \in Dirs, Acquired(cur, g), ~Configured(cur, g)
               PROVE  ~table[cur][Chan(cur, g)].free /\ Quiet(Chan(cur, g))'
    BY <1>4, <1>7, <1>10 DEF Claimed, Types
  <2>1. ~table[cur][Chan(cur, g)].free /\ Quiet(Chan(cur, g))
    BY DEF Claimed
  <2>2. Chan(cur, g)' = Chan(cur, g) /\ Chan(cur, g) \in Channels
    BY <1>10 DEF Types
  <2>3. ~hw'[Chan(cur, g)].en /\ ~hw'[Chan(cur, g)].ctz
    BY <1>8, <2>1, <2>2 DEF Quiet
  <2> QED
    BY <1>4, <1>7, <2>1, <2>2, <2>3 DEF Quiet
<1>17. Serving'
  <2>1. InIsr' => setup.lens \subseteq {1}
    <3>1. Len(isr.todo) = 1 => isr'.todo = <<>>
      <4>1. PICK q : q = Tail(isr.todo)
        OBVIOUS
      <4>2. q \in Seq(setup.devices) /\ (Len(isr.todo) = 1 => Len(q) = 0)
        BY <1>3, <4>1
      <4>3. Len(q) = 0 => q = <<>>
        BY <4>2
      <4> QED
        BY <1>5, <4>1, <4>2, <4>3
    <3> QED
      BY <1>2, <3>1 DEF Serving, InIsr
  <2> QED
    BY <1>4, <1>5, <1>6, <1>8, <2>1 DEF Serving, InIsr
<1> QED
  BY <1>11, <1>12, <1>13, <1>14, <1>15, <1>16, <1>17

\* default_sg_callback takes a transfer off the list of the channel's user: the next
\* one is started, or the direction is over.
LEMMA SgCallbackKeeps ==
  ASSUME DmaInv, SgCallback
  PROVE  DmaInv'
<1> USE SetupFacts, Fields DEF DmaInv
<1>1. PICK d, c : d = Head(isr.todo) /\ c = isr.ch
  OBVIOUS
<1>2. InIsr /\ table[d][c].list # <<>>
  BY <1>1 DEF SgCallback
<1>3. /\ d \in setup.devices /\ c \in Channels /\ Tail(isr.todo) \in Seq(setup.devices)
      /\ Len(Tail(isr.todo)) = Len(isr.todo) - 1 /\ Len(isr.todo) \in Nat \ {0}
      /\ \A i \in 1 .. Len(isr.todo) : isr.todo[i] # d =>
           \E j \in 1 .. Len(Tail(isr.todo)) : Tail(isr.todo)[j] = isr.todo[i]
  BY <1>1, <1>2, Served1
<1>4. PICK e \in Dirs : Uses(d, e, c)
  BY <1>2, <1>3 DEF Listless
<1>5. /\ c = Chan(d, e) /\ Configured(d, e) /\ Listed(d, e) /\ Owned(d, e) /\ Served(d, e)
      /\ Started(d, e) /\ ~hw[c].en /\ ~hw[c].ctz
  <2>1. c = Chan(d, e) /\ Configured(d, e) /\ Listed(d, e) /\ Busy(d, e) /\ Owned(d, e)
    BY <1>3, <1>4, Owner
  <2>2. ~hw[c].en /\ ~hw[c].ctz
    BY <1>1, <1>2 DEF Serving
  <2> QED
    BY <1>1, <1>2, <2>1, <2>2 DEF Busy, Running, Signalled, Waiting, Served
<1>6. PICK L, rest, n, m : /\ L = table[d][c].list /\ rest = Tail(L)
                           /\ n = job[d].len /\ m = Handled(d, e)
  OBVIOUS
<1>7. /\ L \in Seq(XferType) /\ L # <<>> /\ rest \in Seq(XferType)
      /\ Len(L) \in Nat /\ Len(L) > 0 /\ Len(rest) = Len(L) - 1 /\ (rest = <<>> <=> Len(L) = 1)
      /\ n \in Nat /\ n \in setup.lens /\ m = n - Len(L) /\ m \in Nat
      /\ Head(L) = L[1] /\ \A k \in 1 .. Len(L) - 1 : rest[k] = L[k + 1]
      /\ rest # <<>> => Head(rest) = rest[1] /\ Head(rest) \in XferType
  <2>1. L \in Seq(XferType) /\ L # <<>> /\ L = List(d, e)
    BY <1>2, <1>3, <1>5, <1>6 DEF List
  <2>2. PICK X : X = XferType
    OBVIOUS
  <2>3. /\ rest \in Seq(X) /\ Len(L) \in Nat /\ Len(L) > 0 /\ Len(rest) = Len(L) - 1
        /\ Head(L) = L[1] /\ \A k \in 1 .. Len(L) - 1 : rest[k] = L[k + 1]
    BY <1>6, <2>1, <2>2
  <2>4. rest = <<>> <=> Len(rest) = 0
    <3> HIDE SetupFacts, Fields
    <3> QED
      BY <2>3
  <2>5. rest # <<>> => Head(rest) = rest[1] /\ Head(rest) \in X
    BY <2>3
  <2>6. n \in Nat /\ n \in setup.lens
    BY <1>3, <1>5, <1>6 DEF Called, Configured
  <2>7. m = n - Len(L) /\ Len(L) <= n
    BY <1>5, <1>6, <2>1 DEF Handled, Listed
  <2> QED
    BY <2>1, <2>2, <2>3, <2>4, <2>5, <2>6, <2>7
<1>l. /\ n - Len(rest) = m + 1 /\ Len(rest) <= n /\ (rest = <<>> => m + 1 = n)
      /\ \A k \in 1 .. Len(rest) :
           k \in 1 .. Len(L) - 1 /\ k + 1 \in 1 .. Len(L) /\ m + (k + 1) = (m + 1) + k
  <2>1. PICK l, r : l = Len(L) /\ r = Len(rest)
    OBVIOUS
  <2>2. l \in Nat /\ l > 0 /\ r = l - 1 /\ n \in Nat /\ m \in Nat /\ m = n - l
    BY <1>7, <2>1
  <2>3. rest = <<>> => l = 1
    BY <1>7, <2>1
  <2>4. /\ n - r = m + 1 /\ r <= n /\ (l = 1 => m + 1 = n)
        /\ \A k \in 1 .. r : k \in 1 .. l - 1 /\ k + 1 \in 1 .. l /\ m + (k + 1) = (m + 1) + k
    <3> HIDE SetupFacts, Fields
    <3> QED
      BY <2>2
  <2> QED
    BY <2>1, <2>3, <2>4
<1>8. \A k \in 1 .. Len(L) : L[k] = [dev |-> d, dir |-> e, k |-> m + k]
  BY <1>5, <1>6 DEF Listed, List
<1>9. /\ UNCHANGED <<setup, action, moved, pc, cur>>
      /\ isr' = [isr EXCEPT !.todo = Tail(@)]
      /\ job' = IF Head(L).dir = "tx" /\ rest = <<>>
                THEN [job EXCEPT ![d].data = FALSE, ![d].called = job[d].async]
                ELSE job
      /\ table' = [table EXCEPT ![d][c] =
                     [free |-> @.free \/ rest = <<>>, list |-> rest]]
      /\ hw' = [hw EXCEPT ![c] = IF rest = <<>> THEN [@ EXCEPT !.irq = FALSE]
                                               ELSE Start(Load(@, Head(rest)))]
  <2> HIDE SetupFacts, Fields
  <2> QED
    BY <1>1, <1>6 DEF SgCallback
<1>10. isr'.ch = c /\ isr'.todo = Tail(isr.todo)
  BY <1>1, <1>9 DEF Types
<1>11. /\ \A f \in setup.devices : /\ job'[f].ret = job[f].ret /\ job'[f].ch = job[f].ch
                                   /\ job'[f].len = job[f].len /\ job'[f].async = job[f].async
       /\ job' \in [setup.devices -> JobType]
  <2>1. PICK j : j = [job[d] EXCEPT !.data = FALSE, !.called = job[d].async]
    OBVIOUS
  <2>2. /\ j \in JobType /\ j.ret = job[d].ret /\ j.ch = job[d].ch /\ j.len = job[d].len
        /\ j.async = job[d].async
    <3>1. PICK i, a : i = job[d] /\ a = job[d].async
      OBVIOUS
    <3>2. i \in JobType /\ a \in BOOLEAN /\ j = [i EXCEPT !.data = FALSE, !.called = a]
      BY <1>3, <2>1, <3>1 DEF JobType
    <3>3. j \in JobType /\ j.ret = i.ret /\ j.ch = i.ch /\ j.len = i.len /\ j.async = i.async
      <4> HIDE SetupFacts, Fields
      <4> QED
        BY <3>2 DEF JobType
    <3> QED
      BY <3>1, <3>3
  <2>3. job' = job \/ job' = [job EXCEPT ![d] = j]
    BY <1>9, <2>1
  <2>4. job \in [setup.devices -> JobType]
    BY DEF Types
  <2> QED
    <3> HIDE SetupFacts, Fields
    <3> QED
      BY <1>3, <2>2, <2>3, <2>4
<1>12. /\ \A f \in setup.devices, b \in Channels :
            ~(f = d /\ b = c) => table'[f][b] = table[f][b]
       /\ table'[d][c].list = rest /\ (table'[d][c].free <=> rest = <<>>)
       /\ table' \in [setup.devices -> [Channels -> EntryType]]
  <2>1. ~table[d][c].free
    BY <1>5 DEF Owned
  <2>2. PICK x : x = [free |-> table[d][c].free \/ rest = <<>>, list |-> rest]
    OBVIOUS
  <2>3. x \in EntryType /\ x.list = rest /\ (x.free <=> rest = <<>>)
    BY <1>7, <2>1, <2>2 DEF EntryType
  <2>4. table' = [table EXCEPT ![d][c] = x]
    BY <1>9, <2>2
  <2> QED
    <3> HIDE SetupFacts, Fields
    <3> QED
      BY <1>3, <2>3, <2>4 DEF Types
<1>13. /\ \A b \in Channels : b # c => hw'[b] = hw[b]
       /\ ~hw'[c].ctz /\ hw' \in [Channels -> ChannelType]
       /\ rest = <<>> => ~hw'[c].en
       /\ rest # <<>> => hw'[c].en /\ hw'[c].irq /\ hw'[c].xfer = Head(rest)
  <2>1. CASE rest = <<>>
    <3>1. hw' = [hw EXCEPT ![c] = [hw[c] EXCEPT !.irq = FALSE]]
      BY <1>9, <2>1
    <3>2. PICK h : h = [hw[c] EXCEPT !.irq = FALSE]
      OBVIOUS
    <3>3. h \in ChannelType /\ ~h.en /\ ~h.ctz
      <4>1. PICK y : y = hw[c] /\ y \in ChannelType /\ ~y.en /\ ~y.ctz
        BY <1>3, <1>5
      <4> HIDE SetupFacts, Fields
      <4>2. h = [y EXCEPT !.irq = FALSE]
        BY <3>2, <4>1
      <4> QED
        BY <4>1, <4>2 DEF ChannelType
    <3> QED
      BY <1>3, <2>1, <3>1, <3>2, <3>3 DEF Types
  <2>2. CASE rest # <<>>
    <3>1. PICK h : h = Start(Load(hw[c], Head(rest)))
      OBVIOUS
    <3>2. hw' = [hw EXCEPT ![c] = h]
      BY <1>9, <2>2, <3>1
    <3>3. PICK y : y = Head(rest) /\ y \in XferType
      BY <1>7, <2>2
    <3>4. h = [[hw[c] EXCEPT !.xfer = y] EXCEPT !.irq = TRUE, !.en = TRUE]
      BY <3>1, <3>3 DEF Start, Load
    <3>5. h \in ChannelType /\ h.en /\ h.irq /\ ~h.ctz /\ h.xfer = y
      <4>1. PICK z : z = hw[c] /\ z \in ChannelType /\ ~z.ctz
        BY <1>3, <1>5
      <4> HIDE SetupFacts, Fields
      <4>2. h = [z EXCEPT !.xfer = y, !.irq = TRUE, !.en = TRUE]
        BY <3>4, <4>1 DEF ChannelType
      <4> QED
        BY <3>3, <4>1, <4>2 DEF ChannelType
    <3> QED
      BY <1>3, <2>2, <3>2, <3>3, <3>5 DEF Types
  <2> QED
    BY <2>1, <2>2
<1>14. /\ \A f \in setup.devices, g \in Dirs :
            /\ Chan(f, g)' = Chan(f, g) /\ (Configured(f, g)' <=> Configured(f, g))
            /\ (Started(f, g)' <=> Started(f, g)) /\ (Acquired(f, g)' <=> Acquired(f, g))
       /\ \A g : /\ Chan(cur, g)' = Chan(cur, g)
                 /\ (Configured(cur, g)' <=> Configured(cur, g))
                 /\ (Acquired(cur, g)' <=> Acquired(cur, g))
  BY <1>9, <1>11, Still
<1>15. \A g \in Dirs : g # e /\ Configured(d, g) => Chan(d, g) # c
  <2> SUFFICES ASSUME NEW g \in Dirs, g # e, Configured(d, g) PROVE Chan(d, g) # c
    OBVIOUS
  <2>1. \A i \in Dirs : Configured(d, i) => Acquired(d, i)
    BY DEF Configured, Acquired
  <2>2. \A i \in Dirs : i = g \/ i = e
    BY DEF Dirs
  <2>3. \A i \in Dirs : Acquired(d, i)
    BY <1>5, <2>1, <2>2
  <2>4. Chan(d, "tx") # Chan(d, "rx")
    BY <1>3, <2>3 DEF Distinct
  <2> QED
    BY <1>5, <2>4 DEF Dirs
<1>16. rest # <<>> => isr'.todo = <<>>
  <2> SUFFICES ASSUME rest # <<>> PROVE isr'.todo = <<>>
    OBVIOUS
  <2>1. n > 1
    BY <1>7
  <2>2. ~(setup.lens \subseteq {1})
    BY <1>7, <2>1
  <2>3. Len(isr.todo) = 1
    BY <1>2, <2>2 DEF Serving
  <2>4. PICK q : q = Tail(isr.todo)
    OBVIOUS
  <2>5. q \in Seq(setup.devices) /\ Len(q) = 0
    BY <1>3, <2>3, <2>4
  <2>6. q = <<>>
    BY <2>5
  <2> QED
    BY <1>10, <2>4, <2>6
<1>17. Types'
  <2>1. isr' \in [ch : Channels, todo : Seq(setup.devices)]
    BY <1>3, <1>9 DEF Types
  <2> QED
    BY <1>9, <1>11, <1>12, <1>13, <2>1 DEF Types, ChannelType, EntryType, XferType, JobType
<1>18. Called'
  <2>1. cur \in setup.devices
    BY DEF Types
  <2> QED
    BY <1>9, <1>11, <1>14, <2>1 DEF Called, Moved
<1>19. Distinct'
  BY <1>9, <1>14 DEF Distinct
<1>20. Progress'
  <2> SUFFICES ASSUME NEW f \in setup.devices, NEW g \in Dirs PROVE Direction(f, g)'
    BY <1>9 DEF Progress
  <2>1. CASE f = d /\ g = e
    <3>1. List(d, e)' = rest /\ Chan(d, e)' = c
      BY <1>3, <1>5, <1>12, <1>14 DEF List
    <3>2. Handled(d, e)' = m + 1
      BY <1>3, <1>6, <1>l, <1>11, <3>1 DEF Handled
    <3>3. Listed(d, e)'
      <4>1. \A k \in 1 .. Len(rest) : rest[k] = [dev |-> d, dir |-> e, k |-> (m + 1) + k]
        <5> SUFFICES ASSUME NEW k \in 1 .. Len(rest)
                     PROVE  rest[k] = [dev |-> d, dir |-> e, k |-> (m + 1) + k]
          OBVIOUS
        <5>1. k \in 1 .. Len(L) - 1 /\ k + 1 \in 1 .. Len(L) /\ m + (k + 1) = (m + 1) + k
          BY <1>l
        <5>2. rest[k] = L[k + 1] /\ L[k + 1] = [dev |-> d, dir |-> e, k |-> m + (k + 1)]
          BY <1>7, <1>8, <5>1
        <5> QED
          BY <5>1, <5>2
      <4>2. Len(rest) <= n /\ job'[d].len = n
        BY <1>3, <1>6, <1>l, <1>11
      <4> QED
        BY <3>1, <3>2, <4>1, <4>2 DEF Listed
    <3>4. Len(moved'[d][e]) = m + 1 /\ \A k \in 1 .. m + 1 : moved'[d][e][k] = k
      BY <1>5, <1>6, <1>9 DEF Served, Moved
    <3>5. CASE rest = <<>>
      <4>1. m + 1 = n /\ job'[d].len = n
        BY <1>3, <1>6, <1>l, <1>11, <3>5
      <4>2. Over(d, e)'
        BY <1>3, <1>5, <1>12, <1>14, <3>1, <3>4, <3>5, <4>1 DEF Over, Moved
      <4> QED
        BY <2>1, <3>1, <3>3, <3>5, <4>2 DEF Direction
    <3>6. CASE rest # <<>>
      <4>1. Head(rest) = [dev |-> d, dir |-> e, k |-> (m + 1) + 1]
        <5>1. 1 \in 1 .. Len(L) - 1 /\ 1 + 1 \in 1 .. Len(L)
          BY <1>7, <3>6
        <5>2. Head(rest) = L[1 + 1] /\ L[1 + 1] = [dev |-> d, dir |-> e, k |-> m + (1 + 1)]
          BY <1>7, <1>8, <3>6, <5>1
        <5>3. m + (1 + 1) = (m + 1) + 1
          BY <1>7
        <5> QED
          BY <5>2, <5>3
      <4>2. Owned(d, e)'
        <5> HIDE SetupFacts, Fields
        <5> QED
          BY <1>3, <1>5, <1>9, <1>12, <1>13, <3>1, <3>2, <3>6, <4>1 DEF Owned
      <4>3. Running(d, e)'
        BY <1>3, <1>5, <1>13, <1>14, <3>1, <3>2, <3>4, <3>6 DEF Running, Moved
      <4> QED
        BY <2>1, <3>1, <3>3, <3>6, <4>2, <4>3 DEF Direction, Busy
    <3> QED
      BY <3>5, <3>6
  <2>2. CASE ~(f = d /\ g = e) /\ Configured(f, g)
    <3>1. ~(f = d /\ Chan(f, g) = c)
      BY <1>15, <2>2
    <3>2. table'[f][Chan(f, g)] = table[f][Chan(f, g)]
      BY <1>12, <3>1
    <3>3. List(f, g)' = List(f, g) /\ Handled(f, g)' = Handled(f, g)
      BY <1>11, <1>14, <3>2 DEF List, Handled
    <3>4. ASSUME List(f, g) # <<>>, Busy(f, g) PROVE Busy(f, g)'
      <4>1. Chan(f, g) # c
        <5> SUFFICES ASSUME Chan(f, g) = c PROVE FALSE
          OBVIOUS
        <5>1. Uses(f, g, c)
          BY <2>2, <3>4 DEF Uses, List
        <5> QED
          BY <1>3, <1>4, <2>2, <5>1, OneUser
      <4>2. hw'[Chan(f, g)] = hw[Chan(f, g)]
        BY <1>13, <4>1
      <4>3. Owned(f, g)'
        BY <1>9, <1>14, <3>2, <3>3, <3>4, <4>2 DEF Owned, Busy
      <4>4. Waiting(f, g) => Waiting(f, g)'
        BY <1>9, <1>10, <1>14, <3>3, <4>1, <4>2 DEF Waiting, Moved
      <4>5. Running(f, g) => Running(f, g)'
        BY <1>9, <1>14, <3>3, <4>2 DEF Running, Moved
      <4>6. Signalled(f, g) => Signalled(f, g)'
        BY <1>9, <1>14, <3>3, <4>2 DEF Signalled, Moved
      <4>7. ~Served(f, g)
        BY <1>1, <4>1 DEF Served
      <4> QED
        BY <3>4, <4>3, <4>4, <4>5, <4>6, <4>7 DEF Busy
    <3>5. Direction(f, g)
      BY DEF Progress
    <3> QED
      BY <1>9, <1>11, <1>14, <3>2, <3>4, <3>5, Frame
  <2>3. CASE ~Configured(f, g)
    BY <1>14, <2>3 DEF Direction
  <2> QED
    BY <1>5, <2>1, <2>2, <2>3
<1>21. \A f \in setup.devices, g \in Dirs, b \in Channels :
         Uses(f, g, b) /\ ~(f = d /\ b = c) => Uses(f, g, b)'
  BY <1>12, <1>14 DEF Uses
<1>22. Listless'
  <2> SUFFICES ASSUME NEW f \in setup.devices, NEW b \in Channels, table'[f][b].list # <<>>
               PROVE  \E g \in Dirs : Uses(f, g, b)'
    BY <1>9 DEF Listless
  <2>1. CASE f = d /\ b = c
    <3>1. Uses(d, e, c)'
      BY <1>5, <1>14, <2>1, <1>3 DEF Uses
    <3> QED
      BY <2>1, <3>1
  <2>2. CASE ~(f = d /\ b = c)
    <3>1. PICK g \in Dirs : Uses(f, g, b)
      <4> HIDE SetupFacts, Fields
      <4> QED
        BY <1>12, <2>2 DEF Listless
    <3> QED
      BY <1>21, <2>2, <3>1
  <2> QED
    BY <2>1, <2>2
<1>23. Silent'
  <2> SUFFICES ASSUME NEW b \in Channels, hw'[b].en \/ hw'[b].ctz
               PROVE  \E f \in setup.devices, g \in Dirs : Uses(f, g, b)'
    BY <1>9 DEF Silent
  <2>1. CASE b = c
    <3>1. rest # <<>>
      BY <1>13, <2>1
    <3>2. Uses(d, e, c)'
      BY <1>3, <1>5, <1>12, <1>14, <3>1 DEF Uses
    <3> QED
      BY <1>3, <2>1, <3>2
  <2>2. CASE b # c
    <3>1. PICK f \in setup.devices, g \in Dirs : Uses(f, g, b)
      BY <1>13, <2>2 DEF Silent
    <3> QED
      BY <1>21, <2>2, <3>1
  <2> QED
    BY <2>1, <2>2
<1>24. Claimed'
  <2> SUFFICES ASSUME NEW g \in Dirs, Acquired(cur, g), ~Configured(cur, g)
               PROVE  ~table'[cur][Chan(cur, g)].free /\ Quiet(Chan(cur, g))'
    BY <1>9, <1>14 DEF Claimed, Types
  <2>1. ~table[cur][Chan(cur, g)].free /\ Quiet(Chan(cur, g))
    BY DEF Claimed
  <2>2. Chan(cur, g)' = Chan(cur, g) /\ Chan(cur, g) \in Channels /\ cur \in setup.devices
    BY <1>14 DEF Types
  <2>3. Chan(cur, g) # c
    BY <1>2, <1>3, <2>1 DEF Quiet
  <2>4. /\ hw'[Chan(cur, g)] = hw[Chan(cur, g)]
        /\ \A f \in setup.devices : table'[f][Chan(cur, g)] = table[f][Chan(cur, g)]
    BY <1>12, <1>13, <2>2, <2>3
  <2> QED
    <3> HIDE SetupFacts, Fields
    <3> QED
      BY <1>9, <2>1, <2>2, <2>4 DEF Quiet
<1>25. Serving'
  <2>1. InIsr' => rest = <<>> /\ setup.lens \subseteq {1}
    <3>1. Len(isr.todo) = 1 => isr'.todo = <<>>
      <4>1. PICK q : q = Tail(isr.todo)
        OBVIOUS
      <4>2. q \in Seq(setup.devices) /\ (Len(isr.todo) = 1 => Len(q) = 0)
        BY <1>3, <4>1
      <4>3. Len(q) = 0 => q = <<>>
        BY <4>2, Parity
      <4> QED
        BY <1>10, <4>1, <4>2, <4>3
    <3> QED
      BY <1>2, <1>16, <3>1 DEF Serving, InIsr
  <2> QED
    BY <1>9, <1>10, <1>13, <2>1 DEF Serving, InIsr
<1>26. Even'
  <2> SUFFICES ASSUME ~(setup.lens \subseteq {1}) PROVE setup.devices = {cur} /\ Actions' /\ Pairs'
    BY <1>9 DEF Even
  <2>1. setup.devices = {cur} /\ Actions /\ Pairs
    BY DEF Even
  <2>2. cur = d
    BY <1>3, <2>1
  <2>3. Actions'
    BY <1>9, <2>1 DEF Actions
  <2>4. Acquired(cur, "tx") /\ (e = "rx" => Acquired(cur, "rx"))
    <3>1. \A g \in Dirs : Configured(d, g) => Acquired(d, g) /\ Acquired(d, "tx")
      BY DEF Configured, Acquired, Dirs
    <3> QED
      BY <1>5, <2>2, <3>1
  <2>5. Chan(cur, "tx") % 2 = 0 /\ (e = "rx" => c = Chan(cur, "tx") + 1)
    BY <1>5, <2>1, <2>2, <2>4 DEF Pairs
  <2>6. e = "tx" => c = Chan(cur, "tx")
    BY <1>5, <2>2
  <2>7. ASSUME NEW b \in Channels, b # Chan(cur, "tx") PROVE Pair(b)'
    <3>1. Pair(b)
      BY <2>1, <2>7 DEF Pairs
    <3>2. b % 2 = 0 /\ b + 1 \in Channels => b # c /\ b + 1 # c
      <4>1. PICK t : t = Chan(cur, "tx")
        OBVIOUS
      <4>2. b \in Nat /\ t \in Nat /\ t % 2 = 0 /\ (c = t \/ c = t + 1) /\ b # t
        BY <2>5, <2>6, <2>7, <4>1 DEF Dirs, Types
      <4>3. b % 2 = 0 => b # t + 1 /\ b + 1 # t
        BY <4>2, Parity
      <4> QED
        <5> HIDE SetupFacts, Fields
        <5> QED
          BY <4>2, <4>3
    <3>3. b % 2 = 0 /\ b + 1 \in Channels =>
            table'[cur][b] = table[cur][b] /\ table'[cur][b + 1] = table[cur][b + 1]
      <4> HIDE SetupFacts, Fields
      <4> QED
        BY <1>3, <1>12, <2>2, <3>2
    <3> QED
      BY <1>9, <3>1, <3>3 DEF Pair
  <2>8. pc # "acquire_rx"
    BY <1>5, <2>2 DEF Configured, Called
  <2>9. Pairs'
    BY <1>9, <1>14, <2>1, <2>4, <2>5, <2>7, <2>8 DEF Pairs
  <2> QED
    BY <2>1, <2>3, <2>9
<1>27. Synced'
  <2> SUFFICES ASSUME NEW f \in setup.devices, NEW g \in Dirs,
                      job[f].ret = "ok", ~job[f].async
               PROVE  List(f, g)' = <<>>
    <3> HIDE SetupFacts, Fields
    <3> QED
      BY <1>9, <1>11 DEF Synced
  <2>1. List(f, g) = <<>>
    BY DEF Synced
  <2>2. ~(f = d /\ Chan(f, g) = c)
    BY <1>2, <2>1 DEF List
  <2> QED
    BY <1>12, <1>14, <2>1, <2>2 DEF List
<1> QED
  BY <1>17, <1>18, <1>19, <1>20, <1>22, <1>23, <1>24, <1>25, <1>26, <1>27

-----------------------------------------------------------------------------
(* max_config_dma_and_start *)

\* The devices the program is not calling for stay as they are.
LEMMA Others ==
  ASSUME NEW f, job'[f] = job[f], f # cur \/ pc = "idle", f # cur' \/ pc' = "idle"
  PROVE  \A g : /\ Chan(f, g)' = Chan(f, g) /\ (Configured(f, g)' <=> Configured(f, g))
                /\ (Started(f, g)' <=> Started(f, g)) /\ (Acquired(f, g)' <=> Acquired(f, g))
  BY DEF Chan, Configured, Started, Acquired

\* While the program runs, a channel that can be acquired is at rest.
LEMMA AvailableQuiet ==
  ASSUME DmaInv, Runs, NEW c \in Available(cur)
  PROVE  c \in Channels /\ table[cur][c].free /\ Quiet(c)
<1> USE DEF DmaInv
<1>1. c \in Channels /\ ~hw[c].en /\ table[cur][c].free /\ cur \in setup.devices
  BY DEF Available, Types
<1>2. ASSUME NEW f \in setup.devices, NEW g \in Dirs, Uses(f, g, c) PROVE FALSE
  <2>1. c = Chan(f, g) /\ Owned(f, g)
    BY <1>1, <1>2, Owner
  <2>2. Waiting(f, g)
    BY <1>1, <1>2, AtRest
  <2>3. Configured(f, g) /\ ~Started(f, g)
    BY <1>2, <2>2 DEF Uses, Waiting
  <2>4. f = cur
    BY <2>3 DEF Configured, Started
  <2> QED
    BY <1>1, <2>1, <2>4 DEF Owned
<1>3. \A f \in setup.devices : table[f][c].list = <<>>
  BY <1>1, <1>2 DEF Listless
<1>4. ~hw[c].ctz
  BY <1>1, <1>2 DEF Silent
<1> QED
  BY <1>1, <1>3, <1>4 DEF Quiet

\* No interrupt is served while the program runs.
LEMMA NoHandler ==
  ASSUME Runs, isr' = isr PROVE ~InIsr /\ ~InIsr' /\ Serving'
  BY DEF Runs, InIsr, Serving

\* no_os_dma_acquire_channel for one direction.
LEMMA AcquireKeeps ==
  ASSUME DmaInv, NEW dir \in Dirs, NEW next, Acquire(dir, next),
         \/ dir = "tx" /\ pc = "acquire_tx" /\ next = "acquire_rx"
         \/ dir = "rx" /\ pc = "acquire_rx" /\ next = "config_tx"
  PROVE  DmaInv'
<1> USE SetupFacts, Fields DEF DmaInv
<1>1. PICK d, c : d = cur /\ c = Min(Available(cur))
  OBVIOUS
<1>2. Runs /\ isr' = isr
  BY DEF Acquire
<1>3. d \in setup.devices /\ c \in Available(d) /\ \A b \in Available(d) : c <= b
  <2>1. Available(d) \in SUBSET Nat /\ Available(d) # {}
    BY <1>1 DEF Acquire, Available
  <2> QED
    BY <1>1, <2>1, FirstOf DEF Types
<1>4. c \in Channels /\ table[d][c].free /\ Quiet(c)
  BY <1>1, <1>2, <1>3, AvailableQuiet
<1>5. /\ UNCHANGED <<setup, hw, action, isr, moved, cur>> /\ pc' = next
      /\ table' = [table EXCEPT ![d][c].free = FALSE]
      /\ job' = [job EXCEPT ![d].ch[dir] = c]
  BY <1>1 DEF Acquire
<1>6. /\ \A f \in setup.devices, b \in Channels :
           ~(f = d /\ b = c) => table'[f][b] = table[f][b]
      /\ table'[d][c].list = table[d][c].list /\ ~table'[d][c].free
      /\ table' \in [setup.devices -> [Channels -> EntryType]]
  <2>1. PICK x : x = [table[d][c] EXCEPT !.free = FALSE]
    OBVIOUS
  <2>2. x \in EntryType /\ x.list = table[d][c].list /\ ~x.free
    BY <1>3, <1>4, <2>1 DEF EntryType
  <2>3. table' = [table EXCEPT ![d][c] = x]
    BY <1>5, <2>1
  <2> QED
    BY <1>3, <1>4, <2>2, <2>3 DEF Types
<1>7. /\ \A f \in setup.devices : f # d => job'[f] = job[f]
      /\ job'[d].ret = job[d].ret /\ job'[d].len = job[d].len /\ job'[d].async = job[d].async
      /\ job'[d].ch = [job[d].ch EXCEPT ![dir] = c]
      /\ job' \in [setup.devices -> JobType]
  <2>1. PICK i, h, j : i = job[d] /\ h = [i.ch EXCEPT ![dir] = c] /\ j = [i EXCEPT !.ch = h]
    OBVIOUS
  <2>2. i \in JobType
    BY <1>3, <2>1
  <2>3. h \in [Dirs -> Channels]
    BY <1>4, <2>1, <2>2 DEF JobType
  <2>4. j \in JobType /\ j.ret = i.ret /\ j.len = i.len /\ j.async = i.async /\ j.ch = h
    <3> HIDE SetupFacts, Fields
    <3> QED
      BY <2>1, <2>2, <2>3 DEF JobType
  <2>5. job' = [job EXCEPT ![d] = j]
    BY <1>5, <2>1
  <2> QED
    BY <1>3, <2>1, <2>4, <2>5 DEF Types
<1>8. /\ Chan(d, dir)' = c
      /\ \A g \in Dirs : g # dir => Chan(d, g)' = Chan(d, g)
  BY <1>3, <1>7 DEF Chan, Types, JobType
<1>9. job[d].ret = "none" /\ job[d].len \in setup.lens
  BY <1>1 DEF Called
<1>10. \A g \in Dirs : ~Configured(d, g) /\ ~Configured(d, g)'
  BY <1>1, <1>3, <1>5, <1>7, <1>9 DEF Configured
<1>11. \A f \in setup.devices : f # d =>
         \A g : /\ Chan(f, g)' = Chan(f, g) /\ (Configured(f, g)' <=> Configured(f, g))
                /\ (Started(f, g)' <=> Started(f, g)) /\ (Acquired(f, g)' <=> Acquired(f, g))
  BY <1>1, <1>5, <1>7, Others
<1>12. Types'
  BY <1>5, <1>6, <1>7 DEF Types, ChannelType, EntryType, XferType, JobType
<1>13. Called'
  <2>1. pc # "idle"
    OBVIOUS
  <2>2. \A g \in Dirs : Moved(d, g, 0)
    BY <1>1, <1>10, <2>1 DEF Called
  <2>3. \A g \in Dirs : Moved(cur, g, 0)'
    BY <1>1, <1>5, <2>2 DEF Moved
  <2>4. \A f \in setup.devices : job'[f].ret = job[f].ret /\ job'[f].len = job[f].len
    BY <1>7
  <2> QED
    BY <1>1, <1>3, <1>5, <1>9, <2>3, <2>4 DEF Called
<1>14. Distinct'
  <2> SUFFICES ASSUME NEW f \in setup.devices, \A g \in Dirs : Acquired(f, g)'
               PROVE  Chan(f, "tx")' # Chan(f, "rx")'
    BY <1>5 DEF Distinct
  <2>1. CASE f # d
    BY <1>11, <2>1 DEF Distinct
  <2>2. CASE f = d
    <3>1. dir = "rx"
      <4>1. Acquired(d, "rx")'
        BY <2>2
      <4> QED
        BY <1>1, <1>3, <1>5, <1>7, <1>9, <4>1 DEF Acquired
    <3>2. Acquired(cur, "tx")
      BY <3>1 DEF Acquired
    <3>3. ~table[d][Chan(d, "tx")].free
      BY <1>1, <1>10, <3>2 DEF Claimed
    <3> QED
      BY <1>4, <1>8, <2>2, <3>1, <3>3
  <2> QED
    BY <2>1, <2>2
<1>15. Progress'
  <2> SUFFICES ASSUME NEW f \in setup.devices, NEW g \in Dirs PROVE Direction(f, g)'
    BY <1>5 DEF Progress
  <2>1. CASE f # d
    <3>1. job'[f].len = job[f].len /\ table'[f][Chan(f, g)] = table[f][Chan(f, g)]
      BY <1>6, <1>7, <2>1
    <3>2. Busy(f, g) => Busy(f, g)'
      BY <1>5, <1>11, <2>1, <3>1, BusyFrame
    <3>3. Direction(f, g)
      BY DEF Progress
    <3> QED
      BY <1>5, <1>11, <2>1, <3>1, <3>2, <3>3, Frame
  <2>2. CASE f = d
    BY <1>10, <2>2 DEF Direction
  <2> QED
    BY <2>1, <2>2
<1>16. /\ \A f \in setup.devices, b \in Channels : table'[f][b].list = table[f][b].list
       /\ \A f \in setup.devices, g \in Dirs, b \in Channels : Uses(f, g, b) => Uses(f, g, b)'
  <2>1. \A f \in setup.devices, b \in Channels : table'[f][b].list = table[f][b].list
    BY <1>6
  <2> QED
    BY <1>10, <1>11, <2>1 DEF Uses
<1>17. Listless' /\ Silent'
  BY <1>5, <1>16 DEF Listless, Silent
<1>18. \A b \in Channels : Quiet(b) => Quiet(b)'
  BY <1>5, <1>16 DEF Quiet
<1>19. Claimed'
  <2> SUFFICES ASSUME NEW g \in Dirs, Acquired(d, g)'
               PROVE  ~table'[d][Chan(d, g)'].free /\ Quiet(Chan(d, g))'
    <3> HIDE SetupFacts, Fields
    <3> QED
      BY <1>1, <1>5 DEF Claimed, Acquired, Chan, Quiet
  <2>1. CASE g = dir
    BY <1>4, <1>6, <1>8, <1>18, <2>1 DEF Quiet
  <2>2. CASE g # dir
    <3>1. dir = "rx" /\ g = "tx"
      BY <1>1, <1>5, <1>7, <1>9, <2>2 DEF Acquired, Dirs
    <3>2. Acquired(cur, "tx")
      BY <3>1 DEF Acquired
    <3>3. ~table[d][Chan(d, g)].free /\ Quiet(Chan(d, g))
      BY <1>1, <1>10, <3>1, <3>2 DEF Claimed
    <3>4. table'[d][Chan(d, g)] = table[d][Chan(d, g)] /\ Chan(d, g) \in Channels
      BY <1>3, <1>4, <1>6, <3>3
    <3> QED
      BY <1>8, <1>18, <2>2, <3>3, <3>4 DEF Quiet
  <2> QED
    BY <2>1, <2>2
<1>20. Serving'
  BY <1>2, NoHandler
<1>21. Synced'
  <2> SUFFICES ASSUME NEW f \in setup.devices, NEW g \in Dirs,
                      job'[f].ret = "ok", ~job'[f].async
               PROVE  List(f, g)' = <<>>
    BY <1>5 DEF Synced
  <2>1. f # d
    BY <1>7, <1>9
  <2> QED
    <3>1. List(f, g) = <<>> /\ Chan(f, g)' = Chan(f, g)
      BY <1>7, <1>11, <2>1 DEF Synced
    <3> QED
      BY <1>16, <3>1 DEF List
<1>22. Even'
  <2> SUFFICES ASSUME ~(setup.lens \subseteq {1}) PROVE setup.devices = {cur} /\ Actions' /\ Pairs'
    BY <1>5 DEF Even
  <2>1. setup.devices = {d} /\ Actions /\ Pairs
    BY <1>1 DEF Even
  <2>2. Actions'
    BY <1>5, <2>1 DEF Actions
  <2>3. \A b \in Channels : ~hw[b].en
    BY <1>10, <2>1 DEF Silent, Uses
  <2>4. \A b \in Channels : table[d][b].free => c <= b
    BY <1>3, <2>3 DEF Available
  <2>5. CASE dir = "tx"
    <3>1. \A b \in Channels : Pair(b)
      <4>1. ~Acquired(cur, "tx")
        BY <1>1, <1>9, <2>5 DEF Acquired
      <4> QED
        BY <2>1, <4>1 DEF Pairs
    <3>2. c % 2 = 0
      <4> SUFFICES ASSUME c % 2 = 1 PROVE FALSE
        BY <1>4, Parity
      <4>1. PICK b : b = c - 1
        OBVIOUS
      <4>2. b \in Nat /\ b % 2 = 0 /\ b + 1 = c /\ b < c
        <5>1. c \in Nat
          BY <1>4
        <5>2. c > 0 /\ (c - 1) % 2 = 0
          BY <5>1, Parity
        <5> QED
          BY <4>1, <5>1, <5>2
      <4>3. b \in Channels
        <5> HIDE SetupFacts, Fields
        <5> QED
          BY <1>4, <4>2, DmaAssumption DEF Channels
      <4>4. table[d][b].free
        <5>1. Pair(b)
          BY <3>1, <4>3
        <5> HIDE SetupFacts, Fields
        <5> QED
          BY <1>1, <1>4, <4>2, <5>1 DEF Pair
      <4> QED
        BY <1>4, <2>4, <4>2, <4>3, <4>4
    <3>3. ASSUME NEW b \in Channels, b # c PROVE Pair(b)'
      <4>1. b % 2 = 0 => b + 1 # c
        BY <1>4, <3>2, Parity
      <4>2. b % 2 = 0 /\ b + 1 \in Channels =>
              table'[d][b] = table[d][b] /\ table'[d][b + 1] = table[d][b + 1]
        BY <1>3, <1>6, <3>3, <4>1
      <4> QED
        <5> HIDE SetupFacts, Fields
        <5> QED
          BY <1>1, <1>5, <3>1, <4>2 DEF Pair
    <3>4. c + 1 \in Channels => table'[d][c + 1].free
      <4>1. c + 1 # c
        BY <1>4
      <4> QED
        <5> SUFFICES ASSUME c + 1 \in Channels PROVE table'[d][c + 1].free
          OBVIOUS
        <5>1. Pair(c)
          BY <1>4, <3>1
        <5>2. table[d][c + 1].free
          BY <1>1, <1>4, <3>2, <5>1 DEF Pair
        <5>3. table'[d][c + 1] = table[d][c + 1]
          BY <1>3, <1>6, <4>1
        <5> QED
          BY <5>2, <5>3
    <3>5. \A b \in Channels : b < c => ~table'[d][b].free
      <4> SUFFICES ASSUME NEW b \in Channels, b < c PROVE ~table'[d][b].free
        OBVIOUS
      <4>1. ~(c <= b)
        BY <1>4
      <4> QED
        BY <1>3, <1>6, <2>4, <4>1
    <3>6. Chan(cur, "tx")' = c /\ ~Acquired(cur, "rx")'
      BY <1>1, <1>3, <1>5, <1>7, <1>8, <1>9, <2>5 DEF Chan, Acquired
    <3>7. Acquired(cur, "tx")'
      BY <1>5, <2>5 DEF Acquired
    <3> QED
      BY <1>1, <1>5, <2>1, <2>2, <3>2, <3>3, <3>4, <3>5, <3>6, <3>7 DEF Pairs
  <2>6. CASE dir = "rx"
    <3>1. PICK t : t = Chan(d, "tx")
      OBVIOUS
    <3>2. Acquired(cur, "tx")
      BY <2>6 DEF Acquired
    <3>3. /\ \A b \in Channels : b # t => Pair(b)
          /\ t % 2 = 0 /\ t \in Channels
          /\ t + 1 \in Channels => table[d][t + 1].free
          /\ \A b \in Channels : b < t => ~table[d][b].free
      BY <1>1, <1>3, <2>1, <2>6, <3>1, <3>2 DEF Pairs
    <3>4. ~table[d][t].free
      BY <1>1, <1>10, <3>1, <3>2 DEF Claimed
    <3>5. c = t + 1
      <4>1. ~(c < t) /\ c # t
        BY <1>4, <3>3, <3>4
      <4>2. c \in Nat /\ t \in Nat /\ t + 1 <= c
        BY <1>4, <3>3, <4>1
      <4>3. t + 1 \in Channels
        BY <1>4, <4>2, DmaAssumption DEF Channels
      <4>4. c <= t + 1
        BY <2>4, <3>3, <4>3
      <4> QED
        BY <4>2, <4>4
    <3>6. ASSUME NEW b \in Channels, b # t PROVE Pair(b)'
      <4>1. b % 2 = 0 => b # c /\ b + 1 # c
        BY <1>4, <3>3, <3>5, <3>6, Parity
      <4>2. b % 2 = 0 /\ b + 1 \in Channels =>
              table'[d][b] = table[d][b] /\ table'[d][b + 1] = table[d][b + 1]
        BY <1>3, <1>6, <4>1
      <4> QED
        <5>1. Pair(b)
          BY <3>3, <3>6
        <5> HIDE SetupFacts, Fields
        <5> QED
          BY <1>1, <1>5, <4>2, <5>1 DEF Pair
    <3>7. Chan(cur, "tx")' = t /\ Chan(cur, "rx")' = t + 1
      BY <1>1, <1>5, <1>8, <2>6, <3>1, <3>5 DEF Chan
    <3>8. pc' # "acquire_rx" /\ Acquired(cur, "tx")'
      BY <1>5, <2>6 DEF Acquired
    <3> QED
      BY <1>1, <1>5, <2>1, <2>2, <3>3, <3>6, <3>7, <3>8 DEF Pairs
  <2> QED
    BY <2>5, <2>6 DEF Dirs
<1> QED
  BY <1>12, <1>13, <1>14, <1>15, <1>17, <1>19, <1>20, <1>21, <1>22

\* no_os_spi_transfer_dma_sync or _async is called for a device whose last job has
\* ended.
LEMMA CallKeeps ==
  ASSUME DmaInv, NEW d \in setup.devices, NEW n \in setup.lens, NEW a \in BOOLEAN,
         Call(d, n, a)
  PROVE  DmaInv'
<1> USE SetupFacts, Fields DEF DmaInv
<1>1. /\ pc = "idle" /\ Runs /\ Idle(d)
      /\ UNCHANGED <<setup, table, hw, action, isr>> /\ cur' = d /\ pc' = "acquire_tx"
  BY DEF Call, channels
<1>2. /\ \A f \in setup.devices : f # d => job'[f] = job[f]
      /\ job'[d].ret = "none" /\ job'[d].len = n
      /\ job' \in [setup.devices -> JobType]
  <2>1. PICK x : x = [NoJob EXCEPT !.len = n, !.async = a, !.data = TRUE]
    OBVIOUS
  <2>2. n \in Nat
    OBVIOUS
  <2>3. 0 \in Channels
    BY DmaAssumption DEF Channels
  <2>4. x \in JobType /\ x.ret = "none" /\ x.len = n
    <3>1. [i \in Dirs |-> 0] \in [Dirs -> Channels]
      BY <2>3
    <3> HIDE SetupFacts, Fields
    <3> QED
      BY <2>1, <2>2, <3>1 DEF JobType, NoJob
  <2>5. job' = [job EXCEPT ![d] = x]
    BY <2>1 DEF Call
  <2> QED
    BY <2>4, <2>5 DEF Types
<1>3. /\ \A f \in setup.devices : f # d => moved'[f] = moved[f]
      /\ \A g \in Dirs : moved'[d][g] = <<>>
      /\ moved' \in [setup.devices -> [Dirs -> Seq(Nat)]]
  <2>1. moved' = [moved EXCEPT ![d] = [g \in Dirs |-> <<>>]]
    BY DEF Call
  <2>2. [g \in Dirs |-> <<>>] \in [Dirs -> Seq(Nat)]
    OBVIOUS
  <2> QED
    BY <2>1, <2>2 DEF Types
<1>4. \A f \in setup.devices : f # d =>
         \A g : /\ Chan(f, g)' = Chan(f, g) /\ (Configured(f, g)' <=> Configured(f, g))
                /\ (Started(f, g)' <=> Started(f, g)) /\ (Acquired(f, g)' <=> Acquired(f, g))
  BY <1>1, <1>2, Others
<1>5. \A g \in Dirs : ~Configured(d, g)' /\ ~Acquired(d, g)'
  BY <1>1, <1>2 DEF Configured, Acquired
<1>6. \A c \in Channels : table[d][c].list = <<>>
  BY <1>1 DEF Idle
<1>7. Types'
  BY <1>1, <1>2, <1>3 DEF Types, ChannelType, EntryType, XferType, JobType
<1>8. Called'
  <2>1. \A g \in Dirs : Moved(cur, g, 0)'
    BY <1>1, <1>3 DEF Moved
  <2>2. \A f \in setup.devices : job'[f].ret = "ok" => job'[f].len \in setup.lens
    BY <1>2 DEF Called
  <2> QED
    BY <1>1, <1>2, <2>1, <2>2 DEF Called
<1>9. Distinct'
  <2> SUFFICES ASSUME NEW f \in setup.devices, \A g \in Dirs : Acquired(f, g)'
               PROVE  Chan(f, "tx")' # Chan(f, "rx")'
    BY <1>1 DEF Distinct
  <2>1. f # d
    BY <1>5
  <2> QED
    BY <1>4, <2>1 DEF Distinct
<1>10. Progress'
  <2> SUFFICES ASSUME NEW f \in setup.devices, NEW g \in Dirs PROVE Direction(f, g)'
    BY <1>1 DEF Progress
  <2>1. CASE f # d
    <3>1. job'[f].len = job[f].len /\ moved'[f][g] = moved[f][g]
      BY <1>2, <1>3, <2>1
    <3>2. Busy(f, g) => Busy(f, g)'
      BY <1>1, <1>4, <2>1, <3>1, BusyFrame
    <3>3. Direction(f, g)
      BY DEF Progress
    <3> QED
      BY <1>1, <1>4, <2>1, <3>1, <3>2, <3>3, Frame
  <2>2. CASE f = d
    BY <1>5, <2>2 DEF Direction
  <2> QED
    BY <2>1, <2>2
<1>11. \A f \in setup.devices, g \in Dirs, b \in Channels : Uses(f, g, b) => Uses(f, g, b)'
  BY <1>1, <1>4, <1>6 DEF Uses
<1>12. Listless' /\ Silent'
  BY <1>1, <1>11 DEF Listless, Silent
<1>13. Claimed'
  BY <1>1, <1>2 DEF Claimed, Acquired
<1>14. Serving'
  BY <1>1, NoHandler
<1>15. Synced'
  <2> SUFFICES ASSUME NEW f \in setup.devices, NEW g \in Dirs,
                      job'[f].ret = "ok", ~job'[f].async
               PROVE  List(f, g)' = <<>>
    BY <1>1 DEF Synced
  <2>1. f # d
    BY <1>2
  <2>2. List(f, g) = <<>> /\ Chan(f, g)' = Chan(f, g)
    BY <1>2, <1>4, <2>1 DEF Synced
  <2> QED
    BY <1>1, <2>2 DEF List
<1>16. Even'
  <2> SUFFICES ASSUME ~(setup.lens \subseteq {1}) PROVE setup.devices = {d} /\ Actions' /\ Pairs'
    BY <1>1 DEF Even
  <2>1. setup.devices = {cur} /\ Actions /\ Pairs /\ d = cur
    BY DEF Even
  <2>2. Actions'
    BY <1>1, <2>1 DEF Actions
  <2>3. \A b \in Channels : Pair(b)
    <3>1. CASE job[d].ret = "ok"
      <4>1. \A g \in Dirs : Acquired(d, g) /\ Configured(d, g)
        BY <3>1 DEF Acquired, Configured
      <4>2. \A g \in Dirs : table[d][Chan(d, g)].free
        <5> SUFFICES ASSUME NEW g \in Dirs PROVE table[d][Chan(d, g)].free
          OBVIOUS
        <5>1. List(d, g) = <<>> /\ Direction(d, g)
          BY <1>6 DEF List, Progress
        <5> QED
          BY <4>1, <5>1 DEF Direction, Over
      <4>3. PICK t : t = Chan(d, "tx")
        OBVIOUS
      <4>4. Chan(d, "rx") = t + 1 /\ \A b \in Channels : b # t => Pair(b)
        BY <2>1, <4>1, <4>3 DEF Pairs
      <4>5. Pair(t)
        BY <2>1, <4>2, <4>3, <4>4 DEF Pair
      <4> QED
        BY <4>4, <4>5
    <3>2. CASE job[d].ret # "ok"
      <4>1. ~Acquired(cur, "tx")
        BY <1>1, <2>1, <3>2 DEF Acquired
      <4> QED
        BY <2>1, <4>1 DEF Pairs
    <3> QED
      BY <3>1, <3>2
  <2>4. \A b \in Channels : Pair(b)'
    BY <1>1, <2>1, <2>3 DEF Pair
  <2>5. ~Acquired(cur, "tx")' /\ ~Acquired(cur, "rx")' /\ pc' # "acquire_rx"
    BY <1>1, <1>2 DEF Acquired
  <2> QED
    BY <1>1, <2>1, <2>2, <2>4, <2>5 DEF Pairs
<1> QED
  BY <1>7, <1>8, <1>9, <1>10, <1>12, <1>13, <1>14, <1>15, <1>16

\* A job that was refused: the devices other than the one of the call keep their
\* jobs.
LEMMA Refused ==
  ASSUME Types, Fail, cur' = cur
  PROVE  /\ \A f \in setup.devices : f # cur => job'[f] = job[f]
         /\ job'[cur].ret = "err" /\ job'[cur].ch = job[cur].ch /\ pc' = "idle"
         /\ job' \in [setup.devices -> JobType]
<1>1. PICK d, i, j : d = cur /\ i = job[cur] /\ j = [i EXCEPT !.data = FALSE, !.ret = "err"]
  OBVIOUS
<1>2. d \in setup.devices /\ i \in JobType /\ job \in [setup.devices -> JobType]
  BY <1>1 DEF Types
<1>3. j \in JobType /\ j.ret = "err" /\ j.ch = i.ch
  BY <1>1, <1>2 DEF JobType
<1>4. job' = [job EXCEPT ![d] = j] /\ pc' = "idle"
  BY <1>1 DEF Fail
<1> QED
  BY <1>1, <1>2, <1>3, <1>4

\* A job is refused: its lists are empty, and nobody else's channel was touched.
LEMMA FailKeeps ==
  ASSUME DmaInv, Runs, Fail, UNCHANGED <<setup, action, isr, moved, cur>>,
         table' \in [setup.devices -> [Channels -> EntryType]], hw' \in [Channels -> ChannelType],
         \A f \in setup.devices, b \in Channels : f # cur => table'[f][b] = table[f][b],
         \A b \in Channels : table'[cur][b].list = <<>> /\ table'[cur][b].free = table[cur][b].free,
         \A b \in Channels : hw'[b].en \/ hw'[b].ctz =>
           \E f \in setup.devices \ {cur}, g \in Dirs : Uses(f, g, b),
         \A f \in setup.devices \ {cur}, g \in Dirs, b \in Channels :
           Uses(f, g, b) => hw'[b] = hw[b],
         ~(setup.lens \subseteq {1}) /\ Acquired(cur, "tx") => Pair(Chan(cur, "tx"))
  PROVE  DmaInv'
<1> USE SetupFacts, Fields DEF DmaInv
<1>1. PICK d : d = cur
  OBVIOUS
<1>2. d \in setup.devices /\ cur' = d
  BY <1>1 DEF Types
<1>3. /\ \A f \in setup.devices : f # d => job'[f] = job[f]
      /\ job'[d].ret = "err" /\ job'[d].ch = job[d].ch /\ pc' = "idle"
      /\ job' \in [setup.devices -> JobType]
  BY <1>1, Refused
<1>4. \A f \in setup.devices : f # d =>
         \A g : /\ Chan(f, g)' = Chan(f, g) /\ (Configured(f, g)' <=> Configured(f, g))
                /\ (Started(f, g)' <=> Started(f, g)) /\ (Acquired(f, g)' <=> Acquired(f, g))
  BY <1>1, <1>3, Others
<1>5. \A g \in Dirs : ~Configured(d, g)' /\ ~Acquired(d, g)'
  BY <1>3 DEF Configured, Acquired
<1>6. Types'
  BY <1>3 DEF Types, ChannelType, EntryType, XferType, JobType
<1>7. Called'
  BY <1>3 DEF Called
<1>8. Distinct'
  <2> SUFFICES ASSUME NEW f \in setup.devices, \A g \in Dirs : Acquired(f, g)'
               PROVE  Chan(f, "tx")' # Chan(f, "rx")'
    BY DEF Distinct
  <2>1. f # d
    BY <1>5
  <2> QED
    BY <1>4, <2>1 DEF Distinct
<1>9. Progress'
  <2> SUFFICES ASSUME NEW f \in setup.devices, NEW g \in Dirs PROVE Direction(f, g)'
    BY DEF Progress
  <2>1. CASE f # d /\ Configured(f, g)
    <3>1. job'[f].len = job[f].len /\ table'[f][Chan(f, g)] = table[f][Chan(f, g)]
      BY <1>1, <1>3, <2>1
    <3>2. ASSUME List(f, g) # <<>>, Busy(f, g) PROVE Busy(f, g)'
      <4>1. Uses(f, g, Chan(f, g))
        BY <2>1, <3>2 DEF Uses, List
      <4>2. hw'[Chan(f, g)] = hw[Chan(f, g)]
        BY <1>1, <2>1, <4>1
      <4> QED
        BY <1>4, <2>1, <3>1, <3>2, <4>2, BusyFrame
    <3>3. Direction(f, g)
      BY DEF Progress
    <3> QED
      BY <1>4, <2>1, <3>1, <3>2, <3>3, Frame
  <2>2. CASE f = d \/ ~Configured(f, g)
    BY <1>4, <1>5, <2>2 DEF Direction
  <2> QED
    BY <2>1, <2>2
<1>10. \A f \in setup.devices \ {d}, g \in Dirs, b \in Channels : Uses(f, g, b) => Uses(f, g, b)'
  BY <1>1, <1>4 DEF Uses
<1>11. Listless'
  <2> SUFFICES ASSUME NEW f \in setup.devices, NEW b \in Channels, table'[f][b].list # <<>>
               PROVE  \E g \in Dirs : Uses(f, g, b)'
    BY DEF Listless
  <2>1. f \in setup.devices \ {d} /\ table[f][b].list # <<>>
    BY <1>1
  <2>2. PICK g \in Dirs : Uses(f, g, b)
    BY <2>1 DEF Listless
  <2> QED
    BY <1>10, <2>1, <2>2
<1>12. Silent'
  <2> SUFFICES ASSUME NEW b \in Channels, hw'[b].en \/ hw'[b].ctz
               PROVE  \E f \in setup.devices, g \in Dirs : Uses(f, g, b)'
    BY DEF Silent
  <2>1. PICK f \in setup.devices \ {d}, g \in Dirs : Uses(f, g, b)
    BY <1>1
  <2> QED
    BY <1>10, <2>1
<1>13. Claimed'
  BY <1>2, <1>3 DEF Claimed, Acquired
<1>14. Serving'
  BY NoHandler
<1>15. Synced'
  <2> SUFFICES ASSUME NEW f \in setup.devices, NEW g \in Dirs,
                      job'[f].ret = "ok", ~job'[f].async
               PROVE  List(f, g)' = <<>>
    BY DEF Synced
  <2>1. f # d
    BY <1>3
  <2>2. List(f, g) = <<>> /\ Chan(f, g)' = Chan(f, g)
    BY <1>3, <1>4, <2>1 DEF Synced
  <2> QED
    BY <1>1, <2>1, <2>2 DEF List
<1>16. Even'
  <2> SUFFICES ASSUME ~(setup.lens \subseteq {1}) PROVE setup.devices = {cur} /\ Actions' /\ Pairs'
    BY DEF Even
  <2>1. setup.devices = {cur} /\ Actions /\ Pairs
    BY DEF Even
  <2>2. Actions'
    BY <2>1 DEF Actions
  <2>3. \A b \in Channels : Pair(b)
    BY <2>1 DEF Pairs
  <2>4. \A b \in Channels : Pair(b)'
    BY <2>3 DEF Pair
  <2>5. ~Acquired(cur, "tx")' /\ ~Acquired(cur, "rx")' /\ pc' # "acquire_rx"
    BY <1>2, <1>3 DEF Acquired
  <2> QED
    BY <2>1, <2>2, <2>4, <2>5 DEF Pairs
<1> QED
  BY <1>6, <1>7, <1>8, <1>9, <1>11, <1>12, <1>13, <1>14, <1>15, <1>16

\* -EBUSY.
LEMMA AcquireBusyKeeps ==
  ASSUME DmaInv, AcquireBusy
  PROVE  DmaInv'
<1> USE SetupFacts, Fields DEF DmaInv
<1>1. /\ Runs /\ Fail /\ pc \in {"acquire_tx", "acquire_rx"} /\ Available(cur) = {}
      /\ UNCHANGED <<setup, table, hw, action, isr, moved, cur>>
  BY DEF AcquireBusy, channels
<1>2. cur \in setup.devices /\ job[cur].ret = "none"
  BY <1>1 DEF Types, Called
<1>3. \A g \in Dirs : ~Configured(cur, g)
  BY <1>1, <1>2 DEF Configured
<1>4. \A b \in Channels : table[cur][b].list = <<>>
  BY <1>2, <1>3 DEF Listless, Uses
<1>5. \A b \in Channels : hw[b].en \/ hw[b].ctz =>
        \E f \in setup.devices \ {cur}, g \in Dirs : Uses(f, g, b)
  BY <1>3 DEF Silent, Uses
<1>6. ASSUME ~(setup.lens \subseteq {1}), Acquired(cur, "tx") PROVE Pair(Chan(cur, "tx"))
  <2>1. setup.devices = {cur} /\ Pairs
    BY <1>6 DEF Even
  <2>2. pc = "acquire_rx"
    BY <1>1, <1>2, <1>6 DEF Acquired
  <2>3. Chan(cur, "tx") + 1 \in Channels => table[cur][Chan(cur, "tx") + 1].free
    BY <2>1, <2>2 DEF Pairs
  <2>4. \A b \in Channels : ~hw[b].en
    BY <1>5, <2>1
  <2>5. Chan(cur, "tx") + 1 \notin Channels
    BY <1>1, <2>3, <2>4 DEF Available
  <2> QED
    BY <2>5 DEF Pair
<1>7. table' \in [setup.devices -> [Channels -> EntryType]] /\ hw' \in [Channels -> ChannelType]
  BY <1>1 DEF Types
<1> QED
  BY <1>1, <1>4, <1>5, <1>6, <1>7, FailKeeps

\* No memory for an action: what was configured is aborted.
LEMMA ConfigFailsKeeps ==
  ASSUME DmaInv, ConfigFails
  PROVE  DmaInv'
<1> USE SetupFacts, Fields DEF DmaInv
<1>1. PICK d, t, r : d = cur /\ t = Chan(cur, "tx") /\ r = Chan(cur, "rx")
  OBVIOUS
<1>2. /\ Runs /\ Fail /\ pc \in {"config_tx", "config_rx"}
      /\ Abort(d, {t, r})
      /\ UNCHANGED <<setup, action, isr, moved, cur>>
  <2>1. {job[cur].ch[e] : e \in Dirs} = {t, r}
    BY <1>1 DEF Chan, Dirs
  <2> QED
    BY <1>1, <2>1 DEF ConfigFails
<1>3. d \in setup.devices /\ t \in Channels /\ r \in Channels /\ job[d].ret = "none"
  BY <1>1, <1>2 DEF Types, Called
<1>4. \A g \in Dirs : Acquired(d, g)
  BY <1>1, <1>2 DEF Acquired
<1>5. ~Configured(d, "rx") /\ (Configured(d, "tx") => pc = "config_rx")
  BY <1>1, <1>2, <1>3 DEF Configured
<1>6. ~table[d][r].free /\ Quiet(r)
  BY <1>1, <1>4, <1>5 DEF Claimed
<1>7. /\ ~table[d][t].free /\ ~hw[t].en /\ ~hw[t].ctz
      /\ \A f \in setup.devices \ {d} : table[f][t].list = <<>>
  <2>1. CASE ~Configured(d, "tx")
    <3>1. ~table[d][t].free /\ Quiet(t)
      BY <1>1, <1>4, <2>1 DEF Claimed
    <3> QED
      BY <3>1 DEF Quiet
  <2>2. CASE Configured(d, "tx")
    <3>1. ~Started(d, "tx")
      BY <1>1, <1>2, <1>3 DEF Started
    <3>2. Direction(d, "tx")
      BY <1>3 DEF Progress
    <3>3. Uses(d, "tx", t)
      BY <1>1, <2>2, <3>1, <3>2 DEF Direction, Over, Uses, List
    <3>4. Owned(d, "tx") /\ Waiting(d, "tx")
      BY <1>2, <1>3, <3>1, <3>3, Owner, AtRest DEF Running
    <3>5. \A f \in setup.devices \ {d} : table[f][t].list = <<>>
      <4> SUFFICES ASSUME NEW f \in setup.devices \ {d}, table[f][t].list # <<>> PROVE FALSE
        OBVIOUS
      <4>1. PICK g \in Dirs : Uses(f, g, t)
        BY <1>3 DEF Listless
      <4> QED
        BY <1>3, <3>3, <4>1, OneUser
    <3> QED
      BY <1>1, <3>4, <3>5 DEF Owned, Waiting
  <2> QED
    BY <2>1, <2>2
<1>8. /\ \A f \in setup.devices, b \in Channels : f # d => table'[f][b] = table[f][b]
      /\ \A b \in Channels : /\ table'[d][b].free = table[d][b].free
                             /\ b \in {t, r} => table'[d][b].list = <<>>
                             /\ b \notin {t, r} => table'[d][b] = table[d][b]
      /\ table' \in [setup.devices -> [Channels -> EntryType]]
  <2>1. PICK x : x = [b \in Channels |-> IF b \in {t, r} THEN [table[d][b] EXCEPT !.list = <<>>]
                                                        ELSE table[d][b]]
    OBVIOUS
  <2>2. table' = [table EXCEPT ![d] = x]
    BY <1>2, <2>1 DEF Abort
  <2>3. \A b \in Channels : /\ [table[d][b] EXCEPT !.list = <<>>] \in EntryType
                            /\ [table[d][b] EXCEPT !.list = <<>>].free = table[d][b].free
                            /\ [table[d][b] EXCEPT !.list = <<>>].list = <<>>
    <3>1. ASSUME NEW y \in EntryType
          PROVE  /\ [y EXCEPT !.list = <<>>] \in EntryType
                 /\ [y EXCEPT !.list = <<>>].free = y.free
                 /\ [y EXCEPT !.list = <<>>].list = <<>>
      <4>1. <<>> \in Seq(XferType)
        OBVIOUS
      <4>2. PICK z : z = [y EXCEPT !.list = <<>>]
        OBVIOUS
      <4>3. z \in EntryType /\ z.free = y.free /\ z.list = <<>>
        BY <4>1, <4>2 DEF EntryType
      <4> QED
        BY <4>2, <4>3
    <3>2. \A b \in Channels : table[d][b] \in EntryType
      BY <1>3
    <3> QED
      BY <3>1, <3>2
  <2>4. \A b \in Channels : /\ x[b] \in EntryType /\ x[b].free = table[d][b].free
                            /\ b \in {t, r} => x[b].list = <<>>
                            /\ b \notin {t, r} => x[b] = table[d][b]
    BY <1>3, <2>1, <2>3
  <2>5. x \in [Channels -> EntryType]
    BY <2>1, <2>4
  <2> QED
    BY <1>3, <2>2, <2>4, <2>5 DEF Types
<1>9. /\ \A b \in Channels : /\ b \notin {t, r} => hw'[b] = hw[b]
                             /\ hw'[b].en => hw[b].en
                             /\ hw'[b].ctz = hw[b].ctz
      /\ hw' \in [Channels -> ChannelType]
  <2>1. hw' = [b \in Channels |-> IF b \in {t, r} THEN [hw[b] EXCEPT !.irq = FALSE, !.en = FALSE]
                                               ELSE hw[b]]
    BY <1>2 DEF Abort
  <2>2. \A b \in Channels : /\ [hw[b] EXCEPT !.irq = FALSE, !.en = FALSE] \in ChannelType
                            /\ ~[hw[b] EXCEPT !.irq = FALSE, !.en = FALSE].en
                            /\ [hw[b] EXCEPT !.irq = FALSE, !.en = FALSE].ctz = hw[b].ctz
    BY DEF ChannelType
  <2>3. \A b \in Channels : /\ hw'[b] \in ChannelType /\ (b \notin {t, r} => hw'[b] = hw[b])
                            /\ (hw'[b].en => hw[b].en) /\ hw'[b].ctz = hw[b].ctz
    BY <2>1, <2>2
  <2> QED
    BY <2>1, <2>3
<1>10. \A b \in Channels : table'[d][b].list = <<>>
  <2> SUFFICES ASSUME NEW b \in Channels, b \notin {t, r} PROVE table[d][b].list = <<>>
    BY <1>8
  <2> QED
    BY <1>1, <1>3 DEF Listless, Uses, Dirs
<1>11. ASSUME NEW b \in Channels, hw'[b].en \/ hw'[b].ctz
       PROVE  \E f \in setup.devices \ {d}, g \in Dirs : Uses(f, g, b)
  <2>1. hw[b].en \/ hw[b].ctz
    BY <1>9, <1>11
  <2>2. PICK f \in setup.devices, g \in Dirs : Uses(f, g, b)
    BY <2>1 DEF Silent
  <2>3. b # t /\ b # r
    BY <1>6, <1>7, <2>1 DEF Quiet
  <2>4. f # d
    BY <1>1, <2>2, <2>3 DEF Uses, Dirs
  <2> QED
    BY <2>2, <2>4
<1>12. ASSUME NEW f \in setup.devices \ {d}, NEW g \in Dirs, NEW b \in Channels, Uses(f, g, b)
       PROVE  hw'[b] = hw[b]
  <2>1. table[f][b].list # <<>>
    BY <1>12 DEF Uses
  <2>2. b # t /\ b # r
    BY <1>6, <1>7, <2>1 DEF Quiet
  <2> QED
    BY <1>9, <2>2
<1>13. ~(setup.lens \subseteq {1}) => Pair(Chan(cur, "tx"))
  <2> SUFFICES ASSUME ~(setup.lens \subseteq {1}) PROVE Pair(Chan(cur, "tx"))
    OBVIOUS
  <2>1. r = t + 1
    BY <1>1, <1>4 DEF Even, Pairs
  <2> QED
    BY <1>1, <1>6, <1>7, <2>1 DEF Pair
<1> QED
  BY <1>1, <1>2, <1>8, <1>9, <1>10, <1>11, <1>12, <1>13, FailKeeps

\* The transfers of a job.
LEMMA XfersSeq ==
  ASSUME Types, NEW d \in setup.devices, NEW dir \in Dirs, NEW n \in Nat \ {0}
  PROVE  /\ Xfers(d, dir, n) \in Seq(XferType) /\ Len(Xfers(d, dir, n)) = n
         /\ \A k \in 1 .. n : Xfers(d, dir, n)[k] = [dev |-> d, dir |-> dir, k |-> k]
         /\ <<>> \o Xfers(d, dir, n) = Xfers(d, dir, n)
         /\ Xfers(d, dir, n) # <<>> /\ Xfers(d, dir, n)[1] \in XferType
<1>1. \A k \in 1 .. n : [dev |-> d, dir |-> dir, k |-> k] \in XferType
  BY DEF XferType
<1>2. PICK xs : xs = Xfers(d, dir, n)
  OBVIOUS
<1>3. xs = [k \in 1 .. n |-> [dev |-> d, dir |-> dir, k |-> k]]
  BY <1>2 DEF Xfers
<1>4. /\ xs \in Seq(XferType) /\ Len(xs) = n
      /\ \A k \in 1 .. n : xs[k] = [dev |-> d, dir |-> dir, k |-> k]
  <2>1. /\ xs \in [1 .. n -> XferType]
        /\ \A k \in 1 .. n : xs[k] = [dev |-> d, dir |-> dir, k |-> k]
    BY ONLY <1>1, <1>3
  <2>2. PICK X : X = XferType
    OBVIOUS
  <2>3. n \in Nat /\ xs \in [1 .. n -> X]
    BY <2>1, <2>2
  <2>4. xs \in Seq(X) /\ Len(xs) = n
    BY ONLY <2>3
  <2> QED
    BY <2>1, <2>2, <2>4
<1>5. <<>> \o xs = xs /\ xs # <<>> /\ xs[1] \in XferType
  BY <1>4
<1> QED
  BY <1>2, <1>4, <1>5

\* no_os_dma_config_xfer for one direction, when every transfer is added.
LEMMA ConfigKeeps ==
  ASSUME DmaInv, NEW dir \in Dirs, NEW next, Config(dir, next), lost' = {},
         \/ dir = "tx" /\ pc = "config_tx" /\ next = "config_rx"
         \/ dir = "rx" /\ pc = "config_rx" /\ next = "start_rx"
  PROVE  DmaInv'
<1> USE SetupFacts, Fields DEF DmaInv
<1>1. PICK d, c, n, xs : /\ d = cur /\ c = Chan(cur, dir) /\ n = job[cur].len
                         /\ xs = Xfers(d, dir, n)
  OBVIOUS
<1>2. /\ d \in setup.devices /\ c \in Channels /\ n \in Nat \ {0} /\ n \in setup.lens
      /\ job[d].ret = "none"
  BY <1>1 DEF Types, Called
<1>3. /\ xs \in Seq(XferType) /\ Len(xs) = n /\ xs # <<>> /\ <<>> \o xs = xs /\ xs[1] \in XferType
      /\ \A k \in 1 .. n : xs[k] = [dev |-> d, dir |-> dir, k |-> k]
  <2> HIDE SetupFacts, Fields
  <2> QED
    BY <1>1, <1>2, XfersSeq
<1>4. /\ \A g \in Dirs : Acquired(d, g) /\ Acquired(d, g)' /\ ~Started(d, g) /\ ~Started(d, g)'
      /\ ~Configured(d, dir) /\ Configured(d, dir)'
      /\ \A g \in Dirs : g # dir => (Configured(d, g)' <=> Configured(d, g))
  <2>1. job' = job /\ cur' = cur /\ pc' = next
    BY DEF Config
  <2> QED
    BY <1>1, <1>2, <2>1 DEF Acquired, Started, Configured, Dirs
<1>5. ~table[d][c].free /\ Quiet(c)
  BY <1>1, <1>4 DEF Claimed
<1>6. /\ UNCHANGED <<setup, isr, job, moved, cur>> /\ pc' = next /\ Runs
      /\ table' = [table EXCEPT ![d][c].list = @ \o xs]
      /\ hw' = [hw EXCEPT ![c] = Load(@, xs[1])]
      /\ action' = [action EXCEPT ![c][dir] = d]
  <2>1. /\ UNCHANGED <<setup, isr, job, moved, cur>> /\ pc' = next /\ Runs
        /\ Added(c, xs)
        /\ hw' = [hw EXCEPT ![c] = Load(@, xs[1])]
        /\ action' = [action EXCEPT ![c][dir] = d]
    BY <1>1 DEF Config, Chan
  <2>2. lost' # lost \union {cur}
    OBVIOUS
  <2> QED
    BY <1>1, <2>1, <2>2 DEF Added
<1>7. /\ \A f \in setup.devices, b \in Channels :
           ~(f = d /\ b = c) => table'[f][b] = table[f][b]
      /\ table'[d][c].list = xs /\ ~table'[d][c].free
      /\ table' \in [setup.devices -> [Channels -> EntryType]]
  <2>1. PICK y, x : y = table[d][c] /\ x = [y EXCEPT !.list = xs]
    OBVIOUS
  <2>2. y \in EntryType /\ y.list = <<>> /\ ~y.free
    BY <1>2, <1>5, <2>1 DEF Quiet
  <2>3. x \in EntryType /\ x.list = xs /\ ~x.free
    BY <1>3, <2>1, <2>2 DEF EntryType
  <2>4. table' = [table EXCEPT ![d][c] = x]
    BY <1>3, <1>6, <2>1, <2>2
  <2> QED
    BY <1>2, <2>3, <2>4 DEF Types
<1>8. /\ \A b \in Channels : b # c => hw'[b] = hw[b]
      /\ hw'[c].en = hw[c].en /\ hw'[c].ctz = hw[c].ctz
      /\ hw'[c].xfer = [dev |-> d, dir |-> dir, k |-> 1]
      /\ hw' \in [Channels -> ChannelType]
  <2>1. PICK x, y, h : x = xs[1] /\ y = hw[c] /\ h = [y EXCEPT !.xfer = x]
    OBVIOUS
  <2>2. x \in XferType /\ y \in ChannelType /\ x = [dev |-> d, dir |-> dir, k |-> 1]
    <3>1. 1 \in 1 .. n
      BY <1>2
    <3> QED
      BY <1>2, <1>3, <2>1, <3>1
  <2>3. h \in ChannelType /\ h.en = y.en /\ h.ctz = y.ctz /\ h.xfer = x
    BY <2>1, <2>2 DEF ChannelType
  <2>4. hw' = [hw EXCEPT ![c] = h]
    BY <1>6, <2>1 DEF Load
  <2> QED
    BY <1>2, <2>1, <2>2, <2>3, <2>4 DEF Types
<1>9. /\ \A b \in Channels, g \in Dirs : ~(b = c /\ g = dir) => action'[b][g] = action[b][g]
      /\ action'[c][dir] = d
      /\ action' \in [Channels -> [Dirs -> setup.devices \cup {NoDev}]]
  <2> HIDE SetupFacts, Fields
  <2> QED
    BY <1>2, <1>6 DEF Types
<1>10. \A f \in setup.devices : f # d =>
         \A g : /\ Chan(f, g)' = Chan(f, g) /\ (Configured(f, g)' <=> Configured(f, g))
                /\ (Started(f, g)' <=> Started(f, g)) /\ (Acquired(f, g)' <=> Acquired(f, g))
  BY <1>1, <1>6, Others
<1>11. \A f \in setup.devices, g \in Dirs : Chan(f, g)' = Chan(f, g)
  BY <1>6 DEF Chan
<1>12. \A g \in Dirs : g # dir => Chan(d, g) # c
  <2>1. Chan(d, "tx") # Chan(d, "rx")
    BY <1>2, <1>4 DEF Distinct
  <2> QED
    BY <1>1, <2>1 DEF Dirs
<1>13. \A f \in setup.devices, g \in Dirs : ~(f = d /\ g = dir) =>
         /\ (Configured(f, g)' <=> Configured(f, g)) /\ (Started(f, g)' <=> Started(f, g))
         /\ table'[f][Chan(f, g)] = table[f][Chan(f, g)]
  BY <1>4, <1>7, <1>10, <1>12
<1>14. Types'
  BY <1>6, <1>7, <1>8, <1>9 DEF Types, ChannelType, EntryType, XferType, JobType
<1>15. Called'
  <2>1. \A g \in Dirs : Configured(d, g)' \/ Moved(d, g, 0)'
    <3> SUFFICES ASSUME NEW g \in Dirs, ~Configured(d, g)' PROVE Moved(d, g, 0)'
      OBVIOUS
    <3>1. ~Configured(cur, g) /\ pc # "idle"
      BY <1>1, <1>4
    <3>2. Moved(d, g, 0)
      BY <1>1, <3>1 DEF Called
    <3> QED
      BY <1>6, <3>2 DEF Moved
  <2>2. \A g \in Dirs : Configured(cur, g)' \/ Moved(cur, g, 0)'
    BY <1>1, <1>6, <2>1 DEF Configured, Moved
  <2> QED
    BY <1>1, <1>2, <1>6, <2>2 DEF Called
<1>16. Distinct'
  <2> SUFFICES ASSUME NEW f \in setup.devices, \A g \in Dirs : Acquired(f, g)'
               PROVE  Chan(f, "tx") # Chan(f, "rx")
    BY <1>6, <1>11 DEF Distinct
  <2>1. \A g \in Dirs : Acquired(f, g)
    BY <1>4, <1>10
  <2> QED
    BY <2>1 DEF Distinct
<1>17. Progress'
  <2> SUFFICES ASSUME NEW f \in setup.devices, NEW g \in Dirs PROVE Direction(f, g)'
    BY <1>6 DEF Progress
  <2>1. CASE f = d /\ g = dir
    <3>1. Chan(d, dir)' = c /\ List(d, dir)' = xs /\ Handled(d, dir)' = 0
      <4>1. Chan(d, dir)' = c /\ List(d, dir)' = xs
        BY <1>1, <1>2, <1>7, <1>11 DEF List
      <4>2. job'[d].len = n
        BY <1>1, <1>6
      <4>3. n - n = 0
        BY <1>2
      <4> QED
        BY <1>3, <4>1, <4>2, <4>3 DEF Handled
    <3>2. Listed(d, dir)'
      <4>1. \A k \in 1 .. n : 0 + k = k
        BY <1>2
      <4> QED
        <5>1. job'[d].len = n
          BY <1>1, <1>6
        <5>3. n <= n
          BY <1>2
        <5>2. \A k \in 1 .. Len(xs) : xs[k] = [dev |-> d, dir |-> dir, k |-> 0 + k]
          BY <1>3, <4>1
        <5> QED
          BY <1>3, <3>1, <5>1, <5>2, <5>3 DEF Listed
    <3>3. Owned(d, dir)'
      BY <1>7, <1>8, <1>9, <3>1 DEF Owned
    <3>4. Moved(d, dir, 0)
      BY <1>1, <1>4 DEF Called
    <3>5. Moved(d, dir, 0)'
      BY <1>6, <3>4 DEF Moved
    <3>6. Waiting(d, dir)'
      BY <1>4, <1>5, <1>6, <1>8, <3>1, <3>5, NoHandler DEF Waiting, Quiet
    <3> QED
      BY <1>3, <2>1, <3>1, <3>2, <3>3, <3>6 DEF Direction, Busy
  <2>2. CASE ~(f = d /\ g = dir)
    <3>1. ASSUME List(f, g) # <<>>, Busy(f, g) PROVE Busy(f, g)'
      <4>1. Chan(f, g) # c
        BY <1>5, <3>1 DEF Quiet, List
      <4>2. hw'[Chan(f, g)] = hw[Chan(f, g)] /\ action'[Chan(f, g)][g] = action[Chan(f, g)][g]
        BY <1>8, <1>9, <4>1
      <4> QED
        BY <1>6, <1>11, <1>13, <2>2, <3>1, <4>2, BusyFrame
    <3>2. Direction(f, g)
      BY DEF Progress
    <3> QED
      BY <1>6, <1>11, <1>13, <2>2, <3>1, <3>2, Frame
  <2> QED
    BY <2>1, <2>2
<1>18. \A f \in setup.devices, g \in Dirs, b \in Channels : Uses(f, g, b) => Uses(f, g, b)'
  <2> SUFFICES ASSUME NEW f \in setup.devices, NEW g \in Dirs, NEW b \in Channels, Uses(f, g, b)
               PROVE  Uses(f, g, b)'
    OBVIOUS
  <2>1. b = Chan(f, g) /\ ~(f = d /\ g = dir)
    BY <1>4 DEF Uses
  <2> QED
    BY <1>11, <1>13, <2>1 DEF Uses
<1>19. Listless'
  <2> SUFFICES ASSUME NEW f \in setup.devices, NEW b \in Channels, table'[f][b].list # <<>>
               PROVE  \E g \in Dirs : Uses(f, g, b)'
    BY <1>6 DEF Listless
  <2>1. CASE f = d /\ b = c
    <3>1. Uses(d, dir, c)'
      BY <1>1, <1>2, <1>4, <1>11, <2>1 DEF Uses
    <3> QED
      BY <2>1, <3>1
  <2>2. CASE ~(f = d /\ b = c)
    <3>1. PICK g \in Dirs : Uses(f, g, b)
      BY <1>7, <2>2 DEF Listless
    <3> QED
      BY <1>18, <3>1
  <2> QED
    BY <2>1, <2>2
<1>20. Silent'
  <2> SUFFICES ASSUME NEW b \in Channels, hw'[b].en \/ hw'[b].ctz
               PROVE  \E f \in setup.devices, g \in Dirs : Uses(f, g, b)'
    BY <1>6 DEF Silent
  <2>1. PICK f \in setup.devices, g \in Dirs : Uses(f, g, b)
    BY <1>8 DEF Silent
  <2> QED
    BY <1>18, <2>1
<1>21. Claimed'
  <2> SUFFICES ASSUME NEW g \in Dirs, ~Configured(d, g)'
               PROVE  ~table'[d][Chan(d, g)'].free /\ Quiet(Chan(d, g))'
    BY <1>1, <1>6 DEF Claimed, Configured, Chan, Quiet
  <2>1. g # dir /\ Acquired(cur, g) /\ ~Configured(cur, g)
    BY <1>1, <1>4
  <2>2. ~table[d][Chan(d, g)].free /\ Quiet(Chan(d, g))
    BY <1>1, <2>1 DEF Claimed
  <2>3. Chan(d, g) # c /\ Chan(d, g) \in Channels /\ Chan(d, g)' = Chan(d, g)
    BY <1>2, <1>11, <1>12, <2>1
  <2>4. /\ \A f \in setup.devices : table'[f][Chan(d, g)] = table[f][Chan(d, g)]
        /\ hw'[Chan(d, g)] = hw[Chan(d, g)]
    BY <1>7, <1>8, <2>3
  <2> QED
    <3> HIDE SetupFacts, Fields
    <3> QED
      BY <1>2, <1>6, <2>2, <2>3, <2>4 DEF Quiet
<1>22. Serving'
  BY <1>6, NoHandler
<1>23. Synced'
  <2> SUFFICES ASSUME NEW f \in setup.devices, NEW g \in Dirs,
                      job[f].ret = "ok", ~job[f].async
               PROVE  List(f, g)' = <<>>
    BY <1>6 DEF Synced
  <2>1. f # d /\ List(f, g) = <<>>
    BY <1>2 DEF Synced
  <2> QED
    BY <1>11, <1>13, <2>1 DEF List
<1>24. Even'
  <2> SUFFICES ASSUME ~(setup.lens \subseteq {1}) PROVE setup.devices = {cur} /\ Actions' /\ Pairs'
    BY <1>6 DEF Even
  <2>1. setup.devices = {cur} /\ Actions /\ Pairs
    BY DEF Even
  <2>2. (dir = "tx" => c % 2 = 0) /\ (dir = "rx" => c % 2 = 1)
    <3>1. Chan(d, "tx") % 2 = 0 /\ Chan(d, "rx") = Chan(d, "tx") + 1
      BY <1>1, <1>4, <2>1 DEF Pairs
    <3>2. (Chan(d, "tx") + 1) % 2 = 1
      BY <1>2, <3>1, Parity
    <3> QED
      BY <1>1, <3>1, <3>2
  <2>3. Actions'
    BY <1>9, <2>1, <2>2 DEF Actions, Dirs
  <2>4. \A b \in Channels : table'[d][b].free <=> table[d][b].free
    <3> HIDE SetupFacts, Fields
    <3> QED
      BY <1>2, <1>5, <1>7
  <2>5. \A b \in Channels : Pair(b) => Pair(b)'
    BY <1>1, <1>6, <2>4 DEF Pair
  <2>6. \A g \in Dirs : Acquired(cur, g) /\ Acquired(cur, g)' /\ Chan(cur, g)' = Chan(cur, g)
    BY <1>1, <1>4, <1>6 DEF Acquired, Chan
  <2>7. pc' # "acquire_rx"
    BY <1>6
  <2> QED
    BY <2>1, <2>3, <2>5, <2>6, <2>7 DEF Pairs
<1> QED
  BY <1>14, <1>15, <1>16, <1>17, <1>19, <1>20, <1>21, <1>22, <1>23, <1>24

\* no_os_dma_xfer_start for one direction.
LEMMA StartKeeps ==
  ASSUME DmaInv, NEW dir \in Dirs, NEW next, StartCh(dir, next),
         \/ dir = "rx" /\ pc = "start_rx" /\ next = "start_tx"
         \/ dir = "tx" /\ pc = "start_tx" /\ next = "wait"
  PROVE  DmaInv'
<1> USE SetupFacts, Fields DEF DmaInv
<1>1. PICK d, c : d = cur /\ c = Chan(cur, dir)
  OBVIOUS
<1>2. d \in setup.devices /\ c \in Channels /\ job[d].ret = "none"
  BY <1>1 DEF Types, Called
<1>3. /\ UNCHANGED <<setup, table, action, isr, job, moved, cur>> /\ pc' = next /\ Runs
      /\ hw' = [hw EXCEPT ![c] = Start(@)]
  BY <1>1 DEF StartCh, Chan
<1>4. /\ \A g \in Dirs : /\ Acquired(d, g) /\ Acquired(d, g)'
                         /\ Configured(d, g) /\ Configured(d, g)'
      /\ ~Started(d, dir) /\ Started(d, dir)'
      /\ \A g \in Dirs : g # dir => (Started(d, g)' <=> Started(d, g))
  BY <1>1, <1>2, <1>3 DEF Acquired, Started, Configured, Dirs
<1>5. Uses(d, dir, c) /\ Listed(d, dir) /\ Owned(d, dir) /\ Waiting(d, dir) /\ List(d, dir) # <<>>
  <2>1. Direction(d, dir)
    BY <1>2 DEF Progress
  <2>2. Uses(d, dir, c)
    BY <1>1, <1>4, <2>1 DEF Direction, Over, Uses, List
  <2>3. Waiting(d, dir)
    BY <1>2, <1>3, <1>4, <2>2, AtRest DEF Running
  <2> QED
    BY <1>2, <2>2, <2>3, Owner
<1>6. /\ \A b \in Channels : b # c => hw'[b] = hw[b]
      /\ hw'[c].en /\ hw'[c].irq /\ ~hw'[c].ctz /\ hw'[c].xfer = hw[c].xfer
      /\ hw' \in [Channels -> ChannelType]
  <2>1. PICK y, h : y = hw[c] /\ h = [y EXCEPT !.irq = TRUE, !.en = TRUE]
    OBVIOUS
  <2>2. y \in ChannelType /\ ~y.ctz
    BY <1>1, <1>2, <1>5, <2>1 DEF Waiting
  <2>3. h \in ChannelType /\ h.en /\ h.irq /\ ~h.ctz /\ h.xfer = y.xfer
    BY <2>1, <2>2 DEF ChannelType
  <2>4. hw' = [hw EXCEPT ![c] = h]
    BY <1>3, <2>1 DEF Start
  <2> QED
    BY <1>2, <2>1, <2>3, <2>4 DEF Types
<1>7. \A f \in setup.devices : f # d =>
         \A g : /\ Chan(f, g)' = Chan(f, g) /\ (Configured(f, g)' <=> Configured(f, g))
                /\ (Started(f, g)' <=> Started(f, g)) /\ (Acquired(f, g)' <=> Acquired(f, g))
  BY <1>1, <1>3, Others
<1>8. \A f \in setup.devices, g \in Dirs :
        /\ Chan(f, g)' = Chan(f, g) /\ (Configured(f, g)' <=> Configured(f, g))
        /\ (Acquired(f, g)' <=> Acquired(f, g))
        /\ List(f, g)' = List(f, g) /\ Handled(f, g)' = Handled(f, g)
        /\ (Listed(f, g)' <=> Listed(f, g))
        /\ \A b : Uses(f, g, b)' <=> Uses(f, g, b)
  <2>1. \A f \in setup.devices, g \in Dirs :
          /\ Chan(f, g)' = Chan(f, g) /\ (Configured(f, g)' <=> Configured(f, g))
          /\ (Acquired(f, g)' <=> Acquired(f, g))
    <3>1. \A f \in setup.devices, g \in Dirs : Chan(f, g)' = Chan(f, g)
      BY <1>3 DEF Chan
    <3>2. \A f \in setup.devices, g \in Dirs :
            (Configured(f, g)' <=> Configured(f, g)) /\ (Acquired(f, g)' <=> Acquired(f, g))
      <4> SUFFICES ASSUME NEW f \in setup.devices, NEW g \in Dirs
                   PROVE  /\ Configured(f, g)' <=> Configured(f, g)
                          /\ Acquired(f, g)' <=> Acquired(f, g)
        OBVIOUS
      <4>1. CASE f = d
        BY <1>4, <4>1
      <4>2. CASE f # d
        BY <1>7, <4>2
      <4> QED
        BY <4>1, <4>2
    <3> QED
      BY <3>1, <3>2
  <2> QED
    <3> HIDE SetupFacts, Fields
    <3> QED
      BY <1>3, <2>1 DEF List, Handled, Listed, Uses
<1>9. Types'
  BY <1>3, <1>6 DEF Types, ChannelType, EntryType, XferType, JobType
<1>10. Called'
  <2>1. \A g \in Dirs : Configured(cur, g)'
    BY <1>1, <1>3, <1>4 DEF Configured
  <2> QED
    BY <1>3, <2>1 DEF Called
<1>11. Distinct' /\ Listless' /\ Synced'
  <2>1. Distinct'
    BY <1>3, <1>8 DEF Distinct
  <2>2. Listless'
    BY <1>3, <1>8 DEF Listless
  <2>3. Synced'
    BY <1>3, <1>8 DEF Synced
  <2> QED
    BY <2>1, <2>2, <2>3
<1>12. Progress'
  <2> SUFFICES ASSUME NEW f \in setup.devices, NEW g \in Dirs PROVE Direction(f, g)'
    BY <1>3 DEF Progress
  <2>1. CASE f = d /\ g = dir
    <3>1. Owned(d, dir)'
      <4> HIDE SetupFacts, Fields
      <4> QED
        BY <1>1, <1>2, <1>3, <1>5, <1>6, <1>8 DEF Owned
    <3>2. Moved(d, dir, Handled(d, dir))
      BY <1>5 DEF Waiting
    <3>3. Running(d, dir)'
      BY <1>1, <1>2, <1>3, <1>4, <1>6, <1>8, <3>2 DEF Running, Moved
    <3> QED
      BY <1>2, <1>5, <1>8, <2>1, <3>1, <3>3 DEF Direction, Busy
  <2>2. CASE ~(f = d /\ g = dir) /\ Configured(f, g)
    <3>1. Started(f, g)' <=> Started(f, g)
      BY <1>4, <1>7, <2>2
    <3>2. ASSUME List(f, g) # <<>>, Busy(f, g) PROVE Busy(f, g)'
      <4>1. Chan(f, g) # c
        <5> SUFFICES ASSUME Chan(f, g) = c PROVE FALSE
          OBVIOUS
        <5>1. Uses(f, g, c)
          BY <2>2, <3>2 DEF Uses, List
        <5> QED
          BY <1>2, <1>5, <2>2, <5>1, OneUser
      <4>2. hw'[Chan(f, g)] = hw[Chan(f, g)]
        BY <1>6, <4>1
      <4> QED
        BY <1>3, <1>8, <3>1, <3>2, <4>2, BusyFrame
    <3>3. Direction(f, g)
      BY DEF Progress
    <3> QED
      BY <1>3, <1>8, <3>1, <3>2, <3>3, Frame
  <2>3. CASE ~Configured(f, g)
    BY <1>8, <2>3 DEF Direction
  <2> QED
    BY <1>4, <2>1, <2>2, <2>3
<1>13. Silent'
  <2> SUFFICES ASSUME NEW b \in Channels, hw'[b].en \/ hw'[b].ctz
               PROVE  \E f \in setup.devices, g \in Dirs : Uses(f, g, b)'
    BY <1>3 DEF Silent
  <2>1. \E f \in setup.devices, g \in Dirs : Uses(f, g, b)
    <3>1. CASE b = c
      BY <1>2, <1>5, <3>1
    <3>2. CASE b # c
      BY <1>6, <3>2 DEF Silent
    <3> QED
      BY <3>1, <3>2
  <2> QED
    BY <1>8, <2>1
<1>14. Claimed'
  <2>1. \A g \in Dirs : Configured(cur, g)'
    BY <1>1, <1>3, <1>4 DEF Configured
  <2> QED
    BY <2>1 DEF Claimed
<1>15. Serving'
  BY <1>3, NoHandler
<1>16. Even'
  <2>1. \A g \in Dirs : Acquired(cur, g) /\ Acquired(cur, g)' /\ Chan(cur, g)' = Chan(cur, g)
    BY <1>1, <1>3, <1>4 DEF Acquired, Chan
  <2>2. \A b : Pair(b)' <=> Pair(b)
    BY <1>3 DEF Pair
  <2>3. Actions' <=> Actions
    BY <1>3 DEF Actions
  <2>4. pc' # "acquire_rx"
    BY <1>3
  <2>5. Pairs => Pairs'
    BY <2>1, <2>2, <2>4 DEF Pairs
  <2> QED
    BY <1>3, <2>3, <2>5 DEF Even
<1> QED
  BY <1>9, <1>10, <1>11, <1>12, <1>13, <1>14, <1>15, <1>16

\* The call returns 0.
LEMMA ReturnKeeps ==
  ASSUME DmaInv, Return
  PROVE  DmaInv'
<1> USE SetupFacts, Fields DEF DmaInv
<1>1. PICK d : d = cur
  OBVIOUS
<1>2. d \in setup.devices
  BY <1>1 DEF Types
<1>3. /\ UNCHANGED <<setup, table, hw, action, isr, moved, cur>>
      /\ pc = "wait" /\ pc' = "idle" /\ Runs
      /\ job' = [job EXCEPT ![d].ret = "ok"]
      /\ job[d].async \/ Completed(job[d])
  BY <1>1 DEF Return, channels
<1>4. /\ \A f \in setup.devices : f # d => job'[f] = job[f]
      /\ job'[d].ret = "ok"
      /\ \A f \in setup.devices : /\ job'[f].len = job[f].len /\ job'[f].async = job[f].async
                                  /\ job'[f].ch = job[f].ch
      /\ job' \in [setup.devices -> JobType]
  <2>1. PICK i, j : i = job[d] /\ j = [i EXCEPT !.ret = "ok"]
    OBVIOUS
  <2>2. i \in JobType
    BY <1>2, <2>1
  <2>3. /\ j \in JobType /\ j.ret = "ok" /\ j.len = i.len /\ j.async = i.async
        /\ j.ch = i.ch
    <3> HIDE SetupFacts, Fields
    <3> QED
      BY <2>1, <2>2 DEF JobType
  <2>4. job' = [job EXCEPT ![d] = j]
    BY <1>3, <2>1
  <2> QED
    BY <1>2, <2>1, <2>3, <2>4 DEF Types
<1>5. \A f \in setup.devices, g \in Dirs :
        /\ Chan(f, g)' = Chan(f, g) /\ (Configured(f, g)' <=> Configured(f, g))
        /\ (Started(f, g)' <=> Started(f, g)) /\ (Acquired(f, g)' <=> Acquired(f, g))
  <2>1. \A f \in setup.devices, g \in Dirs : Chan(f, g)' = Chan(f, g)
    BY <1>4 DEF Chan
  <2>2. \A g : /\ Configured(d, g) /\ Started(d, g) /\ Acquired(d, g)
               /\ Configured(d, g)' /\ Started(d, g)' /\ Acquired(d, g)'
    BY <1>1, <1>3, <1>4 DEF Configured, Started, Acquired
  <2>3. \A f \in setup.devices : f # d =>
           \A g : /\ (Configured(f, g)' <=> Configured(f, g))
                  /\ (Started(f, g)' <=> Started(f, g)) /\ (Acquired(f, g)' <=> Acquired(f, g))
    BY <1>1, <1>3, <1>4, Others
  <2> QED
    BY <2>1, <2>2, <2>3
<1>6. \A f \in setup.devices, g \in Dirs :
        /\ List(f, g)' = List(f, g) /\ \A b : Uses(f, g, b)' <=> Uses(f, g, b)
  BY <1>3, <1>5 DEF List, Uses
<1>7. Types'
  BY <1>3, <1>4 DEF Types, ChannelType, EntryType, XferType, JobType
<1>8. Called'
  <2>1. job[d].len \in setup.lens
    BY <1>1, <1>3 DEF Called
  <2> QED
    <3> HIDE SetupFacts, Fields
    <3> QED
      BY <1>3, <1>4, <2>1 DEF Called
<1>9. Distinct' /\ Listless' /\ Silent'
  <2>1. Distinct'
    BY <1>3, <1>5 DEF Distinct
  <2>2. Listless'
    BY <1>3, <1>6 DEF Listless
  <2>3. Silent'
    BY <1>3, <1>6 DEF Silent
  <2> QED
    BY <2>1, <2>2, <2>3
<1>10. Progress'
  <2> SUFFICES ASSUME NEW f \in setup.devices, NEW g \in Dirs PROVE Direction(f, g)'
    BY <1>3 DEF Progress
  <2>1. job'[f].len = job[f].len
    BY <1>4
  <2>2. Busy(f, g) => Busy(f, g)'
    BY <1>3, <1>5, <2>1, BusyFrame
  <2>3. Direction(f, g)
    BY DEF Progress
  <2> QED
    BY <1>3, <1>5, <2>1, <2>2, <2>3, Frame
<1>11. Claimed'
  <2>1. \A g \in Dirs : Configured(cur, g)'
    BY <1>1, <1>3, <1>4 DEF Configured
  <2> QED
    BY <2>1 DEF Claimed
<1>12. Serving'
  BY <1>3, NoHandler
<1>13. Synced'
  <2> SUFFICES ASSUME NEW f \in setup.devices, NEW g \in Dirs,
                      job'[f].ret = "ok", ~job'[f].async
               PROVE  List(f, g) = <<>>
    BY <1>3, <1>6 DEF Synced
  <2>1. CASE f # d
    BY <1>4, <2>1 DEF Synced
  <2>2. CASE f = d
    <3>1. table[d][Chan(d, g)].free
      BY <1>1, <1>3, <1>4, <2>2 DEF Completed, Chan
    <3>2. Configured(d, g) /\ Direction(d, g)
      BY <1>1, <1>2, <1>3 DEF Configured, Progress
    <3> QED
      BY <2>2, <3>1, <3>2 DEF Direction, Busy, Owned
  <2> QED
    BY <2>1, <2>2
<1>14. Even'
  <2>1. \A g \in Dirs : Acquired(cur, g) /\ Acquired(cur, g)' /\ Chan(cur, g)' = Chan(cur, g)
    BY <1>1, <1>2, <1>3, <1>4 DEF Acquired, Chan
  <2>2. \A b : Pair(b)' <=> Pair(b)
    BY <1>3 DEF Pair
  <2>3. Actions' <=> Actions
    BY <1>3 DEF Actions
  <2>4. pc' # "acquire_rx"
    BY <1>3
  <2>5. Pairs => Pairs'
    BY <2>1, <2>2, <2>4 DEF Pairs
  <2> QED
    BY <1>3, <2>3, <2>5 DEF Even
<1> QED
  BY <1>7, <1>8, <1>9, <1>10, <1>11, <1>12, <1>13, <1>14

-----------------------------------------------------------------------------
(* The theorems *)

\* no_os_dma_init leaves every channel free and at rest.
LEMMA InitKeeps ==
  ASSUME Separate, Init
  PROVE  DmaInv
<1>1. Types
  <2>1. 0 \in Channels
    BY DmaAssumption DEF Channels
  <2>2. NoXfer \in XferType
    BY DEF NoXfer, XferType, Dirs
  <2>3. NoJob \in JobType
    BY <2>1 DEF NoJob, JobType, Dirs
  <2>4. table \in [setup.devices -> [Channels -> EntryType]]
    <3>1. [free |-> TRUE, list |-> <<>>] \in EntryType
      BY DEF EntryType
    <3> QED
      BY <3>1 DEF Init
  <2>5. hw \in [Channels -> ChannelType]
    <3>1. [xfer |-> NoXfer, en |-> FALSE, ctz |-> FALSE, irq |-> FALSE] \in ChannelType
      BY <2>2 DEF ChannelType
    <3> QED
      BY <3>1 DEF Init
  <2>6. isr \in [ch : Channels, todo : Seq(setup.devices)]
    BY <2>1 DEF Init
  <2>7. job \in [setup.devices -> JobType]
    BY <2>3 DEF Init
  <2>8. moved \in [setup.devices -> [Dirs -> Seq(Nat)]]
    BY DEF Init
  <2>9. action \in [Channels -> [Dirs -> setup.devices \cup {NoDev}]]
    BY DEF Init
  <2> QED
    BY <2>4, <2>5, <2>6, <2>7, <2>8, <2>9 DEF Init, Types
<1>2. /\ pc = "idle" /\ isr.todo = <<>> /\ cur \in setup.devices /\ setup \in Setups
      /\ \A d \in setup.devices : job[d].ret = "none"
      /\ \A d \in setup.devices, c \in Channels : table[d][c].list = <<>> /\ table[d][c].free
      /\ \A c \in Channels : ~hw[c].en /\ ~hw[c].ctz
      /\ \A c \in Channels, e \in Dirs : action[c][e] = NoDev
  BY DEF Init, NoJob
<1>3. \A d \in setup.devices, e \in Dirs : ~Acquired(d, e) /\ ~Configured(d, e)
  BY <1>2 DEF Acquired, Configured
<1>4. Called /\ Distinct /\ Progress /\ Listless /\ Silent /\ Claimed /\ Serving /\ Synced
  <2>1. "tx" \in Dirs
    BY DEF Dirs
  <2> QED
    BY <1>2, <1>3, <2>1 DEF Called, Distinct, Progress, Direction, Listless, Silent, Claimed,
                      Serving, InIsr, Synced
<1>5. Even
  <2>1. setup.lens \subseteq {1} \/ setup.devices = {cur}
    BY <1>2 DEF Separate
  <2>2. "tx" \in Dirs /\ "rx" \in Dirs
    BY DEF Dirs
  <2>3. Actions
    BY <1>2, <2>2 DEF Actions
  <2>4. \A c \in Channels : Pair(c)
    BY <1>2 DEF Pair
  <2>5. Pairs
    BY <1>2, <1>3, <2>2, <2>4 DEF Pairs
  <2> QED
    BY <2>1, <2>3, <2>5 DEF Even
<1> QED
  BY <1>1, <1>4, <1>5 DEF DmaInv

\* A stuttering step.
LEMMA StutterKeeps ==
  ASSUME DmaInv, UNCHANGED vars
  PROVE  DmaInv'
<1> USE DEF DmaInv
<1>1. UNCHANGED <<setup, table, hw, action, isr, job, moved, pc, cur>>
  BY DEF vars, channels
<1>2. \A f \in setup.devices, g \in Dirs :
        /\ Chan(f, g)' = Chan(f, g) /\ (Configured(f, g)' <=> Configured(f, g))
        /\ (Started(f, g)' <=> Started(f, g)) /\ \A b : Uses(f, g, b)' <=> Uses(f, g, b)
  BY <1>1, Undisturbed
<1>3. \A g : /\ Chan(cur, g)' = Chan(cur, g)
             /\ (Configured(cur, g)' <=> Configured(cur, g))
             /\ (Acquired(cur, g)' <=> Acquired(cur, g))
  BY <1>1, Undisturbed
<1>4. Distinct' /\ Listless' /\ Even' /\ Synced'
  BY <1>1, Undisturbed
<1>5. Types'
  BY <1>1 DEF Types, XferType, EntryType, ChannelType, JobType
<1>6. Called'
  BY <1>1, <1>3 DEF Called, Moved
<1>7. Progress'
  <2> SUFFICES ASSUME NEW f \in setup.devices, NEW g \in Dirs PROVE Direction(f, g)'
    BY <1>1 DEF Progress
  <2>1. Busy(f, g) => Busy(f, g)'
    BY <1>1, <1>2, BusyFrame
  <2>2. Direction(f, g)
    BY DEF Progress
  <2> QED
    BY <1>1, <1>2, <2>1, <2>2, Frame
<1>8. Silent'
  BY <1>1, <1>2 DEF Silent
<1>9. Claimed' /\ Serving'
  BY <1>1, <1>3 DEF Claimed, Quiet, Serving, InIsr
<1> QED
  BY <1>4, <1>5, <1>6, <1>7, <1>8, <1>9

\* What was left out of a list stays on record.
LEMMA LostStays ==
  ASSUME [Next]_vars, lost' = {} PROVE lost = {}
<1>1. CASE UNCHANGED lost
  BY <1>1
<1>2. CASE ConfigTx \/ ConfigRx
  BY <1>2 DEF ConfigTx, ConfigRx, Config, Added
<1> QED
  BY <1>1, <1>2 DEF Next, Program, Handler, Call, AcquireTx, AcquireRx, Acquire, AcquireBusy,
       ConfigFails, StartRx, StartTx, StartCh, Return, Interrupt, SgEmpty, SgCallback, Move, vars

\* Every step keeps the invariant, as long as no transfer is left out of a list.
LEMMA NextKeeps ==
  ASSUME DmaInv, [Next]_vars, lost' = {}
  PROVE  DmaInv'
<1>1. ASSUME NEW d \in setup.devices, NEW n \in setup.lens, NEW a \in BOOLEAN, Call(d, n, a)
      PROVE  DmaInv'
  BY <1>1, CallKeeps
<1>2. CASE AcquireTx
  BY <1>2, AcquireKeeps DEF AcquireTx, Dirs
<1>3. CASE AcquireRx
  BY <1>3, AcquireKeeps DEF AcquireRx, Dirs
<1>4. CASE AcquireBusy
  BY <1>4, AcquireBusyKeeps
<1>5. CASE ConfigTx
  BY <1>5, ConfigKeeps DEF ConfigTx, Dirs
<1>6. CASE ConfigRx
  BY <1>6, ConfigKeeps DEF ConfigRx, Dirs
<1>7. CASE ConfigFails
  BY <1>7, ConfigFailsKeeps
<1>8. CASE StartRx
  BY <1>8, StartKeeps DEF StartRx, Dirs
<1>9. CASE StartTx
  BY <1>9, StartKeeps DEF StartTx, Dirs
<1>10. CASE Return
  BY <1>10, ReturnKeeps
<1>11. ASSUME NEW c \in Channels, Interrupt(c) PROVE DmaInv'
  BY <1>11, InterruptKeeps
<1>12. CASE SgEmpty
  BY <1>12, SgEmptyKeeps
<1>13. CASE SgCallback
  BY <1>13, SgCallbackKeeps
<1>14. ASSUME NEW c \in Channels, Move(c) PROVE DmaInv'
  BY <1>14, MoveKeeps
<1>15. CASE UNCHANGED vars
  BY <1>15, StutterKeeps
<1> QED
  BY <1>1, <1>2, <1>3, <1>4, <1>5, <1>6, <1>7, <1>8, <1>9, <1>10, <1>11, <1>12, <1>13,
     <1>14, <1>15 DEF Next, Program, Handler

\* "It's safe to do so, since there are no ongoing transfers on this channel"
\* (no_os_dma_config_xfer): for every number of channels and devices, when jobs
\* have one message or one device is in use, as long as every no_os_list_add_last
\* has found memory.
THEOREM ChannelAtRest ==
  Separate => (Spec => [](lost = {} => SafeToAdd))
<1> SUFFICES ASSUME Separate PROVE Spec => [](lost = {} => SafeToAdd)
  OBVIOUS
<1> DEFINE Inv == lost = {} => DmaInv
<1>1. Init => Inv
  BY InitKeeps
<1>2. Inv /\ [Next]_vars => Inv'
  BY NextKeeps, LostStays
<1>3. Inv => (lost = {} => SafeToAdd)
  <2> SUFFICES ASSUME DmaInv, NEW e \in Dirs,
                      pc = (IF e = "tx" THEN "config_tx" ELSE "config_rx")
               PROVE  /\ \A d \in setup.devices : table[d][Chan(cur, e)].list = <<>>
                      /\ ~hw[Chan(cur, e)].en /\ Chan(cur, e) \notin Pending
    BY DEF SafeToAdd, Chan
  <2>1. Acquired(cur, e)
    BY DEF Acquired
  <2>2. job[cur].ret = "none"
    BY DEF DmaInv, Called
  <2>3. ~Configured(cur, e)
    BY <2>2 DEF Configured, Dirs
  <2>4. Quiet(Chan(cur, e))
    BY <2>1, <2>3 DEF DmaInv, Claimed
  <2> QED
    BY <2>4 DEF Quiet, Pending
<1> QED
  BY <1>1, <1>2, <1>3, PTL DEF Spec

\* When max_spi_dma_transfer_sync has returned 0 every message was sent and
\* received, once and in order: for every number of channels, devices and
\* messages, under the same conditions.  (SyncComplete is about the devices whose
\* lists were complete; here all of them are.)
THEOREM SyncMovesAll ==
  Separate => (Spec => [](lost = {} => SyncComplete))
<1> SUFFICES ASSUME Separate PROVE Spec => [](lost = {} => SyncComplete)
  OBVIOUS
<1> DEFINE Inv == lost = {} => DmaInv
<1>1. Init => Inv
  BY InitKeeps
<1>2. Inv /\ [Next]_vars => Inv'
  BY NextKeeps, LostStays
<1>3. Inv => (lost = {} => SyncComplete)
  <2> SUFFICES ASSUME DmaInv, NEW d \in setup.devices, job[d].ret = "ok", ~job[d].async,
                      NEW e \in Dirs
               PROVE  moved[d][e] = [k \in 1 .. job[d].len |-> k]
    BY DEF SyncComplete, SyncDone, AllMoved
  <2>1. List(d, e) = <<>> /\ Direction(d, e)
    BY DEF DmaInv, Synced, Progress
  <2>2. Configured(d, e)
    BY DEF Configured
  <2>3. Moved(d, e, job[d].len)
    BY <2>1, <2>2 DEF Direction, Over
  <2>4. PICK s, n : s = moved[d][e] /\ n = job[d].len
    OBVIOUS
  <2>5. s \in Seq(Nat) /\ n \in Nat
    BY <2>4, Fields DEF DmaInv
  <2>6. Len(s) = n /\ \A k \in 1 .. n : s[k] = k
    BY <2>3, <2>4 DEF Moved
  <2>7. s = [k \in 1 .. n |-> k]
    BY <2>5, <2>6
  <2> QED
    BY <2>4, <2>7
<1> QED
  BY <1>1, <1>2, <1>3, PTL DEF Spec
=============================================================================
