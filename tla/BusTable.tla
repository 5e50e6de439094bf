------------------------------ MODULE BusTable ------------------------------
(***************************************************************************)
(* The table of buses behind the SPI and I2C descriptors:                  *)
(* drivers/api/no_os_spi.c and drivers/api/no_os_i2c.c, which keep it in   *)
(* the same way.  A bus is allocated by the first device on it, counts its *)
(* devices in slave_number and is freed with the last one; its mutex keeps *)
(* the transfers of the tasks apart (drivers/platform/freeRTOS/            *)
(* freertos_mutex.c: a binary semaphore, which its holder cannot take a    *)
(* second time).                                                           *)
(*                                                                         *)
(* Every task drives one device; the device is on a bus the task chooses   *)
(* when it initializes it.                                                 *)
(***************************************************************************)
EXTENDS Integers, FiniteSets

CONSTANTS
  Tasks,    \* FreeRTOS tasks
  Buses,    \* bus numbers (device_id)
  MaxBuses, \* bound: bus descriptors allocated at the same time
  Setups    \* the programs that are considered

NoTask == "none"   \* a mutex that nobody has

ASSUME BusAssumption ==
  /\ IsFiniteSet(Tasks) /\ NoTask \notin Tasks /\ MaxBuses \in Nat
  /\ Setups \subseteq
       [serial : BOOLEAN,  \* init and remove are called by one task at a time
        call : {"write_and_read",     \* also no_os_i2c_write and _read
                "transfer",           \* no_os_spi_transfer, platform without it
                "platform_transfer"}] \* no_os_spi_transfer, platform with it

Null == 0
Descs == 1 .. MaxBuses   \* addresses of bus descriptors

VARIABLES
  setup,   \* member of Setups, fixed
  table,   \* spi_table / i2c_table
  heap,    \* bus descriptors: allocated, slave_number, and who has the mutex
  dev,     \* the device of each task: bus number, desc->bus, initialized
  pc,      \* where each task is
  wild,    \* history: a bus descriptor was used that is not allocated
  reused   \* history: a device was used again after its removal had failed

vars == <<setup, table, heap, dev, pc, wild, reused>>

NoDesc == [live |-> FALSE, slave_number |-> 0, mutex |-> NoTask]

Init ==
  /\ setup \in Setups
  /\ table = [b \in Buses |-> Null]
  /\ heap = [a \in Descs |-> NoDesc]
  /\ dev \in [Tasks -> {[on |-> b, bus |-> Null, ready |-> FALSE] : b \in Buses}]
  /\ pc = [t \in Tasks |-> "idle"]
  /\ wild = FALSE
  /\ reused = FALSE

Goes(t, place) == pc' = [pc EXCEPT ![t] = place]
IsLive(a) == a # Null /\ heap[a].live
Configuring == {t \in Tasks : pc[t] \in {"new_bus", "platform_init", "attach",
                                         "detach", "platform_remove"}}
MayConfigure == setup.serial => Configuring = {}

-----------------------------------------------------------------------------
(* no_os_spi_init *)

\* Mutant: every device brings a bus of its own.
HasBus_Never(b) == FALSE

HasBus(b) == table[b] # Null

InitDevice(t) ==
  /\ pc[t] = "idle" /\ ~dev[t].ready
  /\ MayConfigure
  /\ Goes(t, IF HasBus(dev[t].on) THEN "platform_init" ELSE "new_bus")
  /\ UNCHANGED <<setup, table, heap, dev, wild, reused>>

\* no_os_spibus_init.
NewBus(t) ==
  /\ pc[t] = "new_bus"
  /\ \E a \in Descs :
       /\ ~heap[a].live
       /\ heap' = [heap EXCEPT ![a] = [NoDesc EXCEPT !.live = TRUE]]
       /\ table' = [table EXCEPT ![dev[t].on] = a]
  /\ Goes(t, "platform_init")
  /\ UNCHANGED <<setup, dev, wild, reused>>

\* -ENOMEM.
NewBusFails(t) ==
  /\ pc[t] = "new_bus"
  /\ Goes(t, "idle")
  /\ UNCHANGED <<setup, table, heap, dev, wild, reused>>

PlatformInit(t) ==
  /\ pc[t] = "platform_init"
  /\ Goes(t, "attach")
  /\ UNCHANGED <<setup, table, heap, dev, wild, reused>>

\* The bus stays in the table, with no device if it is new.
PlatformInitFails(t) ==
  /\ pc[t] = "platform_init"
  /\ Goes(t, "idle")
  /\ UNCHANGED <<setup, table, heap, dev, wild, reused>>

\* desc->bus = spi_table[id], slave_number++.
Attach(t) ==
  /\ pc[t] = "attach"
  /\ LET a == table[dev[t].on] IN
       /\ wild' = (wild \/ ~IsLive(a))
       /\ heap' = IF a = Null THEN heap
                  ELSE [heap EXCEPT ![a].slave_number = @ + 1]
       /\ dev' = [dev EXCEPT ![t].bus = a, ![t].ready = TRUE]
  /\ Goes(t, "idle")
  /\ UNCHANGED <<setup, table, reused>>

-----------------------------------------------------------------------------
(* no_os_spi_remove *)

RemoveDevice(t) ==
  /\ pc[t] = "idle" /\ dev[t].ready
  /\ MayConfigure
  /\ Goes(t, "detach")
  /\ UNCHANGED <<setup, table, heap, dev, wild, reused>>

\* Mutant: the bus goes with any device.
IsLast_Any(n) == TRUE

IsLast(n) == n = 0

\* no_os_spibus_remove, by the number kept in desc->bus.
Detach(t) ==
  /\ pc[t] = "detach"
  /\ LET b == dev[t].on
         a == table[b]
         n == IF heap[a].slave_number > 0 THEN heap[a].slave_number - 1 ELSE 0
     IN IF ~IsLive(dev[t].bus) \/ ~IsLive(a)
        THEN wild' = TRUE /\ UNCHANGED <<heap, table>>
        ELSE /\ IF IsLast(n)
                THEN /\ heap' = [heap EXCEPT ![a].live = FALSE]
                     /\ table' = [table EXCEPT ![b] = Null]
                ELSE /\ heap' = [heap EXCEPT ![a].slave_number = n]
                     /\ UNCHANGED table
             /\ UNCHANGED wild
  /\ Goes(t, "platform_remove")
  /\ UNCHANGED <<setup, dev, reused>>

\* The descriptor is gone.  The next device may be on another bus.
Gone(t) ==
  /\ \E b \in Buses :
       dev' = [dev EXCEPT ![t] = [on |-> b, bus |-> Null, ready |-> FALSE]]
  /\ Goes(t, "idle")
  /\ UNCHANGED <<setup, table, heap, wild, reused>>

\* The platform frees the descriptor.
PlatformRemove(t) == pc[t] = "platform_remove" /\ Gone(t)

\* The platform has no remove (-ENOSYS) or returns an error: the descriptor is
\* left with desc->bus, though it is off its bus already.
PlatformRemoveFails(t) ==
  /\ pc[t] = "platform_remove"
  /\ Goes(t, "half")
  /\ UNCHANGED <<setup, table, heap, dev, wild, reused>>

\* The program gives the descriptor up.
Drop(t) == pc[t] = "half" /\ Gone(t)

\* The program goes on with it, or calls remove again.
UseAgain(t) ==
  /\ pc[t] = "half"
  /\ reused' = TRUE
  /\ Goes(t, "idle")
  /\ UNCHANGED <<setup, table, heap, dev, wild>>

-----------------------------------------------------------------------------
(* Transfers *)

\* no_os_mutex_lock(desc->bus->mutex), then on to the given place.
Lock(t, place) ==
  LET a == dev[t].bus IN
    /\ a # Null
    /\ heap[a].mutex = NoTask
    /\ heap' = [heap EXCEPT ![a].mutex = t]
    /\ wild' = (wild \/ ~IsLive(a))
    /\ Goes(t, place)
    /\ UNCHANGED <<setup, table, dev, reused>>

\* no_os_mutex_unlock(desc->bus->mutex).
Unlock(t) ==
  /\ heap' = [heap EXCEPT ![dev[t].bus].mutex = NoTask]
  /\ wild' = (wild \/ ~IsLive(dev[t].bus))
  /\ UNCHANGED <<setup, table, dev, reused>>

\* A task calls the transfer function of its device.
Transfer(t) ==
  /\ pc[t] = "idle" /\ dev[t].ready
  /\ Goes(t, CASE setup.call = "write_and_read" -> "lock"
               [] setup.call = "transfer" -> "outer_lock"
               [] setup.call = "platform_transfer" -> "on_bus")
  /\ UNCHANGED <<setup, table, heap, dev, wild, reused>>

\* no_os_spi_transfer has the mutex and goes through its messages.
LockOuter(t) == pc[t] = "outer_lock" /\ Lock(t, "messages")

\* The next message is given to no_os_spi_write_and_read.
NextMessage(t) ==
  /\ pc[t] = "messages"
  /\ Goes(t, "lock")
  /\ UNCHANGED <<setup, table, heap, dev, wild, reused>>

\* No message is left, or its two buffers differ (-EINVAL).
EndMessages(t) ==
  /\ pc[t] = "messages"
  /\ Unlock(t)
  /\ Goes(t, "idle")

\* no_os_spi_write_and_read, no_os_i2c_write, no_os_i2c_read.
LockBus(t) == pc[t] = "lock" /\ Lock(t, "on_bus")

\* The platform is done.
EndTransfer(t) ==
  /\ pc[t] = "on_bus"
  /\ IF setup.call = "platform_transfer"
     THEN UNCHANGED <<setup, table, heap, dev, wild, reused>>
     ELSE Unlock(t)
  /\ Goes(t, IF setup.call = "transfer" THEN "messages" ELSE "idle")

-----------------------------------------------------------------------------

Step(t) == \/ NewBus(t) \/ NewBusFails(t) \/ PlatformInit(t)
           \/ PlatformInitFails(t) \/ Attach(t) \/ Detach(t)
           \/ PlatformRemove(t) \/ PlatformRemoveFails(t) \/ LockBus(t) \/ EndTransfer(t)
           \/ LockOuter(t) \/ NextMessage(t) \/ EndMessages(t)

Next == \E t \in Tasks : \/ InitDevice(t) \/ RemoveDevice(t) \/ Transfer(t)
                         \/ Drop(t) \/ UseAgain(t) \/ Step(t)

Spec == Init /\ [][Next]_vars

-----------------------------------------------------------------------------
(* Properties *)

\* A device whose removal has taken it off its bus.
Off(t) == pc[t] \in {"platform_remove", "half"}

\* The devices on a bus.
Users(a) == {t \in Tasks : dev[t].ready /\ dev[t].bus = a /\ ~Off(t)}

\* The range of every variable.
TypeOK ==
  /\ setup \in Setups
  /\ table \in [Buses -> Descs \cup {Null}]
  /\ heap \in [Descs -> [live : BOOLEAN, slave_number : Nat,
                         mutex : Tasks \cup {NoTask}]]
  /\ dev \in [Tasks -> [on : Buses, bus : Descs \cup {Null}, ready : BOOLEAN]]
  /\ pc \in [Tasks -> {"idle", "new_bus", "platform_init", "attach", "detach",
                       "platform_remove", "half", "outer_lock", "messages", "lock",
                       "on_bus"}]
  /\ wild \in BOOLEAN
  /\ reused \in BOOLEAN

\* At most one task at a time is inside a transfer on a bus, though the devices
\* on it come and go and the bus descriptor that holds the mutex with them.
EveryOneOnBus ==
  \A t, u \in Tasks : pc[t] = "on_bus" /\ pc[u] = "on_bus" /\ t # u
                        => dev[t].on # dev[u].on

\* Nobody else comes on a bus during a transfer, as long as no program goes on
\* with a device whose removal failed; that a removal may fail and the device is
\* given up changes nothing.
OneOnBus == ~reused => EveryOneOnBus

\* While a device refers to a bus descriptor, the descriptor is allocated, is the
\* one in the table, and counts exactly its devices: the return value of
\* no_os_spi_remove tells whether the device is still there.
EveryBusHeld ==
  /\ ~wild
  /\ \A t \in Tasks :
       dev[t].ready /\ ~Off(t) =>
         LET a == dev[t].bus IN
           /\ IsLive(a)
           /\ table[dev[t].on] = a
           /\ heap[a].slave_number = Cardinality(Users(a))

\* A failed initialization, or the removal of one device, failed or not, never
\* takes the bus from another; only going on with a device whose removal failed
\* does.
BusHeld == ~reused => EveryBusHeld

\* no_os_spi_transfer comes back: no task waits for a mutex that nobody will give.
NoSelfLock ==
  \A t \in Tasks : pc[t] \in {"lock", "outer_lock"} /\ dev[t].bus # Null
                     => heap[dev[t].bus].mutex # t
=============================================================================
