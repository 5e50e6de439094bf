--------------------------- MODULE BusTableProofs ---------------------------
(***************************************************************************)
(* Proofs about BusTable for any number of tasks, buses and bus            *)
(* descriptors.                                                            *)
(***************************************************************************)
EXTENDS BusTable, FiniteSetTheorems, TLAPS

\* Devices are initialized and removed by one task at a time.
Serial == \A s \in Setups : s.serial

\* Transfers go through the mutex of the bus.
Locking == \A s \in Setups : s.call # "platform_transfer"

-----------------------------------------------------------------------------
(* Inductive invariants *)

OneConfigures == \A t, u \in Configuring : t = u

\* What is known of a task at each place of init, remove and transfer.
Places ==
  \A t \in Tasks :
    /\ pc[t] \in {"new_bus", "platform_init", "attach"} => ~dev[t].ready
    /\ pc[t] = "new_bus" => table[dev[t].on] = Null
    /\ pc[t] \in {"platform_init", "attach"} => table[dev[t].on] # Null
    /\ pc[t] \in {"detach", "platform_remove", "half", "outer_lock", "messages", "lock",
                  "on_bus"} => dev[t].ready

\* A descriptor in the table is allocated, belongs to one bus and counts its
\* devices, also when it has none because their initialization failed.
Entries ==
  \A b \in Buses : table[b] # Null =>
    /\ heap[table[b]].live
    /\ heap[table[b]].slave_number = Cardinality(Users(table[b]))
    /\ \A c \in Buses : table[c] = table[b] => c = b

\* A device that is not being removed refers to the descriptor in the table.
Refers ==
  \A t \in Tasks : dev[t].ready /\ ~Off(t) =>
    dev[t].bus # Null /\ dev[t].bus = table[dev[t].on]

HeldInv == TypeOK /\ ~wild /\ OneConfigures /\ Places /\ Entries /\ Refers

\* Who is on a bus, or goes through its messages, has its mutex.  (The inner
\* no_os_mutex_lock of no_os_spi_transfer never succeeds, so that only
\* no_os_spi_write_and_read itself comes to be on a bus.)
Holds ==
  \A t \in Tasks :
    /\ pc[t] \in {"messages", "on_bus"} => heap[dev[t].bus].mutex = t
    /\ pc[t] = "lock" /\ setup.call = "transfer" => heap[dev[t].bus].mutex = t
    /\ pc[t] = "on_bus" => setup.call # "transfer"

-----------------------------------------------------------------------------

USE BusAssumption DEF Off

\* The steps of a task, in one disjunction.
LEMMA NextCases ==
  ASSUME [Next]_vars
  PROVE  \/ \E t \in Tasks :
              \/ InitDevice(t) \/ NewBus(t) \/ NewBusFails(t) \/ PlatformInit(t)
              \/ PlatformInitFails(t) \/ Attach(t) \/ RemoveDevice(t) \/ Detach(t)
              \/ PlatformRemove(t) \/ PlatformRemoveFails(t) \/ Drop(t)
              \/ UseAgain(t) \/ Transfer(t) \/ LockOuter(t)
              \/ NextMessage(t) \/ EndMessages(t) \/ LockBus(t) \/ EndTransfer(t)
         \/ UNCHANGED vars
  BY DEF Next, Step

\* Every task starts with a device of its own on some bus, none initialized, and
\* every bus descriptor is free.
LEMMA TypeInit == Init => TypeOK
<1> DEFINE Desc == [live : BOOLEAN, slave_number : Nat, mutex : Tasks \cup {NoTask}]
           Dev == [on : Buses, bus : Descs \cup {Null}, ready : BOOLEAN]
<1> SUFFICES ASSUME Init PROVE TypeOK
  OBVIOUS
<1>1. heap \in [Descs -> Desc]
  <2>1. NoDesc \in Desc
    BY DEF NoDesc
  <2> QED
    BY <2>1 DEF Init
<1>2. dev \in [Tasks -> Dev]
  <2>1. ASSUME NEW x \in {[on |-> b, bus |-> Null, ready |-> FALSE] : b \in Buses}
        PROVE  x \in Dev
    <3>1. PICK b \in Buses : x = [on |-> b, bus |-> Null, ready |-> FALSE]
      OBVIOUS
    <3> QED
      BY <3>1
  <2>2. dev \in [Tasks -> {[on |-> b, bus |-> Null, ready |-> FALSE] : b \in Buses}]
    BY DEF Init
  <2> HIDE DEF Dev
  <2> QED
    BY <2>1, <2>2
<1> QED
  BY <1>1, <1>2 DEF Init, TypeOK

\* Every step of a task leaves every variable in its range.
LEMMA TypeStep == TypeOK /\ [Next]_vars => TypeOK'
<1> DEFINE Desc == [live : BOOLEAN, slave_number : Nat, mutex : Tasks \cup {NoTask}]
           Dev == [on : Buses, bus : Descs \cup {Null}, ready : BOOLEAN]
<1> SUFFICES ASSUME TypeOK, [Next]_vars PROVE TypeOK'
  OBVIOUS
<1>1. ASSUME NEW t \in Tasks,
             \/ InitDevice(t) \/ NewBusFails(t) \/ PlatformInit(t)
             \/ PlatformInitFails(t) \/ RemoveDevice(t) \/ PlatformRemoveFails(t)
             \/ UseAgain(t) \/ NextMessage(t)
      PROVE  TypeOK'
  BY <1>1 DEF TypeOK, Goes, InitDevice, NewBusFails, PlatformInit,
              PlatformInitFails, RemoveDevice, PlatformRemoveFails, UseAgain,
              NextMessage
<1>2. ASSUME NEW t \in Tasks, NewBus(t) PROVE TypeOK'
  <2>1. PICK a \in Descs : NewBus(t)!2!(a)
    BY <1>2 DEF NewBus
  <2>2. [NoDesc EXCEPT !.live = TRUE] \in Desc
    BY DEF NoDesc
  <2>3. heap' \in [Descs -> Desc]
    BY <2>1, <2>2 DEF TypeOK
  <2>4. table' \in [Buses -> Descs \cup {Null}]
    BY <2>1 DEF TypeOK
  <2> QED
    BY <1>2, <2>3, <2>4 DEF NewBus, Goes, TypeOK
<1>3. ASSUME NEW t \in Tasks, Attach(t) PROVE TypeOK'
  <2> DEFINE a == table[dev[t].on]
  <2>1. dev[t] \in Dev /\ a \in Descs \cup {Null}
    BY DEF TypeOK
  <2>2. heap' \in [Descs -> Desc]
    <3>1. CASE a = Null
      BY <1>3, <3>1 DEF Attach, TypeOK
    <3>2. CASE a # Null
      <4>1. heap' = [heap EXCEPT ![a].slave_number = @ + 1]
        BY <1>3, <3>2 DEF Attach
      <4>2. heap[a] \in Desc
        BY <2>1, <3>2 DEF TypeOK
      <4>3. [heap[a] EXCEPT !.slave_number = heap[a].slave_number + 1] \in Desc
        BY <4>2
      <4> QED
        BY <4>1, <4>3 DEF TypeOK
    <3> QED
      BY <3>1, <3>2
  <2>3. dev' \in [Tasks -> Dev]
    <3>1. dev' = [dev EXCEPT ![t] = [[@ EXCEPT !.bus = a] EXCEPT !.ready = TRUE]]
      BY <1>3 DEF Attach, TypeOK
    <3>2. [[dev[t] EXCEPT !.bus = a] EXCEPT !.ready = TRUE] \in Dev
      BY <2>1
    <3> QED
      BY <3>1, <3>2 DEF TypeOK
  <2>4. wild' \in BOOLEAN
    BY <1>3, Zenon DEF Attach
  <2> QED
    BY <1>3, <2>2, <2>3, <2>4 DEF Attach, Goes, TypeOK
<1>4. ASSUME NEW t \in Tasks, Detach(t) PROVE TypeOK'
  <2> DEFINE b == dev[t].on
             a == table[b]
             n == IF heap[a].slave_number > 0 THEN heap[a].slave_number - 1 ELSE 0
  <2>1. b \in Buses /\ a \in Descs \cup {Null}
    BY DEF TypeOK
  <2>2. UNCHANGED <<heap, table>> \/ UNCHANGED wild
    BY <1>4, Zenon DEF Detach
  <2>3. CASE ~IsLive(dev[t].bus) \/ ~IsLive(a)
    <3>1. wild' = TRUE /\ UNCHANGED <<heap, table>>
      BY <1>4, <2>3, Zenon DEF Detach
    <3> QED
      BY <1>4, <3>1 DEF Detach, Goes, TypeOK
  <2>4. CASE ~(~IsLive(dev[t].bus) \/ ~IsLive(a))
    <3>1. a \in Descs /\ heap[a] \in Desc /\ n \in Nat
      BY <2>1, <2>4 DEF IsLive, TypeOK
    <3>2. UNCHANGED wild
      BY <1>4, <2>4 DEF Detach
    <3>3. \/ heap' = [heap EXCEPT ![a].live = FALSE] /\ table' = [table EXCEPT ![b] = Null]
          \/ heap' = [heap EXCEPT ![a].slave_number = n] /\ UNCHANGED table
      BY <1>4, <2>4 DEF Detach
    <3>4. heap' \in [Descs -> Desc]
      <4>1. [heap[a] EXCEPT !.live = FALSE] \in Desc
        BY <3>1
      <4>2. [heap[a] EXCEPT !.slave_number = n] \in Desc
        BY <3>1
      <4> QED
        BY <3>3, <4>1, <4>2 DEF TypeOK
    <3>5. table' \in [Buses -> Descs \cup {Null}]
      BY <3>3 DEF TypeOK
    <3> QED
      BY <1>4, <3>2, <3>4, <3>5 DEF Detach, Goes, TypeOK
  <2> QED
    BY <2>3, <2>4
<1>5. ASSUME NEW t \in Tasks, PlatformRemove(t) \/ Drop(t) PROVE TypeOK'
  <2>1. \A b \in Buses : [on |-> b, bus |-> Null, ready |-> FALSE] \in Dev
    OBVIOUS
  <2>2. dev' \in [Tasks -> Dev]
    <3>1. PICK b \in Buses :
            dev' = [dev EXCEPT ![t] = [on |-> b, bus |-> Null, ready |-> FALSE]]
      BY <1>5 DEF PlatformRemove, Drop, Gone
    <3> QED
      BY <2>1, <3>1 DEF TypeOK
  <2> QED
    BY <1>5, <2>2 DEF PlatformRemove, Drop, Gone, Goes, TypeOK
<1>6. ASSUME NEW t \in Tasks, Transfer(t) PROVE TypeOK'
  <2>1. setup.call \in {"write_and_read", "transfer", "platform_transfer"}
    BY DEF TypeOK
  <2> QED
    BY <1>6, <2>1 DEF Transfer, Goes, TypeOK
<1>7. ASSUME NEW t \in Tasks, LockOuter(t) \/ LockBus(t) PROVE TypeOK'
  <2> DEFINE a == dev[t].bus
  <2>1. PICK place \in {"messages", "on_bus"} : Lock(t, place)
    BY <1>7 DEF LockOuter, LockBus
  <2>2. a \in Descs /\ heap[a] \in Desc
    BY <2>1 DEF Lock, TypeOK
  <2>3. [heap[a] EXCEPT !.mutex = t] \in Desc
    BY <2>2
  <2>4. heap' \in [Descs -> Desc]
    BY <2>1, <2>2, <2>3 DEF Lock, TypeOK
  <2>5. wild' \in BOOLEAN
    BY <2>1, Zenon DEF Lock
  <2> QED
    BY <2>1, <2>4, <2>5 DEF Lock, Goes, TypeOK
<1>8. ASSUME NEW t \in Tasks, Unlock(t), NEW place \in {"messages", "idle"},
             Goes(t, place)
      PROVE  TypeOK'
  <2> DEFINE a == dev[t].bus
  <2>1. heap' \in [Descs -> Desc]
    <3>1. ASSUME NEW x \in Desc PROVE [x EXCEPT !.mutex = NoTask] \in Desc
      OBVIOUS
    <3> QED
      BY <1>8, <3>1 DEF Unlock, TypeOK
  <2>2. wild' \in BOOLEAN
    BY <1>8, Zenon DEF Unlock
  <2> QED
    BY <1>8, <2>1, <2>2 DEF Unlock, Goes, TypeOK
<1>9. ASSUME NEW t \in Tasks, EndMessages(t) PROVE TypeOK'
  BY <1>8, <1>9 DEF EndMessages
<1>10. ASSUME NEW t \in Tasks, EndTransfer(t) PROVE TypeOK'
  <2>1. CASE setup.call = "platform_transfer"
    BY <1>10, <2>1 DEF EndTransfer, Goes, TypeOK
  <2>2. CASE setup.call # "platform_transfer"
    BY <1>8, <1>10, <2>2 DEF EndTransfer
  <2> QED
    BY <2>1, <2>2
<1>11. CASE UNCHANGED vars
  BY <1>11 DEF vars, TypeOK
<1> QED
  BY <1>1, <1>2, <1>3, <1>4, <1>5, <1>6, <1>7, <1>9, <1>10, <1>11, NextCases

\* Every variable stays in its range.
THEOREM TypeCorrect == Spec => []TypeOK
  BY TypeInit, TypeStep, PTL DEF Spec

-----------------------------------------------------------------------------
(* BusHeld *)

\* Only the task of a step moves, and MayConfigure lets it into init or remove
\* only while nobody is inside.
LEMMA ConfigureStep ==
  ASSUME Serial, TypeOK, OneConfigures, [Next]_vars
  PROVE  OneConfigures'
<1> USE DEF OneConfigures, Configuring
<1>1. ASSUME NEW t \in Tasks, InitDevice(t) \/ RemoveDevice(t)
      PROVE  OneConfigures'
  <2>1. Configuring = {}
    BY <1>1 DEF InitDevice, RemoveDevice, MayConfigure, Serial, TypeOK
  <2>2. \A u \in Tasks \ {t} : pc'[u] = pc[u]
    BY <1>1 DEF InitDevice, RemoveDevice, Goes, TypeOK
  <2> QED
    BY <2>1, <2>2
<1>2. ASSUME NEW t \in Tasks,
             \/ NewBus(t) \/ NewBusFails(t) \/ PlatformInit(t)
             \/ PlatformInitFails(t) \/ Attach(t) \/ Detach(t) \/ PlatformRemove(t)
             \/ PlatformRemoveFails(t)
      PROVE  OneConfigures'
  <2>1. t \in Configuring
    BY <1>2 DEF NewBus, NewBusFails, PlatformInit, PlatformInitFails, Attach,
                Detach, PlatformRemove, PlatformRemoveFails
  <2>2. \A u \in Tasks \ {t} : pc'[u] = pc[u]
    BY <1>2 DEF NewBus, NewBusFails, PlatformInit, PlatformInitFails, Attach,
                Detach, PlatformRemove, PlatformRemoveFails, Gone, Goes, TypeOK
  <2> QED
    BY <2>1, <2>2
<1>3. ASSUME NEW t \in Tasks, NEW place \in {"idle", "lock", "outer_lock", "on_bus",
                                             "messages"},
             Goes(t, place)
      PROVE  OneConfigures'
  BY <1>3 DEF Goes, TypeOK
<1>4. ASSUME NEW t \in Tasks,
             \/ Transfer(t) \/ LockOuter(t) \/ NextMessage(t) \/ EndMessages(t)
             \/ LockBus(t) \/ EndTransfer(t) \/ Drop(t) \/ UseAgain(t)
      PROVE  OneConfigures'
  <2>1. setup.call \in {"write_and_read", "transfer", "platform_transfer"}
    BY DEF TypeOK
  <2> QED
    BY <1>3, <1>4, <2>1 DEF Transfer, LockOuter, NextMessage, EndMessages, LockBus,
                            EndTransfer, Lock, Drop, UseAgain, Gone
<1>5. CASE UNCHANGED vars
  BY <1>5 DEF vars
<1> QED
  BY <1>1, <1>2, <1>4, <1>5, NextCases

\* A step that neither gives nor takes a device or a bus changes nothing that
\* the table and the counts depend on.
LEMMA Frame ==
  ASSUME TypeOK, Entries, Refers, UNCHANGED <<table, dev>>,
         \A a \in Descs : /\ heap'[a].live = heap[a].live
                          /\ heap'[a].slave_number = heap[a].slave_number,
         \A u \in Tasks : Off(u)' <=> Off(u)
  PROVE  Entries' /\ Refers'
<1>1. ASSUME NEW a PROVE Users(a)' = Users(a)
  BY DEF Users
<1>2. Entries'
  BY <1>1 DEF Entries, TypeOK
<1>3. Refers'
  BY DEF Refers, TypeOK
<1> QED
  BY <1>2, <1>3

\* A task between init and remove refers to an allocated descriptor.
LEMMA ReadyIsLive ==
  ASSUME HeldInv, NEW t \in Tasks, dev[t].ready, ~Off(t)
  PROVE  /\ IsLive(dev[t].bus) /\ dev[t].bus \in Descs
         /\ dev[t].on \in Buses /\ dev[t].bus = table[dev[t].on]
  BY DEF HeldInv, TypeOK, Refers, Entries, IsLive

\* slave_number counts finitely many devices.
LEMMA UsersFinite ==
  ASSUME NEW a PROVE IsFiniteSet(Users(a)) /\ IsFiniteSet(Users(a)')
<1>1. Users(a) \subseteq Tasks /\ Users(a)' \subseteq Tasks
  BY DEF Users
<1> QED
  BY <1>1, FS_Subset

\* no_os_spibus_init: the descriptor is fresh, so that no device refers to it and
\* no other bus has it.
LEMMA NewBusStep ==
  ASSUME HeldInv, TypeOK', NEW t \in Tasks, NewBus(t)
  PROVE  ~wild' /\ Places' /\ Entries' /\ Refers'
<1> DEFINE on == dev[t].on
<1>1. PICK a \in Descs : NewBus(t)!2!(a)
  BY DEF NewBus
<1>2. /\ TypeOK /\ pc[t] = "new_bus" /\ UNCHANGED <<dev, wild>>
      /\ pc' = [pc EXCEPT ![t] = "platform_init"]
      /\ on \in Buses /\ a # Null
  BY DEF NewBus, Goes, HeldInv, TypeOK, Descs, Null
<1>3. table[on] = Null /\ ~dev[t].ready
  BY <1>2 DEF HeldInv, Places
<1>4. \A b \in Buses : table[b] # a
  BY <1>1, <1>2 DEF HeldInv, Entries
<1>5. \A u \in Tasks : dev[u].ready /\ ~Off(u) =>
        dev[u].bus # a /\ dev[u].on # on
  BY <1>2, <1>3, <1>4 DEF HeldInv, Refers, TypeOK
<1>6. \A u \in Tasks : Off(u)' <=> Off(u)
  BY <1>2 DEF TypeOK
<1>7. ASSUME NEW d PROVE Users(d)' = Users(d)
  BY <1>2, <1>6 DEF Users
<1>8. Users(a) = {}
  BY <1>5 DEF Users
<1>9. heap'[a].live /\ heap'[a].slave_number = 0
  BY <1>1, <1>2 DEF NoDesc, TypeOK
<1>10. Places'
  <2> SUFFICES ASSUME NEW u \in Tasks PROVE Places!(u)'
    BY DEF Places
  <2>1. CASE u = t
    BY <2>1, <1>1, <1>2, <1>3 DEF TypeOK
  <2>2. CASE u # t
    <3>1. pc'[u] = pc[u] /\ dev'[u] = dev[u]
      BY <2>2, <1>2 DEF TypeOK
    <3>2. pc[u] # "new_bus"
      BY <2>2, <1>2 DEF HeldInv, OneConfigures, Configuring
    <3>3. table[dev[u].on] # Null => table'[dev[u].on] # Null
      BY <1>1, <1>2, <1>3 DEF TypeOK
    <3> QED
      BY <3>1, <3>2, <3>3 DEF HeldInv, Places
  <2> QED
    BY <2>1, <2>2
<1>11. Entries'
  <2> SUFFICES ASSUME NEW b \in Buses, table'[b] # Null
               PROVE  Entries!(b)!2'
    BY DEF Entries
  <2>1. \A c \in Buses : table'[c] = table'[b] => c = b
    BY <1>1, <1>2, <1>4 DEF HeldInv, Entries, TypeOK
  <2>2. CASE b = on
    <3>1. table'[b] = a
      BY <2>2, <1>1, <1>2 DEF TypeOK
    <3> QED
      BY <2>1, <3>1, <1>7, <1>8, <1>9, FS_EmptySet
  <2>3. CASE b # on
    <3>1. table'[b] = table[b] /\ table[b] # a /\ table[b] \in Descs
      BY <2>3, <1>1, <1>2, <1>4 DEF TypeOK
    <3>2. heap'[table[b]] = heap[table[b]]
      BY <3>1, <1>1, <1>2 DEF TypeOK
    <3>3. heap[table[b]].live /\ heap[table[b]].slave_number = Cardinality(Users(table[b]))
      BY <3>1 DEF HeldInv, Entries
    <3> QED
      BY <2>1, <3>1, <3>2, <3>3, <1>7
  <2> QED
    BY <2>2, <2>3
<1>12. Refers'
  BY <1>1, <1>2, <1>5, <1>6 DEF HeldInv, Refers, TypeOK
<1> QED
  BY <1>2, <1>10, <1>11, <1>12 DEF HeldInv

\* desc->bus = spi_table[id] and slave_number++: one more device, counted once.
LEMMA AttachStep ==
  ASSUME HeldInv, TypeOK', NEW t \in Tasks, Attach(t)
  PROVE  ~wild' /\ Places' /\ Entries' /\ Refers'
<1>0. PICK on, a : on = dev[t].on /\ a = table[on]
  OBVIOUS
<1>1. /\ TypeOK /\ pc[t] = "attach" /\ UNCHANGED table
      /\ pc' = [pc EXCEPT ![t] = "idle"]
      /\ on \in Buses /\ ~dev[t].ready /\ a # Null /\ a \in Descs
  BY <1>0 DEF Attach, Goes, HeldInv, Places, TypeOK
<1>2. heap[a].live /\ heap[a].slave_number = Cardinality(Users(a))
  BY <1>0, <1>1 DEF HeldInv, Entries
<1>3. ~wild'
  BY <1>0, <1>1, <1>2 DEF Attach, IsLive, HeldInv
<1>4. /\ heap' = [heap EXCEPT ![a].slave_number = @ + 1]
      /\ dev' = [dev EXCEPT ![t].bus = a, ![t].ready = TRUE]
  BY <1>0, <1>1 DEF Attach
<1>5. /\ heap'[a].live = heap[a].live
      /\ heap'[a].slave_number = heap[a].slave_number + 1
      /\ \A d \in Descs \ {a} : heap'[d] = heap[d]
  BY <1>1, <1>4 DEF TypeOK
<1>6. /\ dev'[t].bus = a /\ dev'[t].ready /\ dev'[t].on = on
      /\ \A u \in Tasks \ {t} : dev'[u] = dev[u] /\ pc'[u] = pc[u]
      /\ pc'[t] = "idle"
  BY <1>0, <1>1, <1>4 DEF TypeOK
<1>7. Places'
  BY <1>0, <1>1, <1>6 DEF HeldInv, Places
<1>8. Users(a)' = Users(a) \cup {t} /\ t \notin Users(a)
  BY <1>1, <1>6 DEF Users
<1>9. ASSUME NEW d \in Descs \ {a} PROVE Users(d)' = Users(d)
  BY <1>1, <1>6 DEF Users
<1>10. Cardinality(Users(a)') = Cardinality(Users(a)) + 1
  BY <1>8, UsersFinite, FS_AddElement
<1>11. Entries'
  <2> SUFFICES ASSUME NEW b \in Buses, table'[b] # Null
               PROVE  Entries!(b)!2'
    BY DEF Entries
  <2>1. \A c \in Buses : table'[c] = table'[b] => c = b
    BY <1>1 DEF HeldInv, Entries
  <2>2. CASE table[b] = a
    BY <2>1, <2>2, <1>1, <1>2, <1>5, <1>10
  <2>3. CASE table[b] # a
    <3>1. table[b] \in Descs \ {a} /\ table'[b] = table[b]
      BY <2>3, <1>1 DEF TypeOK
    <3>2. heap[table[b]].live /\ heap[table[b]].slave_number = Cardinality(Users(table[b]))
      BY <1>1 DEF HeldInv, Entries
    <3> QED
      BY <2>1, <3>1, <3>2, <1>5, <1>9
  <2> QED
    BY <2>2, <2>3
<1>12. Refers'
  BY <1>0, <1>1, <1>6 DEF HeldInv, Refers
<1> QED
  BY <1>3, <1>7, <1>11, <1>12

\* no_os_spibus_remove: one device less, and the bus goes with the last one.
LEMMA DetachStep ==
  ASSUME HeldInv, TypeOK', NEW t \in Tasks, Detach(t)
  PROVE  ~wild' /\ Places' /\ Entries' /\ Refers'
<1>0. PICK on, a, n : on = dev[t].on /\ a = table[on] /\ n = heap[a].slave_number - 1
  OBVIOUS
<1>1. /\ TypeOK /\ pc[t] = "detach" /\ UNCHANGED dev
      /\ pc' = [pc EXCEPT ![t] = "platform_remove"] /\ dev[t].ready
  BY DEF Detach, Goes, HeldInv, Places
<1>2. /\ IsLive(dev[t].bus) /\ dev[t].bus \in Descs
      /\ on \in Buses /\ dev[t].bus = a
  BY <1>0, <1>1, ReadyIsLive
<1>3. /\ \A u \in Tasks \ {t} : pc'[u] = pc[u]
      /\ pc'[t] = "platform_remove"
  BY <1>1 DEF TypeOK
<1>4. Users(a)' = Users(a) \ {t} /\ t \in Users(a)
  BY <1>1, <1>2, <1>3 DEF Users
<1>5. ASSUME NEW d \in Descs \ {a} PROVE Users(d)' = Users(d)
  BY <1>1, <1>2, <1>3 DEF Users
<1>6. /\ heap[a].slave_number = Cardinality(Users(a))
      /\ \A c \in Buses : table[c] = a => c = on
  BY <1>0, <1>2 DEF HeldInv, Entries, IsLive
<1>7. Cardinality(Users(a)') = n /\ n \in Nat
  <2>1. Cardinality(Users(a)) \in Nat
    BY UsersFinite, FS_CardinalityType
  <2>2. Cardinality(Users(a)') = Cardinality(Users(a)) - 1
    BY <1>4, UsersFinite, FS_RemoveElement
  <2>3. Cardinality(Users(a)') \in Nat
    BY UsersFinite, FS_CardinalityType
  <2> QED
    BY <1>0, <1>6, <2>1, <2>2, <2>3
<1>8. /\ UNCHANGED wild
      /\ \/ /\ n = 0
            /\ heap' = [heap EXCEPT ![a].live = FALSE]
            /\ table' = [table EXCEPT ![on] = Null]
         \/ /\ n # 0
            /\ heap' = [heap EXCEPT ![a].slave_number = n]
            /\ UNCHANGED table
  <2>1. heap[a].slave_number > 0 /\ heap[a].slave_number \in Nat
    BY <1>0, <1>1, <1>2, <1>7 DEF TypeOK
  <2> QED
    BY <1>0, <1>2, <2>1 DEF Detach, IsLast
<1>9. \A d \in Descs \ {a} : heap'[d] = heap[d]
  BY <1>1, <1>8 DEF TypeOK
<1>10. \A b \in Buses : \/ table'[b] = table[b]
                        \/ b = on /\ n = 0 /\ table'[b] = Null
  BY <1>1, <1>8 DEF TypeOK
<1>11. Places'
  <2> SUFFICES ASSUME NEW u \in Tasks PROVE Places!(u)'
    BY DEF Places
  <2>1. CASE u = t
    BY <2>1, <1>1, <1>3
  <2>2. CASE u # t
    <3>1. pc'[u] = pc[u] /\ dev'[u] = dev[u] /\ dev[u].on \in Buses
      BY <2>2, <1>1, <1>3 DEF TypeOK
    <3>2. pc[u] \notin {"new_bus", "platform_init", "attach"}
      BY <2>2, <1>1 DEF HeldInv, OneConfigures, Configuring
    <3> QED
      BY <3>1, <3>2 DEF HeldInv, Places
  <2> QED
    BY <2>1, <2>2
<1>12. Entries'
  <2> SUFFICES ASSUME NEW b \in Buses, table'[b] # Null
               PROVE  Entries!(b)!2'
    BY DEF Entries
  <2>1. table'[b] = table[b]
    BY <1>10
  <2>2. \A c \in Buses : table'[c] = table'[b] => c = b
    BY <2>1, <1>10 DEF HeldInv, Entries
  <2>3. CASE table[b] = a
    <3>1. b = on
      BY <2>3, <1>6
    <3>2. n # 0
      BY <3>1, <1>1, <1>8 DEF TypeOK
    <3>3. heap'[a].live /\ heap'[a].slave_number = n
      BY <3>2, <1>1, <1>2, <1>8 DEF TypeOK, IsLive
    <3> QED
      BY <2>1, <2>2, <2>3, <3>3, <1>7
  <2>4. CASE table[b] # a
    <3>1. table[b] \in Descs \ {a}
      BY <2>1, <2>4, <1>1 DEF TypeOK
    <3>2. heap[table[b]].live /\ heap[table[b]].slave_number = Cardinality(Users(table[b]))
      BY <2>1 DEF HeldInv, Entries
    <3> QED
      BY <2>1, <2>2, <3>1, <3>2, <1>5, <1>9
  <2> QED
    BY <2>3, <2>4
<1>13. Refers'
  <2> SUFFICES ASSUME NEW u \in Tasks, dev[u].ready, ~Off(u)'
               PROVE  dev[u].bus # Null /\ dev[u].bus = table'[dev[u].on]
    BY <1>1 DEF Refers
  <2>1. u # t /\ pc'[u] = pc[u]
    BY <1>3
  <2>2. dev[u].bus # Null /\ dev[u].bus = table[dev[u].on] /\ dev[u].on \in Buses
    BY <2>1, <1>1 DEF HeldInv, Refers, TypeOK
  <2>3. ~(dev[u].on = on /\ n = 0)
    <3> SUFFICES ASSUME dev[u].on = on PROVE n # 0
      OBVIOUS
    <3>1. u \in Users(a)'
      BY <2>1, <2>2, <1>0, <1>1 DEF Users
    <3> QED
      BY <3>1, <1>7, UsersFinite, FS_EmptySet
  <2> QED
    BY <2>2, <2>3, <1>10
<1> QED
  BY <1>8, <1>11, <1>12, <1>13 DEF HeldInv

\* The platform frees the descriptor, or the program gives it up, of a device that
\* slave_number no longer counts.
LEMMA GoneStep ==
  ASSUME HeldInv, TypeOK', NEW t \in Tasks, Off(t), Gone(t)
  PROVE  ~wild' /\ Places' /\ Entries' /\ Refers'
<1>1. /\ TypeOK /\ Off(t) /\ UNCHANGED <<table, heap, wild>>
      /\ pc' = [pc EXCEPT ![t] = "idle"]
  BY DEF Gone, Goes, HeldInv
<1>2. /\ \A u \in Tasks \ {t} : dev'[u] = dev[u] /\ pc'[u] = pc[u]
      /\ pc'[t] = "idle" /\ ~dev'[t].ready
  BY <1>1 DEF Gone, TypeOK
<1>3. ASSUME NEW d PROVE Users(d)' = Users(d)
  BY <1>1, <1>2 DEF Users
<1>4. Places'
  BY <1>1, <1>2 DEF HeldInv, Places
<1>5. Entries'
  BY <1>1, <1>3 DEF HeldInv, Entries
<1>6. Refers'
  BY <1>1, <1>2 DEF HeldInv, Refers
<1> QED
  BY <1>1, <1>4, <1>5, <1>6 DEF HeldInv

\* Every other step only moves its task or changes the mutex of its bus.
LEMMA QuietStep ==
  ASSUME HeldInv, TypeOK', NEW t \in Tasks, UNCHANGED <<table, dev>>, ~wild',
         NEW place, pc' = [pc EXCEPT ![t] = place],
         ~Off(t),
         place \notin {"new_bus", "attach", "platform_init", "platform_remove", "half"},
         place # "idle" => dev[t].ready,
         \A a \in Descs : /\ heap'[a].live = heap[a].live
                          /\ heap'[a].slave_number = heap[a].slave_number
  PROVE  ~wild' /\ Places' /\ Entries' /\ Refers'
<1>1. \A u \in Tasks : pc'[u] = IF u = t THEN place ELSE pc[u]
  BY DEF HeldInv, TypeOK
<1>2. Places'
  BY <1>1 DEF HeldInv, Places
<1>3. Entries' /\ Refers'
  <2>1. \A u \in Tasks : Off(u)' <=> Off(u)
    BY <1>1
  <2> QED
    BY <2>1, Frame DEF HeldInv
<1> QED
  BY <1>2, <1>3

\* Taking the mutex of a bus.
LEMMA LockStep ==
  ASSUME HeldInv, TypeOK', NEW t \in Tasks, NEW place \in {"messages", "on_bus"},
         pc[t] \in {"lock", "outer_lock"}, Lock(t, place)
  PROVE  ~wild' /\ Places' /\ Entries' /\ Refers'
<1>1. dev[t].ready
  BY DEF HeldInv, Places
<1>2. IsLive(dev[t].bus)
  BY <1>1, ReadyIsLive
<1>3. ~wild'
  BY <1>2 DEF Lock, HeldInv
<1>4. \A a \in Descs : /\ heap'[a].live = heap[a].live
                       /\ heap'[a].slave_number = heap[a].slave_number
  BY DEF Lock, HeldInv, TypeOK
<1>5. UNCHANGED <<table, dev>> /\ pc' = [pc EXCEPT ![t] = place]
  BY DEF Lock, Goes
<1> QED
  BY <1>1, <1>3, <1>4, <1>5, QuietStep

\* Giving it back.
LEMMA UnlockStep ==
  ASSUME HeldInv, TypeOK', NEW t \in Tasks, NEW place \in {"messages", "idle"},
         pc[t] \in {"messages", "on_bus"}, Unlock(t), Goes(t, place)
  PROVE  ~wild' /\ Places' /\ Entries' /\ Refers'
<1>1. dev[t].ready
  BY DEF HeldInv, Places
<1>2. IsLive(dev[t].bus)
  BY <1>1, ReadyIsLive
<1>3. ~wild'
  BY <1>2 DEF Unlock, HeldInv
<1>4. \A a \in Descs : /\ heap'[a].live = heap[a].live
                       /\ heap'[a].slave_number = heap[a].slave_number
  BY DEF Unlock, HeldInv, TypeOK
<1>5. UNCHANGED <<table, dev>> /\ pc' = [pc EXCEPT ![t] = place]
  BY DEF Unlock, Goes
<1> QED
  BY <1>1, <1>3, <1>4, <1>5, QuietStep

\* Every step of a task keeps the table and the counts right, but for using a
\* device whose removal failed.
LEMMA HeldStep ==
  ASSUME Serial, HeldInv, [Next]_vars, ~reused'
  PROVE  HeldInv'
<1>1. TypeOK /\ TypeOK' /\ OneConfigures'
  BY TypeStep, ConfigureStep DEF HeldInv
<1> DEFINE Kept == ~wild' /\ Places' /\ Entries' /\ Refers'
<1>2. ASSUME NEW t \in Tasks, InitDevice(t) PROVE Kept
  <2>1. /\ UNCHANGED <<table, heap, dev, wild>> /\ ~dev[t].ready /\ pc[t] = "idle"
        /\ pc' = [pc EXCEPT ![t] = IF table[dev[t].on] # Null THEN "platform_init"
                                   ELSE "new_bus"]
    BY <1>2 DEF InitDevice, Goes, HasBus
  <2>2. \A u \in Tasks : pc'[u] = IF u = t THEN IF table[dev[t].on] # Null
                                                THEN "platform_init" ELSE "new_bus"
                                  ELSE pc[u]
    BY <1>1, <2>1 DEF TypeOK
  <2>3. Places'
    BY <2>1, <2>2 DEF HeldInv, Places
  <2>4. \A u \in Tasks : Off(u)' <=> Off(u)
    BY <2>1, <2>2
  <2> QED
    BY <2>1, <2>3, <2>4, Frame DEF HeldInv
<1>3. ASSUME NEW t \in Tasks, PlatformInit(t) PROVE Kept
  <2>1. /\ UNCHANGED <<table, heap, dev, wild>> /\ pc[t] = "platform_init"
        /\ pc' = [pc EXCEPT ![t] = "attach"]
    BY <1>3 DEF PlatformInit, Goes
  <2>2. \A u \in Tasks : pc'[u] = IF u = t THEN "attach" ELSE pc[u]
    BY <1>1, <2>1 DEF TypeOK
  <2>3. Places'
    BY <2>1, <2>2 DEF HeldInv, Places
  <2>4. \A u \in Tasks : Off(u)' <=> Off(u)
    BY <2>1, <2>2
  <2> QED
    BY <2>1, <2>3, <2>4, Frame DEF HeldInv
<1>4. ASSUME NEW t \in Tasks, NewBusFails(t) \/ PlatformInitFails(t) PROVE Kept
  <2>1. /\ UNCHANGED <<table, heap, dev, wild>> /\ ~Off(t)
        /\ pc' = [pc EXCEPT ![t] = "idle"] /\ ~wild
    BY <1>4 DEF NewBusFails, PlatformInitFails, Goes, HeldInv
  <2> QED
    BY <1>1, <2>1, QuietStep
<1>5. ASSUME NEW t \in Tasks, RemoveDevice(t) PROVE Kept
  <2>1. /\ UNCHANGED <<table, heap, dev, wild>> /\ ~Off(t)
        /\ pc' = [pc EXCEPT ![t] = "detach"] /\ ~wild /\ dev[t].ready
    BY <1>5 DEF RemoveDevice, Goes, HeldInv
  <2> QED
    BY <1>1, <2>1, QuietStep
<1>6. ASSUME NEW t \in Tasks, Transfer(t) PROVE Kept
  <2>1. setup.call \in {"write_and_read", "transfer", "platform_transfer"}
    BY <1>1 DEF TypeOK
  <2>2. PICK place \in {"lock", "outer_lock", "on_bus"} : pc' = [pc EXCEPT ![t] = place]
    BY <1>6, <2>1 DEF Transfer, Goes
  <2>3. /\ UNCHANGED <<table, heap, dev, wild>> /\ ~Off(t)
        /\ ~wild /\ dev[t].ready
    BY <1>6 DEF Transfer, HeldInv
  <2> QED
    BY <1>1, <2>2, <2>3, QuietStep
<1>7. ASSUME NEW t \in Tasks, NextMessage(t) PROVE Kept
  <2>1. /\ UNCHANGED <<table, heap, dev, wild>> /\ ~Off(t)
        /\ pc' = [pc EXCEPT ![t] = "lock"] /\ ~wild /\ dev[t].ready
    BY <1>7 DEF NextMessage, Goes, HeldInv, Places
  <2> QED
    BY <1>1, <2>1, QuietStep
<1>8. ASSUME NEW t \in Tasks, LockOuter(t) \/ LockBus(t) PROVE Kept
  BY <1>1, <1>8, LockStep DEF LockOuter, LockBus
<1>9. ASSUME NEW t \in Tasks, EndMessages(t) PROVE Kept
  BY <1>1, <1>9, UnlockStep DEF EndMessages
<1>10. ASSUME NEW t \in Tasks, EndTransfer(t) PROVE Kept
  <2>1. CASE setup.call = "platform_transfer"
    <3>1. /\ UNCHANGED <<table, heap, dev, wild>> /\ ~Off(t)
          /\ pc' = [pc EXCEPT ![t] = "idle"] /\ ~wild
      BY <1>10, <2>1 DEF EndTransfer, Goes, HeldInv
    <3> QED
      BY <1>1, <3>1, QuietStep
  <2>2. CASE setup.call # "platform_transfer"
    BY <1>1, <1>10, <2>2, UnlockStep DEF EndTransfer
  <2> QED
    BY <2>1, <2>2
<1>11. ASSUME UNCHANGED vars PROVE Kept
  BY <1>11, Frame DEF vars, HeldInv, Places
<1> HIDE DEF Kept
<1>12. ASSUME NEW t \in Tasks, NewBus(t) \/ Attach(t) \/ Detach(t)
       PROVE  Kept
  BY <1>1, <1>12, NewBusStep, AttachStep, DetachStep DEF Kept
<1>13. ASSUME NEW t \in Tasks, PlatformRemove(t) \/ Drop(t) PROVE Kept
  BY <1>1, <1>13, GoneStep DEF PlatformRemove, Drop, Kept
<1>14. ASSUME NEW t \in Tasks, PlatformRemoveFails(t) PROVE Kept
  <2>1. /\ UNCHANGED <<table, heap, dev, wild>> /\ pc[t] = "platform_remove"
        /\ pc' = [pc EXCEPT ![t] = "half"]
    BY <1>14 DEF PlatformRemoveFails, Goes
  <2>2. \A u \in Tasks : pc'[u] = IF u = t THEN "half" ELSE pc[u]
    BY <1>1, <2>1 DEF TypeOK
  <2>3. Places'
    BY <2>1, <2>2 DEF HeldInv, Places
  <2>4. \A u \in Tasks : Off(u)' <=> Off(u)
    BY <2>1, <2>2
  <2> QED
    BY <2>1, <2>3, <2>4, Frame DEF HeldInv, Kept
<1>15. ASSUME NEW t \in Tasks, UseAgain(t) PROVE Kept
  BY <1>15 DEF UseAgain
<1>16. Kept
  BY <1>1, <1>2, <1>3, <1>4, <1>5, <1>6, <1>7, <1>8, <1>9, <1>10, <1>11, <1>12,
     <1>13, <1>14, <1>15, NextCases
<1> QED
  BY <1>1, <1>16 DEF HeldInv, Kept

\* That a device was used again is never forgotten.
LEMMA ReusedStays == [Next]_vars /\ ~reused' => ~reused
<1> SUFFICES ASSUME [Next]_vars, ~reused' PROVE ~reused
  OBVIOUS
<1> QED
  BY NextCases DEF InitDevice, NewBus, NewBusFails, PlatformInit, PlatformInitFails,
     Attach, RemoveDevice, Detach, PlatformRemove, PlatformRemoveFails, Drop, Gone,
     UseAgain, Transfer, LockOuter, NextMessage, EndMessages, LockBus, EndTransfer,
     Lock, Unlock, vars

\* The invariant holds from the start.
LEMMA HeldInit == Init => HeldInv
<1> SUFFICES ASSUME Init PROVE HeldInv
  OBVIOUS
<1>1. \A t \in Tasks : ~dev[t].ready /\ pc[t] = "idle"
  BY DEF Init
<1>2. \A b \in Buses : table[b] = Null
  BY DEF Init
<1>3. ~wild
  BY DEF Init
<1> QED
  BY <1>1, <1>2, <1>3, TypeInit
     DEF HeldInv, OneConfigures, Configuring, Places, Entries, Refers

\* When devices are initialized and removed by one task at a time, the bus of a
\* device is allocated, is the one in spi_table / i2c_table and counts exactly its
\* devices, whatever allocation, platform initialization or removal failed before,
\* as long as no program goes on with a device whose removal failed.
THEOREM BusIsHeld ==
  ASSUME Serial PROVE Spec => []BusHeld
<1> DEFINE Inv == ~reused => HeldInv
<1>1. Inv => BusHeld
  <2> SUFFICES ASSUME HeldInv PROVE EveryBusHeld
    BY DEF BusHeld
  <2>1. ASSUME NEW t \in Tasks, dev[t].ready, ~Off(t)
        PROVE  heap[dev[t].bus].slave_number = Cardinality(Users(dev[t].bus))
    BY <2>1, ReadyIsLive DEF HeldInv, Entries, IsLive
  <2> QED
    BY <2>1, ReadyIsLive DEF EveryBusHeld, HeldInv
<1>2. Inv /\ [Next]_vars => Inv'
  BY HeldStep, ReusedStays
<1>3. Init => Inv
  BY HeldInit
<1> QED
  BY <1>1, <1>2, <1>3, PTL DEF Spec

-----------------------------------------------------------------------------
(* OneOnBus *)

\* The tasks whose transfer has the mutex of their bus.
Holding(t) == \/ pc[t] \in {"messages", "on_bus"}
              \/ pc[t] = "lock" /\ setup.call = "transfer"

\* Two holders are never on the same descriptor.
LEMMA HoldersDiffer ==
  ASSUME Holds, NEW t \in Tasks, NEW u \in Tasks, Holding(t), Holding(u),
         dev[t].bus = dev[u].bus
  PROVE  t = u
  BY DEF Holds, Holding

\* A step that takes no mutex and gives none back leaves every holder its own.
LEMMA HoldersKeep ==
  ASSUME HeldInv, Holds, NEW t \in Tasks, UNCHANGED setup,
         \A u \in Tasks \ {t} : pc'[u] = pc[u] /\ dev'[u] = dev[u],
         \A u \in Tasks \ {t} : Holding(u) =>
           heap'[dev[u].bus].mutex = heap[dev[u].bus].mutex,
         Holds!(t)'
  PROVE  Holds'
  BY DEF Holds, Holding

\* A mutex is taken when nobody has it and given back by the task that has it.
LEMMA HoldsStep ==
  ASSUME Locking, HeldInv, Holds, [Next]_vars
  PROVE  Holds'
<1>1. TypeOK /\ TypeOK' /\ setup \in Setups
  BY TypeStep DEF HeldInv, TypeOK
<1>2. \A u \in Tasks : Holding(u) =>
        /\ dev[u].ready /\ ~Off(u) /\ dev[u].bus \in Descs
        /\ IsLive(dev[u].bus) /\ heap[dev[u].bus].mutex = u
  BY ReadyIsLive DEF HeldInv, Places, Holds, Holding
<1>3. setup.call \in {"write_and_read", "transfer"}
  BY <1>1 DEF Locking
<1>4. ASSUME NEW t \in Tasks,
             \/ InitDevice(t) \/ NewBusFails(t) \/ PlatformInit(t)
             \/ PlatformInitFails(t) \/ RemoveDevice(t) \/ PlatformRemoveFails(t)
             \/ UseAgain(t) \/ Transfer(t)
      PROVE  Holds'
  <2>1. PICK place : /\ pc' = [pc EXCEPT ![t] = place] /\ UNCHANGED <<setup, heap, dev>>
                     /\ place \notin {"messages", "on_bus"}
                     /\ setup.call = "transfer" => place # "lock"
    BY <1>3, <1>4 DEF InitDevice, NewBusFails, PlatformInit, PlatformInitFails,
                      RemoveDevice, PlatformRemoveFails, UseAgain, Transfer, Goes
  <2> QED
    BY <1>1, <2>1, HoldersKeep DEF TypeOK
<1>5. ASSUME NEW t \in Tasks, NewBus(t) PROVE Holds'
  <2>1. PICK a \in Descs : ~heap[a].live /\ heap' = [heap EXCEPT ![a] =
                                                       [NoDesc EXCEPT !.live = TRUE]]
    BY <1>5 DEF NewBus
  <2>2. pc' = [pc EXCEPT ![t] = "platform_init"] /\ UNCHANGED <<setup, dev>>
    BY <1>5 DEF NewBus, Goes
  <2>3. \A u \in Tasks : Holding(u) => heap'[dev[u].bus] = heap[dev[u].bus]
    BY <1>1, <1>2, <2>1 DEF TypeOK, IsLive
  <2> QED
    BY <1>1, <2>2, <2>3, HoldersKeep DEF TypeOK
<1>6. ASSUME NEW t \in Tasks, Attach(t) \/ Detach(t) PROVE Holds'
  <2>1. \A d \in Descs : heap'[d].mutex = heap[d].mutex
    <3>1. CASE Attach(t)
      BY <1>1, <3>1 DEF Attach, TypeOK
    <3>2. CASE Detach(t)
      <4>1. \/ UNCHANGED heap
            \/ \E a : heap' = [heap EXCEPT ![a].live = FALSE]
            \/ \E a, n : heap' = [heap EXCEPT ![a].slave_number = n]
        BY <3>2, Zenon DEF Detach
      <4> QED
        BY <1>1, <4>1 DEF TypeOK
    <3> QED
      BY <1>6, <3>1, <3>2
  <2>2. /\ \A u \in Tasks \ {t} : pc'[u] = pc[u] /\ dev'[u] = dev[u]
        /\ pc'[t] \in {"idle", "platform_remove"} /\ UNCHANGED setup
    BY <1>1, <1>6 DEF Attach, Detach, Goes, TypeOK
  <2> QED
    BY <1>2, <2>1, <2>2, HoldersKeep
<1>7. ASSUME NEW t \in Tasks, PlatformRemove(t) \/ Drop(t) PROVE Holds'
  <2>1. /\ \A u \in Tasks \ {t} : pc'[u] = pc[u] /\ dev'[u] = dev[u]
        /\ pc'[t] = "idle" /\ UNCHANGED <<setup, heap>>
    BY <1>1, <1>7 DEF PlatformRemove, Drop, Gone, Goes, TypeOK
  <2> QED
    BY <2>1, HoldersKeep
<1>8. ASSUME NEW t \in Tasks, NextMessage(t) PROVE Holds'
  <2>1. /\ \A u \in Tasks \ {t} : pc'[u] = pc[u] /\ dev'[u] = dev[u]
        /\ pc[t] = "messages" /\ pc'[t] = "lock" /\ UNCHANGED <<setup, heap, dev>>
    BY <1>1, <1>8 DEF NextMessage, Goes, TypeOK
  <2>2. heap[dev[t].bus].mutex = t
    BY <2>1 DEF Holds
  <2> QED
    BY <2>1, <2>2, HoldersKeep
<1>9. ASSUME NEW t \in Tasks, NEW place \in {"messages", "on_bus"}, Lock(t, place),
             place = "on_bus" => pc[t] = "lock"
      PROVE  Holds'
  <2> DEFINE a == dev[t].bus
  <2>1. /\ a \in Descs /\ heap[a].mutex = NoTask
        /\ heap' = [heap EXCEPT ![a].mutex = t]
        /\ pc' = [pc EXCEPT ![t] = place] /\ UNCHANGED <<setup, dev>>
    BY <1>1, <1>9 DEF Lock, Goes, TypeOK
  <2>2. \A u \in Tasks : Holding(u) => dev[u].bus # a
    BY <1>2, <2>1
  <2>3. /\ heap'[a].mutex = t
        /\ \A d \in Descs \ {a} : heap'[d] = heap[d]
    BY <1>1, <2>1 DEF TypeOK
  <2>4. \A u \in Tasks : Holding(u) => heap'[dev[u].bus] = heap[dev[u].bus]
    BY <1>2, <2>2, <2>3
  <2>5. place = "on_bus" => setup.call # "transfer"
    BY <1>9, <2>2 DEF Holding
  <2>6. \A u \in Tasks : pc'[u] = IF u = t THEN place ELSE pc[u]
    BY <1>1, <2>1 DEF TypeOK
  <2>7. Holds!(t)'
    BY <2>1, <2>3, <2>5, <2>6
  <2>8. \A u \in Tasks \ {t} : pc'[u] = pc[u] /\ dev'[u] = dev[u]
    BY <2>1, <2>6
  <2>9. \A u \in Tasks \ {t} : Holding(u) =>
          heap'[dev[u].bus].mutex = heap[dev[u].bus].mutex
    BY <2>4
  <2> HIDE DEF a
  <2> QED
    BY <2>1, <2>7, <2>8, <2>9, HoldersKeep
<1>10. ASSUME NEW t \in Tasks, pc[t] \in {"messages", "on_bus"}, Unlock(t),
              Goes(t, "idle")
       PROVE  Holds'
  <2> DEFINE a == dev[t].bus
  <2>1. /\ a \in Descs /\ heap[a].mutex = t
        /\ heap' = [heap EXCEPT ![a].mutex = NoTask]
        /\ pc' = [pc EXCEPT ![t] = "idle"] /\ UNCHANGED <<setup, dev>>
    BY <1>2, <1>10 DEF Unlock, Goes, Holding
  <2>2. \A u \in Tasks \ {t} : Holding(u) => dev[u].bus # a
    BY <1>2, <2>1
  <2>3. \A d \in Descs \ {a} : heap'[d] = heap[d]
    BY <1>1, <2>1 DEF TypeOK
  <2>4. \A u \in Tasks \ {t} : Holding(u) => heap'[dev[u].bus] = heap[dev[u].bus]
    BY <1>2, <2>2, <2>3
  <2>5. \A u \in Tasks : pc'[u] = IF u = t THEN "idle" ELSE pc[u]
    BY <1>1, <2>1 DEF TypeOK
  <2>6. /\ \A u \in Tasks \ {t} : pc'[u] = pc[u] /\ dev'[u] = dev[u]
        /\ pc'[t] = "idle" /\ UNCHANGED setup
    BY <2>1, <2>5
  <2> HIDE DEF a
  <2> QED
    BY <2>4, <2>6, HoldersKeep
<1>11. ASSUME NEW t \in Tasks, LockOuter(t) \/ LockBus(t) PROVE Holds'
  BY <1>9, <1>11 DEF LockOuter, LockBus
<1>12. ASSUME NEW t \in Tasks, EndMessages(t) PROVE Holds'
  BY <1>10, <1>12 DEF EndMessages
<1>13. ASSUME NEW t \in Tasks, EndTransfer(t) PROVE Holds'
  <2>1. pc[t] = "on_bus" /\ setup.call = "write_and_read"
    BY <1>3, <1>13 DEF EndTransfer, Holds
  <2> QED
    BY <1>10, <1>13, <2>1 DEF EndTransfer
<1>14. CASE UNCHANGED vars
  BY <1>14 DEF vars, Holds
<1> QED
  BY <1>4, <1>5, <1>6, <1>7, <1>8, <1>11, <1>12, <1>13, <1>14, NextCases

\* When devices come and go one at a time and the transfer function is one that
\* locks, no two tasks are ever inside a transfer on the same bus, for any number
\* of tasks, devices and buses, as long as no program goes on with a device whose
\* removal failed.
THEOREM OneTaskOnBus ==
  ASSUME Serial, Locking PROVE Spec => []OneOnBus
<1> DEFINE Inv == ~reused => HeldInv /\ Holds
<1>1. Init => Inv
  <2>1. Init => Holds
    BY DEF Init, Holds
  <2> QED
    BY <2>1, HeldInit
<1>2. Inv /\ [Next]_vars => Inv'
  BY HeldStep, HoldsStep, ReusedStays
<1>3. Inv => OneOnBus
  <2> SUFFICES ASSUME HeldInv, Holds, NEW t \in Tasks, NEW u \in Tasks, pc[t] = "on_bus",
                      pc[u] = "on_bus", t # u, dev[t].on = dev[u].on
               PROVE  FALSE
    BY DEF OneOnBus, EveryOneOnBus
  <2>1. dev[t].ready /\ dev[u].ready
    BY DEF HeldInv, Places
  <2>2. dev[t].bus = table[dev[t].on] /\ dev[u].bus = table[dev[u].on]
    BY <2>1, ReadyIsLive
  <2> QED
    BY <2>2, HoldersDiffer DEF Holding
<1> QED
  BY <1>1, <1>2, <1>3, PTL DEF Spec
=============================================================================
