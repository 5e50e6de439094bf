-------------------------- MODULE IioDeviceProofs --------------------------
(***************************************************************************)
(* Proofs about IioDevice for any number of devices and triggers, any      *)
(* number of events and every set of applications.                         *)
(***************************************************************************)
EXTENDS IioDevice, TLAPS

-----------------------------------------------------------------------------
(* Inductive invariants *)

\* Without SETTRIG the devices keep the triggers of iio_init.
KeepsTrigger == ~setup.retrigger => trig_idx = setup.init_trig

\* A device is active from the first step of OPEN on.
OpeningActive == pc \in {"open_alloc", "open_enable"} => active[cur]

\* An enabled interrupt has an open device.
StrayInv ==
  /\ OpeningActive
  /\ Steady => \A t \in irq : \E d \in Linked(t) : active[d]

\* A hardware trigger all of whose devices are open is armed, unless an OPEN is
\* about to arm it.
ArmedInv ==
  /\ KeepsTrigger
  /\ Steady => \A t \in Trigs \ setup.soft :
       Linked(t) # {} /\ (\A d \in Linked(t) : active[d])
         => t \in irq \/ (pc \in {"open_alloc", "open_enable"} /\ cur \in Linked(t))

\* The scan of iio_process_async_triggers has gone past the handler of device d.
Passed(d) == (pc = "scan" /\ cur > d) \/ (pc = "clear" /\ cur >= d)

\* The scan has not yet come past the clearing of flag t.
Uncleared(t) == pc \in {"scan", "clear"} /\ cur <= t

\* The flag of the trigger of device d, if set, may stand for an event whose
\* handler has already run: between the handler of d and the next clearing of
\* the flag, which follows in the same scan when d comes before the device that
\* has the index of the trigger, and in the next one when it comes after.
Served(d) ==
  IF d <= trig_idx[d]
  THEN Passed(d) /\ Uncleared(trig_idx[d])
  ELSE Passed(d) \/ pc \notin {"scan", "clear"} \/ Uncleared(trig_idx[d])

\* What is kept for device d.
OnceOf(d) ==
  /\ calls[d] <= events[d]
  /\ Pending(d) /\ ~Served(d) => calls[d] < events[d]

\* A flag that is set stands for an event whose handler has not run, except
\* where Served says otherwise; synchronous triggers have no flag.
OnceInv ==
  /\ KeepsTrigger
  /\ \A t \in setup.sync : ~triggered[t]
  /\ ~setup.retrigger => \A d \in Devs : Cleared(trig_idx[d]) => OnceOf(d)

-----------------------------------------------------------------------------

USE DeviceAssumption DEF Devs, Trigs, NoTrigger

\* What an application may have set up.
LEMMA SetupType ==
  ASSUME setup \in Setups
  PROVE  /\ setup.sync \subseteq Trigs
         /\ setup.soft \subseteq Trigs
         /\ setup.init_trig \in [Devs -> Trigs \union {NoTrigger}]
         /\ setup.handled \subseteq Devs
  BY DEF Setup

\* The loop of iio_process_async_triggers stays inside desc->devs.
LEMMA NextDevType ==
  ASSUME cur \in Devs, NextDev
  PROVE  cur' \in Devs /\ pc' \in {"scan", "serve"}
  BY DEF NextDev

\* A run of handlers keeps the counters in their range.
LEMMA RunType ==
  ASSUME TypeOK, NEW D, RunHandlers(D)
  PROVE  calls' \in [Devs -> Nat] /\ fault' \in BOOLEAN
<1>1. calls' \in [Devs -> Nat]
  BY DEF RunHandlers, TypeOK
<1>2. fault' \in BOOLEAN
  BY Zenon DEF RunHandlers
<1> QED
  BY <1>1, <1>2

\* iio_process_trigger_type touches only flags and counters.
LEMMA ProcessType ==
  ASSUME TypeOK, NEW t \in Trigs, ProcessTrigger(t)
  PROVE  /\ events' \in [Devs -> Nat] /\ calls' \in [Devs -> Nat]
         /\ fault' \in BOOLEAN /\ unseen' \subseteq Devs
         /\ triggered' \in [Trigs -> BOOLEAN]
<1>1. events' \in [Devs -> Nat]
  BY DEF ProcessTrigger, TypeOK
<1>2. calls' \in [Devs -> Nat] /\ fault' \in BOOLEAN
  BY RunType DEF ProcessTrigger, TypeOK
<1>3. unseen' \subseteq Devs
  BY SetupType DEF ProcessTrigger, TypeOK
<1>4. triggered' \in [Trigs -> BOOLEAN]
  <2>1. (triggered[t] \/ Linked(t) # {}) \in BOOLEAN
    BY Zenon
  <2>2. \/ triggered' = triggered
        \/ triggered' = [triggered EXCEPT ![t] = triggered[t] \/ Linked(t) # {}]
    BY DEF ProcessTrigger
  <2> QED
    BY <2>1, <2>2 DEF TypeOK
<1> QED
  BY <1>1, <1>2, <1>3, <1>4

\* Freeing a buffer.
LEMMA FreeType ==
  ASSUME TypeOK, NEW d \in Devs, Free(d)
  PROVE  /\ mem' \in [Devs -> {"none", "live", "static", "freed"}]
         /\ allocated' \in [Devs -> BOOLEAN]
  BY DEF Free, TypeOK

\* Every step leaves every variable in its range.
LEMMA TypeStep == TypeOK /\ [Next]_vars => TypeOK'
<1> SUFFICES ASSUME TypeOK, [Next]_vars PROVE TypeOK'
  OBVIOUS
<1> USE DEF link, buffer, main, history
<1>1. CASE ScanSkip
  BY <1>1, NextDevType DEF ScanSkip, TypeOK
<1>2. CASE ScanHandle
  <2>1. calls' \in [Devs -> Nat] /\ fault' \in BOOLEAN
    BY <1>2, RunType DEF ScanHandle
  <2> QED
    BY <1>2, <2>1 DEF ScanHandle, TypeOK
<1>3. CASE ScanClear
  <2>1. triggered' \in [Trigs -> BOOLEAN]
    BY <1>3 DEF ScanClear, TypeOK
  <2> QED
    BY <1>3, <2>1, NextDevType DEF ScanClear, TypeOK
<1>4. CASE NoCommand
  BY <1>4 DEF NoCommand, Done, TypeOK
<1>5. CASE SetTrigger
  BY <1>5 DEF SetTrigger, Done, TypeOK
<1>6. CASE TriggerNow
  <2>1. PICK t \in Trigs : ProcessTrigger(t)
    BY <1>6, SetupType DEF TriggerNow, TypeOK
  <2>2. /\ events' \in [Devs -> Nat] /\ calls' \in [Devs -> Nat]
        /\ fault' \in BOOLEAN /\ unseen' \subseteq Devs
        /\ triggered' \in [Trigs -> BOOLEAN]
    BY <2>1, ProcessType
  <2> QED
    BY <1>6, <2>2 DEF TriggerNow, Done, TypeOK
<1>7. CASE OpenFree
  <2>1. PICK d \in Devs : OpenFree!2!(d)
    BY <1>7 DEF OpenFree
  <2>2. active' \in [Devs -> BOOLEAN]
    BY <2>1 DEF TypeOK
  <2> QED
    BY <1>7, <2>1, <2>2, FreeType DEF OpenFree, TypeOK
<1>8. CASE OpenAlloc
  <2>1. /\ mem' \in [Devs -> {"none", "live", "static", "freed"}]
        /\ allocated' \in [Devs -> BOOLEAN]
    BY <1>8 DEF OpenAlloc, TypeOK
  <2> QED
    BY <1>8, <2>1 DEF OpenAlloc, TypeOK
<1>9. CASE OpenFails
  <2>1. /\ mem' \in [Devs -> {"none", "live", "static", "freed"}]
        /\ allocated' \in [Devs -> BOOLEAN]
    BY <1>9, FreeType DEF OpenFails, TypeOK
  <2> QED
    BY <1>9, <2>1 DEF OpenFails, Done, TypeOK
<1>10. CASE OpenEnable
  <2>1. irq' \subseteq Trigs
    BY <1>10 DEF OpenEnable, TypeOK
  <2> QED
    BY <1>10, <2>1 DEF OpenEnable, Done, TypeOK
<1>11. CASE CloseFree
  BY <1>11, FreeType DEF CloseFree, TypeOK
<1>12. CASE CloseDisable
  <2>1. active' \in [Devs -> BOOLEAN] /\ irq' \subseteq Trigs
    BY <1>12 DEF CloseDisable, TypeOK
  <2> QED
    BY <1>12, <2>1 DEF CloseDisable, Done, TypeOK
<1>13. CASE CloseFails
  BY <1>13 DEF CloseFails, Done, TypeOK
<1>14. ASSUME NEW t \in Trigs, Interrupt(t) PROVE TypeOK'
  BY <1>14, ProcessType DEF Interrupt, TypeOK
<1>15. CASE UNCHANGED vars
  BY <1>15 DEF vars, TypeOK
<1> QED
  BY <1>1, <1>2, <1>3, <1>4, <1>5, <1>6, <1>7, <1>8, <1>9, <1>10, <1>11, <1>12,
     <1>13, <1>14, <1>15 DEF Next, MainStep

\* The ranges hold after iio_init.
LEMMA TypeInit == Init => TypeOK
<1> SUFFICES ASSUME Init PROVE TypeOK
  OBVIOUS
<1>1. trig_idx \in [Devs -> Trigs \union {NoTrigger}]
  BY SetupType DEF Init
<1>2. /\ triggered \in [Trigs -> BOOLEAN] /\ cur \in Devs
      /\ mem \in [Devs -> {"none", "live", "static", "freed"}]
      /\ allocated \in [Devs -> BOOLEAN] /\ active \in [Devs -> BOOLEAN]
  BY DEF Init
<1>3. events \in [Devs -> Nat] /\ calls \in [Devs -> Nat]
  BY DEF Init
<1> QED
  BY <1>1, <1>2, <1>3 DEF Init, TypeOK

\* Every variable stays in its range: iio_process_async_triggers never looks
\* past desc->devs, for every application.
THEOREM TypeCorrect == Spec => []TypeOK
  BY TypeInit, TypeStep, PTL DEF Spec

-----------------------------------------------------------------------------
(* AllocatedIsLive *)

\* Freeing keeps the mark true of every buffer.
LEMMA FreeTrue ==
  ASSUME TypeOK, AllocatedIsLive, NEW d \in Devs, Free(d)
  PROVE  AllocatedIsLive'
  BY DEF TypeOK, AllocatedIsLive, Free

\* "allocated" tells the truth about the memory of every buffer, whatever the
\* order of OPEN and CLOSE and whichever allocation or driver callback fails.
THEOREM AllocatedTrue == Spec => []AllocatedIsLive
<1> DEFINE Inv == TypeOK /\ AllocatedIsLive
<1>1. Init => Inv
  BY TypeInit DEF Init, AllocatedIsLive
<1>2. Inv /\ [Next]_vars => Inv'
  <2> SUFFICES ASSUME Inv, [Next]_vars PROVE AllocatedIsLive'
    BY TypeStep
  <2>1. CASE UNCHANGED <<mem, allocated>>
    BY <2>1 DEF AllocatedIsLive
  <2>2. CASE OpenFree
    BY <2>2, FreeTrue DEF OpenFree
  <2>3. CASE OpenAlloc
    BY <2>3 DEF OpenAlloc, TypeOK, AllocatedIsLive
  <2>4. CASE OpenFails
    BY <2>1, <2>4, FreeTrue DEF OpenFails, TypeOK
  <2>5. CASE CloseFree
    BY <2>5, FreeTrue DEF CloseFree
  <2>6. CASE \/ ScanSkip \/ ScanHandle \/ ScanClear \/ NoCommand \/ SetTrigger
             \/ TriggerNow \/ OpenEnable \/ CloseDisable \/ CloseFails
             \/ (\E t \in Trigs : Interrupt(t)) \/ UNCHANGED vars
    BY <2>1, <2>6 DEF ScanSkip, ScanHandle, ScanClear, NoCommand, SetTrigger,
                      TriggerNow, OpenEnable, CloseDisable, CloseFails, Interrupt,
                      buffer, vars
  <2> QED
    BY <2>2, <2>3, <2>4, <2>5, <2>6 DEF Next, MainStep
<1> QED
  BY <1>1, <1>2, PTL DEF Spec

-----------------------------------------------------------------------------
(* NoStrayInterrupt *)

\* The actions that change neither irq nor the devices and links it depends on,
\* and leave OPEN.
LEMMA StrayQuiet ==
  ASSUME StrayInv, UNCHANGED <<setup, trig_idx, irq, active>>,
         \/ UNCHANGED main
         \/ pc' \notin {"open_alloc", "open_enable"}
         \/ pc \in {"open_alloc", "open_enable"} /\ UNCHANGED cur
  PROVE  StrayInv'
  BY DEF StrayInv, OpeningActive, Steady, Linked, main

\* While the triggers stay and no callback fails, no trigger interrupt is enabled
\* without an open device linked to it, whichever devices share the trigger.
THEOREM NoneStray == Spec => []NoStrayInterrupt
<1> DEFINE Inv == TypeOK /\ StrayInv
<1>1. Init => Inv
  BY TypeInit DEF Init, StrayInv, OpeningActive
<1>2. Inv /\ [Next]_vars => Inv'
  <2> SUFFICES ASSUME Inv, [Next]_vars PROVE StrayInv'
    BY TypeStep
  <2>1. CASE ScanSkip \/ ScanHandle \/ ScanClear
    BY <2>1, StrayQuiet, NextDevType DEF ScanSkip, ScanHandle, ScanClear, link, buffer, TypeOK
  <2>2. CASE NoCommand \/ TriggerNow \/ CloseFails \/ CloseFree
    BY <2>2, StrayQuiet DEF NoCommand, TriggerNow, CloseFails, CloseFree, Done, link,
                            buffer
  <2>3. CASE OpenAlloc \/ OpenFails
    BY <2>3, StrayQuiet DEF OpenAlloc, OpenFails, Done, link
  <2>4. CASE SetTrigger
    BY <2>4 DEF SetTrigger, Done, StrayInv, OpeningActive, Steady
  <2>5. CASE OpenFree
    BY <2>5 DEF OpenFree, link, StrayInv, OpeningActive, Steady, Linked, TypeOK
  <2>6. CASE OpenEnable
    BY <2>6 DEF OpenEnable, Done, buffer, StrayInv, OpeningActive, Steady, Linked, TypeOK
  <2>7. CASE CloseDisable
    <3>1. ASSUME NEW t \in irq \ {trig_idx[cur]}, NEW d \in Linked(t), active[d]
          PROVE  active'[d]
      BY <2>7, <3>1 DEF CloseDisable, Linked, TypeOK
    <3> QED
      BY <2>7, <3>1 DEF CloseDisable, Done, StrayInv, OpeningActive, Steady, Linked
  <2>8. CASE \E t \in Trigs : Interrupt(t)
    BY <2>8, StrayQuiet DEF Interrupt, buffer
  <2>9. CASE UNCHANGED vars
    BY <2>9, StrayQuiet DEF vars, link, buffer
  <2> QED
    BY <2>1, <2>2, <2>3, <2>4, <2>5, <2>6, <2>7, <2>8, <2>9 DEF Next, MainStep
<1>3. Inv => NoStrayInterrupt
  BY DEF StrayInv, NoStrayInterrupt
<1> QED
  BY <1>1, <1>2, <1>3, PTL DEF Spec

-----------------------------------------------------------------------------
(* ArmedWhileOpen *)

\* setup is fixed and only SETTRIG moves a device to another trigger.
LEMMA TriggerKept ==
  ASSUME KeepsTrigger, [Next]_vars
  PROVE  UNCHANGED setup /\ KeepsTrigger' /\ (~setup.retrigger => UNCHANGED trig_idx)
<1>1. UNCHANGED setup /\ (~setup.retrigger => UNCHANGED trig_idx)
  BY DEF Next, MainStep, ScanSkip, ScanHandle, ScanClear, NoCommand, SetTrigger,
         TriggerNow, OpenFree, OpenAlloc, OpenFails, OpenEnable, CloseFree,
         CloseDisable, CloseFails, Interrupt, link, vars
<1> QED
  BY <1>1 DEF KeepsTrigger

\* While triggers stay and no callback fails, a hardware trigger all of whose
\* devices are open is armed: no order of OPEN and CLOSE of the devices that
\* share it leaves it disarmed.
THEOREM OpenIsArmed == Spec => []ArmedWhileOpen
<1> DEFINE Inv == TypeOK /\ OpeningActive /\ ArmedInv
<1>1. Init => Inv
  BY TypeInit DEF Init, ArmedInv, KeepsTrigger, OpeningActive, Linked
<1>2. Inv /\ [Next]_vars => Inv'
  <2> SUFFICES ASSUME Inv, [Next]_vars PROVE OpeningActive' /\ ArmedInv'
    BY TypeStep
  <2>0. OpeningActive'
    <3>1. CASE OpenFree
      BY <3>1 DEF OpenFree, OpeningActive, TypeOK
    <3>2. CASE OpenAlloc
      BY <3>2 DEF OpenAlloc, OpeningActive
    <3>3. CASE ScanSkip \/ ScanHandle \/ ScanClear
      BY <3>3, NextDevType DEF ScanSkip, ScanHandle, ScanClear, OpeningActive, TypeOK
    <3>4. CASE \/ NoCommand \/ SetTrigger \/ TriggerNow \/ OpenFails \/ OpenEnable
               \/ CloseFree \/ CloseDisable \/ CloseFails
      BY <3>4 DEF NoCommand, SetTrigger, TriggerNow, OpenFails, OpenEnable,
                  CloseFree, CloseDisable, CloseFails, Done, OpeningActive
    <3>5. CASE (\E t \in Trigs : Interrupt(t)) \/ UNCHANGED vars
      BY <3>5 DEF Interrupt, vars, main, buffer, OpeningActive
    <3> QED
      BY <3>1, <3>2, <3>3, <3>4, <3>5 DEF Next, MainStep
  <2>1. UNCHANGED setup /\ KeepsTrigger' /\ (Steady => UNCHANGED trig_idx)
    BY TriggerKept DEF ArmedInv, Steady
  <2> SUFFICES ASSUME Steady, UNCHANGED <<setup, trig_idx>>, NEW t \in Trigs \ setup.soft,
                      Linked(t) # {}, \A d \in Linked(t) : active'[d]
               PROVE  t \in irq' \/ (pc' \in {"open_alloc", "open_enable"} /\ cur' \in Linked(t))
    BY <2>0, <2>1 DEF ArmedInv, Steady, Linked
  <2>2. (\A d \in Linked(t) : active[d]) =>
          t \in irq \/ (pc \in {"open_alloc", "open_enable"} /\ cur \in Linked(t))
    BY DEF ArmedInv
  <2>3. CASE UNCHANGED active /\ irq \subseteq irq' /\ pc \notin {"open_alloc", "open_enable"}
    BY <2>2, <2>3
  <2>4. CASE ScanSkip \/ ScanHandle \/ ScanClear
    BY <2>3, <2>4 DEF ScanSkip, ScanHandle, ScanClear, link, buffer
  <2>5. CASE NoCommand \/ TriggerNow \/ CloseFree
    BY <2>3, <2>5 DEF NoCommand, TriggerNow, CloseFree, link, buffer
  <2>6. CASE OpenFree
    <3>1. PICK e \in Devs : active' = [active EXCEPT ![e] = TRUE] /\ cur' = e
      BY <2>6 DEF OpenFree
    <3>2. CASE e \in Linked(t)
      BY <2>6, <3>1, <3>2 DEF OpenFree
    <3>3. CASE e \notin Linked(t)
      <4>1. \A d \in Linked(t) : active[d]
        BY <3>1, <3>3 DEF TypeOK, Linked
      <4> QED
        BY <2>2, <2>6, <4>1 DEF OpenFree, link
    <3> QED
      BY <3>2, <3>3
  <2>7. CASE OpenAlloc
    BY <2>2, <2>7 DEF OpenAlloc, link
  <2>8. CASE OpenFails \/ CloseFails
    BY <2>8 DEF OpenFails, CloseFails, Steady
  <2>9. CASE OpenEnable
    BY <2>2, <2>9 DEF OpenEnable, buffer, Linked
  <2>10. CASE CloseDisable
    <3>1. cur \notin Linked(t) /\ \A d \in Linked(t) : active[d]
      BY <2>10 DEF CloseDisable, Linked, TypeOK
    <3>2. t # trig_idx[cur]
      BY <3>1 DEF Linked, TypeOK
    <3> QED
      BY <2>2, <2>10, <3>1, <3>2 DEF CloseDisable
  <2>11. CASE SetTrigger
    BY <2>11 DEF SetTrigger, Steady
  <2>12. CASE (\E s \in Trigs : Interrupt(s)) \/ UNCHANGED vars
    BY <2>2, <2>12 DEF Interrupt, vars, link, buffer, main
  <2> QED
    BY <2>4, <2>5, <2>6, <2>7, <2>8, <2>9, <2>10, <2>11, <2>12 DEF Next, MainStep
<1>3. Inv => ArmedWhileOpen
  BY DEF ArmedInv, ArmedWhileOpen, Between
<1> QED
  BY <1>1, <1>2, <1>3, PTL DEF Spec

-----------------------------------------------------------------------------
(* OncePerEvent *)

\* The trigger of a device of which OncePerEvent speaks.
LEMMA ClearedType ==
  ASSUME TypeOK, NEW d \in Devs, Cleared(trig_idx[d])
  PROVE  /\ trig_idx[d] \in Trigs
         /\ trig_idx[d] \notin setup.sync =>
              /\ trig_idx[d] \in Devs /\ trig_idx[d] \in setup.handled
              /\ trig_idx[trig_idx[d]] = trig_idx[d]
  BY SetupType DEF Cleared, TypeOK

\* One event of trigger t: every device linked to it has one event more, and the
\* handlers run at once if the trigger is synchronous.
LEMMA ProcessOnce ==
  ASSUME TypeOK, OnceInv, NEW t \in Trigs, ProcessTrigger(t),
         UNCHANGED <<setup, trig_idx>>,
         \A d \in Devs : trig_idx[d] \in Trigs /\ Served(d) => Served(d)'
  PROVE  OnceInv'
<1>1. \A s \in setup.sync : ~triggered'[s]
  BY SetupType DEF ProcessTrigger, OnceInv, TypeOK
<1>2. KeepsTrigger'
  BY DEF OnceInv, KeepsTrigger
<1>3. ASSUME ~setup.retrigger, NEW d \in Devs, Cleared(trig_idx[d])
      PROVE  OnceOf(d)'
  <2>1. /\ events[d] \in Nat /\ calls[d] \in Nat /\ calls[d] <= events[d]
        /\ Pending(d) /\ ~Served(d) => calls[d] < events[d]
    BY <1>3 DEF OnceInv, OnceOf, TypeOK
  <2>2. events'[d] = IF d \in Linked(t) THEN events[d] + 1 ELSE events[d]
    BY DEF ProcessTrigger
  <2>3. Served(d) => Served(d)'
    BY <1>3, ClearedType
  <2>4. CASE t \in setup.sync
    <3>1. calls'[d] = IF d \in Linked(t) \cap setup.handled /\ calls[d] <= events[d]
                      THEN calls[d] + 1 ELSE calls[d]
      BY <2>4 DEF ProcessTrigger, RunHandlers
    <3>2. triggered' = triggered /\ (d \in Linked(t) => ~Pending(d))
      BY <2>4 DEF ProcessTrigger, Linked, Pending, OnceInv
    <3>3. Pending(d)' <=> Pending(d)
      BY <3>2 DEF Pending
    <3> QED
      BY <2>1, <2>2, <2>3, <3>1, <3>2, <3>3 DEF OnceOf
  <2>5. CASE t \notin setup.sync
    <3>1. calls' = calls
      BY <2>5 DEF ProcessTrigger
    <3>2. d \notin Linked(t) => (Pending(d)' <=> Pending(d))
      BY <2>5 DEF ProcessTrigger, Linked, Pending, TypeOK
    <3> QED
      BY <2>1, <2>2, <2>3, <3>1, <3>2 DEF OnceOf
  <2> QED
    BY <2>4, <2>5
<1> QED
  BY <1>1, <1>2, <1>3 DEF OnceInv, Cleared

\* Outside the scan, and at its start, no flag changes its meaning.
LEMMA OutsideScan ==
  ASSUME TypeOK, UNCHANGED trig_idx,
         pc \notin {"scan", "clear"},
         pc' \notin {"scan", "clear"} \/ Done
  PROVE  \A d \in Devs : trig_idx[d] \in Trigs /\ Served(d) => Served(d)'
  BY DEF Served, Passed, Uncleared, Done, TypeOK

\* A step that touches no flag, link or counter.
LEMMA OnceQuiet ==
  ASSUME TypeOK, OnceInv, UNCHANGED <<setup, trig_idx, triggered, events, calls>>,
         \A d \in Devs : Cleared(trig_idx[d]) /\ Served(d) => Served(d)' \/ ~Pending(d)
  PROVE  OnceInv'
  BY DEF OnceInv, OnceOf, KeepsTrigger, Pending, Cleared

\* A trigger_handler never runs more often than its trigger fired, though
\* interrupts arrive between a handler and the clearing of the flag and several
\* devices share it, for every device whose trigger has its flag cleared.
THEOREM OnePerEvent == Spec => []OncePerEvent
<1> DEFINE Inv == TypeOK /\ OnceInv
<1>1. Init => Inv
  <2> SUFFICES ASSUME Init PROVE OnceInv
    BY TypeInit
  <2>1. \A t \in setup.sync : ~triggered[t]
    BY SetupType DEF Init
  <2>2. \A d \in Devs : ~Pending(d)
    BY SetupType DEF Init, Pending
  <2>3. \A d \in Devs : calls[d] = 0 /\ events[d] = 0
    BY DEF Init
  <2>4. KeepsTrigger
    BY DEF Init, KeepsTrigger
  <2> QED
    BY <2>1, <2>2, <2>3, <2>4 DEF OnceInv, OnceOf
<1>2. Inv /\ [Next]_vars => Inv'
  <2> SUFFICES ASSUME Inv, [Next]_vars PROVE OnceInv'
    BY TypeStep
  <2> USE DEF link, buffer, history
  <2>1. CASE ScanSkip
    <3>1. ASSUME NEW d \in Devs, Cleared(trig_idx[d]), Served(d), Pending(d)
          PROVE  Served(d)'
      <4>1. trig_idx[d] \in Devs \cap Trigs /\ trig_idx[d] # cur
        BY <2>1, <3>1, ClearedType DEF ScanSkip, Pending, OnceInv
      <4>2. pc = "scan" /\ cur \in Devs /\ UNCHANGED trig_idx
        BY <2>1 DEF ScanSkip, TypeOK
      <4>3. \/ pc' = "scan" /\ cur' = cur + 1 /\ cur + 1 < NbDevs
            \/ pc' = "serve" /\ cur + 1 >= NbDevs
        BY <2>1 DEF ScanSkip, NextDev, TypeOK
      <4> QED
        BY <3>1, <4>1, <4>2, <4>3 DEF Served, Passed, Uncleared
    <3> QED
      BY <2>1, <3>1, OnceQuiet DEF ScanSkip
  <2>2. CASE ScanHandle
    <3>1. /\ pc' = "clear" /\ cur' = cur /\ cur \in Devs /\ Pending(cur)
          /\ UNCHANGED <<setup, trig_idx, triggered, events>>
          /\ \A d \in Devs : calls'[d] = IF d = cur /\ calls[d] <= events[d]
                                         THEN calls[d] + 1 ELSE calls[d]
          /\ pc = "scan"
      BY <2>2 DEF ScanHandle, RunHandlers, TypeOK
    <3>2. KeepsTrigger' /\ \A t \in setup.sync : ~triggered'[t]
      BY <3>1 DEF OnceInv, KeepsTrigger
    <3>3. ASSUME ~setup.retrigger, NEW d \in Devs, Cleared(trig_idx[d])
          PROVE  OnceOf(d)'
      <4>1. events[d] \in Nat /\ calls[d] \in Nat /\ trig_idx[d] \in Trigs
        BY <3>3, ClearedType DEF TypeOK
      <4>2. calls[d] <= events[d] /\ (Pending(d) /\ ~Served(d) => calls[d] < events[d])
        BY <3>3 DEF OnceInv, OnceOf
      <4>3. Pending(d)' <=> Pending(d)
        BY <3>1 DEF Pending
      <4>4. d = cur => ~Served(d) /\ Served(d)'
        BY <3>1, <4>1 DEF Served, Passed, Uncleared
      <4>5. d # cur /\ Served(d) => Served(d)'
        BY <3>1, <4>1 DEF Served, Passed, Uncleared
      <4>6. CASE d = cur
        BY <3>1, <4>1, <4>2, <4>4, <4>6 DEF OnceOf
      <4>7. CASE d # cur
        BY <3>1, <4>1, <4>2, <4>3, <4>5, <4>7 DEF OnceOf
      <4> QED
        BY <4>6, <4>7
    <3> QED
      BY <3>1, <3>2, <3>3 DEF OnceInv, Cleared
  <2>3. CASE ScanClear
    <3>1. /\ pc = "clear" /\ cur \in Devs
          /\ UNCHANGED <<setup, trig_idx, calls, events>>
      BY <2>3 DEF ScanClear, TypeOK
    <3>2. \A t \in Trigs : triggered'[t] => triggered[t] /\ t # cur
      BY <2>3 DEF ScanClear, TypeOK
    <3>3. \A t \in setup.sync : ~triggered'[t]
      BY <3>2, SetupType DEF OnceInv, TypeOK
    <3>4. ASSUME ~setup.retrigger, NEW d \in Devs, Cleared(trig_idx[d])
          PROVE  OnceOf(d)'
      <4>1. calls[d] <= events[d] /\ (Pending(d) /\ ~Served(d) => calls[d] < events[d])
        BY <3>4 DEF OnceInv, OnceOf
      <4>2. trig_idx[d] \in Trigs
        BY <3>4, ClearedType
      <4>3. Pending(d)' => Pending(d) /\ trig_idx[d] # cur /\ trig_idx[d] \in Devs
        BY <3>1, <3>2, <3>4, <4>2, ClearedType DEF Pending, OnceInv
      <4>4. \/ pc' = "scan" /\ cur' = cur + 1 /\ cur + 1 < NbDevs
            \/ pc' = "serve" /\ cur + 1 >= NbDevs
        BY <2>3 DEF ScanClear, NextDev, TypeOK
      <4>5. Pending(d)' /\ Served(d) => Served(d)'
        BY <3>1, <4>2, <4>3, <4>4 DEF Served, Passed, Uncleared
      <4> QED
        BY <3>1, <4>1, <4>3, <4>5 DEF OnceOf
    <3> QED
      BY <3>1, <3>3, <3>4 DEF OnceInv, KeepsTrigger, Cleared
  <2>4. CASE NoCommand \/ OpenFree \/ OpenAlloc \/ OpenFails \/ OpenEnable \/ CloseFree
             \/ CloseDisable \/ CloseFails
    <3>1. /\ UNCHANGED <<setup, trig_idx, triggered, events, calls>>
          /\ pc \notin {"scan", "clear"} /\ (pc' \notin {"scan", "clear"} \/ Done)
      BY <2>4 DEF NoCommand, OpenFree, OpenAlloc, OpenFails, OpenEnable,
                  CloseFree, CloseDisable, CloseFails
    <3> QED
      BY <3>1, OutsideScan, OnceQuiet, ClearedType
  <2>5. CASE SetTrigger
    BY <2>5 DEF SetTrigger, Done, OnceInv, KeepsTrigger
  <2>6. CASE TriggerNow
    <3>1. PICK t \in Trigs : ProcessTrigger(t)
      BY <2>6, SetupType DEF TriggerNow, TypeOK
    <3> QED
      BY <2>6, <3>1, ProcessOnce, OutsideScan DEF TriggerNow
  <2>7. CASE \E t \in Trigs : Interrupt(t)
    <3>1. PICK t \in Trigs : Interrupt(t)
      BY <2>7
    <3>2. \A d \in Devs : Served(d) => Served(d)'
      BY <3>1 DEF Interrupt, main, Served, Passed, Uncleared
    <3> QED
      BY <3>1, <3>2, ProcessOnce DEF Interrupt
  <2>8. CASE UNCHANGED vars
    <3>1. \A d \in Devs : Served(d) => Served(d)'
      BY <2>8 DEF vars, main, Served, Passed, Uncleared
    <3> QED
      BY <2>8, <3>1, OnceQuiet DEF vars
  <2> QED
    BY <2>1, <2>2, <2>3, <2>4, <2>5, <2>6, <2>7, <2>8 DEF Next, MainStep
<1>3. Inv => OncePerEvent
  BY DEF OnceInv, OnceOf, OncePerEvent
<1> QED
  BY <1>1, <1>2, <1>3, PTL DEF Spec
=============================================================================
