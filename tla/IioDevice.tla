------------------------------ MODULE IioDevice ------------------------------
(***************************************************************************)
(* Buffered devices and triggers of iio/iio.c and iio/iio_trigger.c: the   *)
(* main loop (iio_step) first runs iio_process_async_triggers over the     *)
(* devices and then serves one client command (OPEN, CLOSE, SETTRIG, or a  *)
(* write to the trigger_now attribute of a software trigger), while        *)
(* trigger interrupts call iio_process_trigger_type between any two        *)
(* accesses to shared state.  A trigger handler pushes one scan into the   *)
(* buffer of its device (iio_buffer_push_scan).                            *)
(***************************************************************************)
EXTENDS Integers, FiniteSets

CONSTANTS
  NbDevs, NbTrigs,  \* desc->nb_devs, desc->nb_trigs
  Setups,           \* the applications that are considered
  MaxEvents         \* bound: trigger events of a device

Devs == 0 .. NbDevs - 1
Trigs == 0 .. NbTrigs - 1
NoTrigger == -1

\* How the application has set up its devices and triggers, and what may
\* happen to it.
Setup ==
  [sync : SUBSET Trigs,     \* triggers with is_synchronous set
   soft : SUBSET Trigs,     \* software triggers: no enable, disable, interrupt
   init_trig : [Devs -> Trigs \union {NoTrigger}],  \* at iio_init
   handled : SUBSET Devs,   \* devices whose driver has a trigger_handler
   raw_buf : SUBSET Devs,   \* devices with a static raw_buf, never freed
   retrigger : BOOLEAN,     \* clients use SETTRIG
   fails : BOOLEAN]         \* allocation and driver callbacks may fail

ASSUME DeviceAssumption ==
  NbDevs \in Nat \ {0} /\ NbTrigs \in Nat /\ MaxEvents \in Nat
    /\ Setups \subseteq Setup

VARIABLES
  setup,       \* member of Setups, fixed
  trig_idx,    \* dev->trig_idx
  triggered,   \* trigs[i].triggered
  irq,         \* triggers whose interrupt is enabled
  mem,         \* memory behind dev->buffer.cb.buff
  allocated,   \* dev->buffer.allocated
  active,      \* dev->buffer.public.active_mask # 0
  pc, cur,     \* where the main loop is, and the device it works on
  events,      \* history: trigger events that concern a device
  calls,       \* history: runs of the trigger_handler of a device
  unseen,      \* history: devices with an event since their last handler run
  fault        \* history: a handler pushed into memory that is not a buffer

link == <<trig_idx, triggered, irq>>
buffer == <<mem, allocated, active>>
main == <<pc, cur>>
history == <<events, calls, unseen, fault>>
vars == <<setup, link, buffer, main, history>>

Init ==
  /\ setup \in Setups
  /\ trig_idx = setup.init_trig
  /\ triggered = [t \in Trigs |-> FALSE]
  /\ irq = {}
  /\ mem = [d \in Devs |-> "none"]
  /\ allocated = [d \in Devs |-> FALSE]
  /\ active = [d \in Devs |-> FALSE]
  /\ pc = "scan"
  /\ cur = 0
  /\ events = [d \in Devs |-> 0]
  /\ calls = [d \in Devs |-> 0]
  /\ unseen = {}
  /\ fault = FALSE

Linked(t) == {d \in Devs : trig_idx[d] = t}

\* Mutant: a freed buffer stays marked as allocated.
Free_Marked(d) ==
  /\ mem' = IF allocated[d] THEN [mem EXCEPT ![d] = "freed"] ELSE mem
  /\ UNCHANGED allocated

\* no_os_free of an allocated buffer.
Free(d) ==
  /\ mem' = IF allocated[d] THEN [mem EXCEPT ![d] = "freed"] ELSE mem
  /\ allocated' = [allocated EXCEPT ![d] = FALSE]

\* The trigger_handler of each device of D runs once.  The history stops
\* counting at one run too many.
RunHandlers(D) ==
  /\ calls' = [d \in Devs |-> IF d \in D /\ calls[d] <= events[d]
                              THEN calls[d] + 1 ELSE calls[d]]
  /\ fault' = (fault \/ \E d \in D : mem[d] \notin {"live", "static"})

-----------------------------------------------------------------------------
(* iio_process_trigger_type *)

ProcessTrigger(t) ==
  /\ events' = [d \in Devs |-> IF d \in Linked(t) THEN events[d] + 1
                               ELSE events[d]]
  /\ IF t \in setup.sync
     THEN /\ RunHandlers(Linked(t) \cap setup.handled)
          /\ UNCHANGED <<triggered, unseen>>
     ELSE /\ triggered' = [triggered EXCEPT ![t] = @ \/ Linked(t) # {}]
          /\ unseen' = unseen \union (Linked(t) \cap setup.handled)
          /\ UNCHANGED <<calls, fault>>

MoreEvents == \A d \in Devs : events[d] < MaxEvents

\* iio_hw_trig_handler, in interrupt context.
Interrupt(t) ==
  /\ t \in irq
  /\ MoreEvents
  /\ ProcessTrigger(t)
  /\ UNCHANGED <<setup, trig_idx, irq, buffer, main>>

-----------------------------------------------------------------------------
(* iio_process_async_triggers: cur is its index i *)

Pending(d) ==
  trig_idx[d] # NoTrigger /\ triggered[trig_idx[d]] /\ d \in setup.handled

\* Mutant: the loop runs one device too far.
NextDev_TooFar == IF cur < NbDevs THEN pc' = "scan" /\ cur' = cur + 1
                                  ELSE pc' = "serve" /\ cur' = 0

NextDev == IF cur + 1 < NbDevs THEN pc' = "scan" /\ cur' = cur + 1
                               ELSE pc' = "serve" /\ cur' = 0

ScanSkip ==
  /\ pc = "scan"
  /\ ~Pending(cur)
  /\ NextDev
  /\ UNCHANGED <<setup, link, buffer, history>>

ScanHandle ==
  /\ pc = "scan"
  /\ Pending(cur)
  /\ RunHandlers({cur})
  /\ unseen' = unseen \ {cur}
  /\ pc' = "clear"
  /\ UNCHANGED <<setup, link, buffer, cur, events>>

\* Mutant: the flag is left set.
ScanClear_Kept ==
  /\ pc = "clear"
  /\ NextDev
  /\ UNCHANGED <<setup, link, buffer, history>>

\* desc->trigs[i].triggered = 0 with the index of the device; beyond the
\* array it touches none of the flags.
ScanClear ==
  /\ pc = "clear"
  /\ triggered' = IF cur \in Trigs THEN [triggered EXCEPT ![cur] = FALSE]
                                   ELSE triggered
  /\ NextDev
  /\ UNCHANGED <<setup, trig_idx, irq, buffer, history>>

-----------------------------------------------------------------------------
(* One client command *)

\* Back to the top of iio_step, at the first device.
Done == pc' = "scan" /\ cur' = 0

NoCommand ==
  /\ pc = "serve"
  /\ Done
  /\ UNCHANGED <<setup, link, buffer, history>>

\* iio_set_trigger
SetTrigger ==
  /\ setup.retrigger
  /\ pc = "serve"
  /\ \E d \in Devs, t \in Trigs \union {NoTrigger} :
       trig_idx' = [trig_idx EXCEPT ![d] = t]
  /\ Done
  /\ UNCHANGED <<setup, triggered, irq, buffer, history>>

\* iio_sw_trig_handler, called when a client writes trigger_now.
TriggerNow ==
  /\ pc = "serve"
  /\ MoreEvents
  /\ \E t \in setup.soft : ProcessTrigger(t)
  /\ Done
  /\ UNCHANGED <<setup, trig_idx, irq, buffer>>

\* iio_open_dev: a buffer left by an earlier OPEN is freed ...
OpenFree ==
  /\ pc = "serve"
  /\ \E d \in Devs :
       /\ active' = [active EXCEPT ![d] = TRUE]
       /\ Free(d)
       /\ cur' = d
  /\ pc' = "open_alloc"
  /\ UNCHANGED <<setup, link, history>>

\* ... a new one is allocated and configured ...
OpenAlloc ==
  /\ pc = "open_alloc"
  /\ mem' = [mem EXCEPT ![cur] =
                          IF cur \in setup.raw_buf THEN "static" ELSE "live"]
  /\ allocated' = [allocated EXCEPT ![cur] = cur \notin setup.raw_buf]
  /\ pc' = "open_enable"
  /\ UNCHANGED <<setup, link, active, cur, history>>

\* (no memory; or pre_enable fails and the new buffer is freed again; or the
\* trigger cannot be enabled, which leaves the buffer in place)
OpenFails ==
  /\ setup.fails
  /\ \/ pc = "open_alloc" /\ UNCHANGED <<mem, allocated>>
     \/ pc = "open_enable" /\ Free(cur)
     \/ /\ pc = "open_enable" /\ trig_idx[cur] \in Trigs \ setup.soft
        /\ UNCHANGED <<mem, allocated>>
  /\ Done
  /\ UNCHANGED <<setup, link, active, history>>

\* Mutant: the interrupt of the trigger is not enabled.
OpenEnable_Forgotten ==
  /\ pc = "open_enable"
  /\ Done
  /\ UNCHANGED <<setup, link, buffer, history>>

\* ... and the trigger is enabled last.
OpenEnable ==
  /\ pc = "open_enable"
  /\ irq' = IF trig_idx[cur] \in Trigs \ setup.soft
            THEN irq \union {trig_idx[cur]} ELSE irq
  /\ Done
  /\ UNCHANGED <<setup, trig_idx, triggered, buffer, history>>

\* iio_close_dev frees the buffer first ...
CloseFree ==
  /\ pc = "serve"
  /\ \E d \in Devs :
       /\ Free(d)
       /\ cur' = d
  /\ pc' = "close_disable"
  /\ UNCHANGED <<setup, link, active, history>>

\* Mutant: the interrupt of the trigger stays enabled.
CloseDisable_Forgotten ==
  /\ pc = "close_disable"
  /\ active' = [active EXCEPT ![cur] = FALSE]
  /\ Done
  /\ UNCHANGED <<setup, link, mem, allocated, history>>

\* ... and then disables the trigger and clears active_mask.
CloseDisable ==
  /\ pc = "close_disable"
  /\ irq' = irq \ {trig_idx[cur]}
  /\ active' = [active EXCEPT ![cur] = FALSE]
  /\ Done
  /\ UNCHANGED <<setup, trig_idx, triggered, mem, allocated, history>>

\* (a trigger that cannot be disabled ends the command early)
CloseFails ==
  /\ setup.fails
  /\ pc = "close_disable"
  /\ trig_idx[cur] \in Trigs \ setup.soft
  /\ Done
  /\ UNCHANGED <<setup, link, buffer, history>>

-----------------------------------------------------------------------------
MainStep ==
  \/ ScanSkip \/ ScanHandle \/ ScanClear
  \/ NoCommand \/ SetTrigger \/ TriggerNow
  \/ OpenFree \/ OpenAlloc \/ OpenFails \/ OpenEnable
  \/ CloseFree \/ CloseDisable \/ CloseFails

Next == MainStep \/ \E t \in Trigs : Interrupt(t)

Spec == Init /\ [][Next]_vars

\* iio_app_run calls iio_step for ever.
FairSpec == Spec /\ WF_vars(MainStep)

-----------------------------------------------------------------------------
\* The triggers of the devices never change and no callback fails.
Steady == ~setup.retrigger /\ ~setup.fails

\* Triggers, buffers and the position of the main loop stay in their ranges.
TypeOK ==
  /\ setup \in Setups
  /\ trig_idx \in [Devs -> Trigs \union {NoTrigger}]
  /\ triggered \in [Trigs -> BOOLEAN]
  /\ irq \subseteq Trigs
  /\ mem \in [Devs -> {"none", "live", "static", "freed"}]
  /\ allocated \in [Devs -> BOOLEAN]
  /\ active \in [Devs -> BOOLEAN]
  /\ pc \in {"scan", "clear", "serve", "open_alloc", "open_enable",
             "close_disable"}
  /\ cur \in Devs
  /\ events \in [Devs -> Nat]
  /\ calls \in [Devs -> Nat]
  /\ unseen \subseteq Devs
  /\ fault \in BOOLEAN

\* The flag of trigger t is cleared by the scan that has served it: it has none,
\* or device t, after whose handler trigs[t].triggered is cleared, is itself
\* linked to trigger t.
Cleared(t) ==
  t \in setup.sync \/ (t \in setup.handled /\ trig_idx[t] = t)

\* iio_process_trigger_type documents "An application callback will be called
\* in interrupt context if trigger is synchronous [...] or will be called
\* from iio_step": one event, one call, never more calls than events, for every
\* device, also one that shares the trigger, as long as the trigger is one whose
\* flag the scan clears.
OncePerEvent ==
  ~setup.retrigger =>
    \A d \in Devs : Cleared(trig_idx[d]) => calls[d] <= events[d]

\* The same of every device, whichever trigger it is linked to.
EveryOncePerEvent ==
  ~setup.retrigger => \A d \in Devs : calls[d] <= events[d]

\* Between two scans an asynchronous event whose handler has not run is still
\* flagged: it "will be called from iio_step".
NoLostEvent ==
  pc = "serve" => \A d \in unseen : trig_idx[d] # NoTrigger /\ Pending(d)

\* A trigger handler, which writes a scan "to buffer", only runs while its
\* device has one.
HandlerHasBuffer == ~fault

\* "allocated" tells the truth about the memory of the buffer: nothing is
\* freed twice, and a freed buffer is never taken for a live one, whatever
\* the order of OPEN, CLOSE and the failures of their callbacks.
AllocatedIsLive == \A d \in Devs : allocated[d] <=> mem[d] = "live"

Between == pc \in {"scan", "clear", "serve"}

\* While triggers stay and callbacks succeed, a hardware trigger all of whose
\* devices are open is armed between commands, in whatever order they were
\* opened, closed and opened again, and whoever shares it.
ArmedWhileOpen ==
  Steady /\ Between =>
    \A t \in Trigs \ setup.soft :
      Linked(t) # {} /\ (\A d \in Linked(t) : active[d]) => t \in irq

\* An open device has its trigger armed, though another device of the trigger
\* has been closed.
OpenStaysArmed ==
  Steady /\ Between =>
    \A d \in Devs :
      active[d] /\ trig_idx[d] \in Trigs \ setup.soft => trig_idx[d] \in irq

\* Nor does a trigger interrupt stay enabled when no open device uses it.
NoStrayInterrupt ==
  Steady /\ Between =>
    \A t \in irq : \E d \in Linked(t) : active[d]

\* A flagged event is served by one of the next iterations of the main loop, and
\* its flag cleared.
FlagServed ==
  \A t \in Trigs : (Steady /\ Cleared(t) /\ triggered[t]) ~> ~triggered[t]
=============================================================================
