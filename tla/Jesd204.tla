------------------------------ MODULE Jesd204 -------------------------------
(***************************************************************************)
(* The JESD204 framework of jesd204/jesd204-core.c and jesd204-fsm.c: a    *)
(* topology is built from an array of devices, one of which is the top     *)
(* device, and jesd204_fsm_start and jesd204_fsm_stop walk it op by op,    *)
(* link by link and device by device, calling the callbacks the drivers    *)
(* registered.                                                             *)
(*                                                                         *)
(* An action is one pass of an inner loop; a callback is known by what it  *)
(* is called for.                                                          *)
(***************************************************************************)
EXTENDS Integers, Sequences

CONSTANTS
  NbOps,   \* __JESD204_MAX_OPS
  Arrays   \* the devs arguments of jesd204_topology_init that are considered

Ops == 0 .. NbOps - 1

\* struct jesd204_topology_dev, with the state_ops of its driver: the ops that
\* have a per_device callback, a per_link callback, post_state_sysref, and the ops
\* whose mode is JESD204_STATE_OP_MODE_PER_DEVICE, which no code reads.  (Link ids
\* are only compared; they are numbered from 1 here.)
Dev == [is_top_device : BOOLEAN, is_sysref_provider : BOOLEAN,
        link_ids : Seq(Nat \ {0}), per_device : SUBSET Ops,
        per_link : SUBSET Ops, post_state_sysref : SUBSET Ops,
        mode : SUBSET Ops]

\* The sizes of per_device_op_done and of the arrays of link ids, which the code
\* does not check.
MaxDevs == 16
MaxLinks == 16

\* jesd204_topology_init allocates devs_number - 1 devices beside the top one.
ASSUME JesdAssumption ==
  /\ NbOps \in Nat \ {0}
  /\ \A a \in Arrays :
       /\ a \in Seq(Dev) /\ Len(a) - 1 <= MaxDevs
       /\ \A i \in DOMAIN a : Len(a[i].link_ids) <= MaxLinks
       /\ \A i \in DOMAIN a : \A m, n \in DOMAIN a[i].link_ids :
            a[i].link_ids[m] = a[i].link_ids[n] => m = n
       /\ \E t \in DOMAIN a : \A i \in DOMAIN a : a[i].is_top_device <=> i = t

VARIABLES
  args,    \* the array of devices; a device is known by its index
  pc,      \* "new", "ready", "start", "running", "stop", "stopped"
  top,     \* topology->dev_top->jdev
  devs,    \* topology->devs: the other devices
  sysref,  \* dev_top->jdev_sysref, 0 when there is none
  op, lnk, dev,  \* the loop counters (lnk and dev count from 1)
  done,    \* per_device_op_done: the devices it is set for
  calls,   \* history: the callbacks in the order they were called
  failed   \* history: the transitions in which a callback returned an error

topology == <<args, top, devs, sysref>>
vars == <<args, pc, top, devs, sysref, op, lnk, dev, done, calls, failed>>

Init ==
  /\ args \in Arrays
  /\ pc = "new"
  /\ top = 0 /\ devs = <<>> /\ sysref = 0
  /\ op = 0 /\ lnk = 1 /\ dev = 1 /\ done = {}
  /\ calls = <<>> /\ failed = {}

Ids(d) == {args[d].link_ids[n] : n \in DOMAIN args[d].link_ids}
NbLinks == Len(args[top].link_ids)
NoLink == 0     \* the link of a per_device callback
Sysref == -1    \* the link of a call of sysref_cb

\* jesd204_topology_init.  A top device that provides SYSREF is not noticed.
TopologyInit ==
  /\ pc = "new"
  /\ pc' = "ready"
  /\ top' = CHOOSE i \in DOMAIN args : args[i].is_top_device
  /\ devs' = [d \in 1 .. Len(args) - 1 |-> IF d < top' THEN d ELSE d + 1]
  /\ sysref' = LET P == {i \in DOMAIN args : args[i].is_sysref_provider
                                               /\ ~args[i].is_top_device}
               IN IF P = {} THEN 0 ELSE CHOOSE i \in P : \A j \in P : j <= i
  /\ UNCHANGED <<args, op, lnk, dev, done, calls, failed>>

-----------------------------------------------------------------------------
(* Callbacks *)

Called(d, link) == [reason |-> pc, op |-> op, dev |-> d, link |-> link]

If(c, call) == IF c THEN <<call>> ELSE <<>>

\* The calls are made; what the callbacks return is not looked at.
Makes(cs) ==
  /\ calls' = calls \o cs
  /\ \E errors \in IF cs = <<>> THEN {{}} ELSE {{}, {pc}} :
       failed' = failed \cup errors

\* The body of the loop over link_ids of device d, on link lnk of the top device.
Attached(d) == args[top].link_ids[lnk] \in Ids(d)
PerDevice(d) == Attached(d) /\ op \in args[d].per_device /\ d \notin done

DeviceCalls(d) ==
  If(PerDevice(d), Called(d, NoLink))
    \o If(Attached(d) /\ op \in args[d].per_link,
          Called(d, args[top].link_ids[lnk]))

CallDevice(d) ==
  /\ Makes(DeviceCalls(d))
  /\ done' = IF PerDevice(d) THEN done \cup {d} ELSE done

\* jesd204_sysref_async, when the op asks for it.
SysrefCalls ==
  If(pc = "start" /\ op \in args[top].post_state_sysref /\ sysref # 0,
     Called(sysref, Sysref))

TopCalls(there, link) ==
  IF there THEN <<Called(top, link)>> \o SysrefCalls ELSE <<>>

TopLinkCalls == TopCalls(op \in args[top].per_link, args[top].link_ids[lnk])
TopDeviceCalls == TopCalls(op \in args[top].per_device, NoLink)

-----------------------------------------------------------------------------
(* jesd204_fsm_start *)

FsmStart ==
  /\ pc = "ready"
  /\ pc' = "start"
  /\ op' = 0 /\ lnk' = 1 /\ dev' = 1 /\ done' = {}
  /\ UNCHANGED <<topology, calls, failed>>

StartDevice ==
  /\ pc = "start" /\ lnk <= NbLinks /\ dev <= Len(devs)
  /\ CallDevice(devs[dev])
  /\ dev' = dev + 1
  /\ UNCHANGED <<topology, pc, op, lnk>>

StartTopLink ==
  /\ pc = "start" /\ lnk <= NbLinks /\ dev = Len(devs) + 1
  /\ Makes(TopLinkCalls)
  /\ lnk' = lnk + 1 /\ dev' = 1
  /\ UNCHANGED <<topology, pc, op, done>>

\* Mutant: the flags of the op before are kept.
NextOpDone_Kept == done

NextOpDone == {}

StartTopDevice ==
  /\ pc = "start" /\ lnk = NbLinks + 1
  /\ Makes(TopDeviceCalls)
  /\ op' = op + 1 /\ lnk' = 1 /\ dev' = 1 /\ done' = NextOpDone
  /\ pc' = IF op + 1 = NbOps THEN "running" ELSE "start"
  /\ UNCHANGED topology

-----------------------------------------------------------------------------
(* jesd204_fsm_stop: everything backwards.  lnk = NbLinks + 1 is the place  *)
(* before the loop over the links, dev = Len(devs) + 1 before that over the *)
(* devices.                                                                 *)

FsmStop ==
  /\ pc = "running"
  /\ pc' = "stop"
  /\ op' = NbOps - 1 /\ lnk' = NbLinks + 1 /\ dev' = Len(devs) + 1 /\ done' = {}
  /\ UNCHANGED <<topology, calls, failed>>

StopTopDevice ==
  /\ pc = "stop" /\ lnk = NbLinks + 1
  /\ Makes(TopDeviceCalls)
  /\ lnk' = lnk - 1
  /\ UNCHANGED <<topology, pc, op, dev, done>>

StopTopLink ==
  /\ pc = "stop" /\ lnk \in 1 .. NbLinks /\ dev = Len(devs) + 1
  /\ Makes(TopLinkCalls)
  /\ dev' = dev - 1
  /\ UNCHANGED <<topology, pc, op, lnk, done>>

StopDevice ==
  /\ pc = "stop" /\ lnk \in 1 .. NbLinks /\ dev \in 1 .. Len(devs)
  /\ CallDevice(devs[dev])
  /\ dev' = dev - 1
  /\ UNCHANGED <<topology, pc, op, lnk>>

StopLinkDone ==
  /\ pc = "stop" /\ lnk \in 1 .. NbLinks /\ dev = 0
  /\ lnk' = lnk - 1 /\ dev' = Len(devs) + 1
  /\ UNCHANGED <<topology, pc, op, done, calls, failed>>

StopOpDone ==
  /\ pc = "stop" /\ lnk = 0
  /\ op' = op - 1 /\ lnk' = NbLinks + 1 /\ done' = NextOpDone
  /\ pc' = IF op = 0 THEN "stopped" ELSE "stop"
  /\ UNCHANGED <<topology, dev, calls, failed>>

-----------------------------------------------------------------------------

Next ==
  \/ TopologyInit
  \/ FsmStart \/ StartDevice \/ StartTopLink \/ StartTopDevice
  \/ FsmStop \/ StopTopDevice \/ StopTopLink \/ StopDevice
  \/ StopLinkDone \/ StopOpDone

Spec == Init /\ [][Next]_vars

-----------------------------------------------------------------------------
(* Properties *)

TopLinks == Ids(top)

\* The callbacks there are for a transition: the per_device callback of the top
\* device, and of every device that is on one of its links, for each op, and the
\* per_link callback of every device for each op and link.
Supplied(reason) ==
  {c \in [reason : {reason}, op : Ops, dev : DOMAIN args,
          link : TopLinks \cup {NoLink}] :
     IF c.link = NoLink
     THEN /\ c.op \in args[c.dev].per_device
          /\ c.dev = top \/ Ids(c.dev) \cap TopLinks # {}
     ELSE c.op \in args[c.dev].per_link /\ c.link \in Ids(c.dev)}

\* Of the two callbacks of an op, mode selects the one that is to be called.
Selected(c) == c.link = NoLink <=> c.op \in args[c.dev].mode

\* The callbacks a transition owes its drivers.
Owed(reason) == {c \in Supplied(reason) : Selected(c)}

\* Whether callback c comes before callback e of the same op: the other devices
\* of a link before the top device, on the way up, and after it on the way down;
\* for the other devices, per_device before per_link.
Precedes(c, e) ==
  LET up == c.reason = "start"
      t == IF up THEN e ELSE c   \* where the top device is
      d == IF up THEN c ELSE e
  IN \/ t.dev = top /\ d.dev # top /\ t.link \in {NoLink, d.link}
     \/ t.dev = top /\ d.dev = top /\ t.link = NoLink /\ d.link # NoLink
     \/ c.dev = e.dev /\ c.dev # top /\ c.link = NoLink /\ e.link # NoLink

\* Where the callbacks of a transition are in calls.
Places(reason) == {i \in DOMAIN calls : calls[i].reason = reason /\ calls[i].link # Sysref}
Returned(reason) == IF reason = "start" THEN pc \in {"running", "stop", "stopped"}
                    ELSE pc = "stopped"

\* jesd204_fsm_start and jesd204_fsm_stop call no callback twice, all those of an op
\* before any of the next op (of the op below, on the way down), and in the order
\* the devices of a link depend on each other; when one returns and no callback
\* failed in it, every callback that is owed was called.  This holds whatever the
\* order of the devices, of their links and of the links of the top device, and
\* whatever the callbacks return.
TransitionComplete ==
  pc # "new" =>
    \A reason \in {"start", "stop"} :
      LET mine == Places(reason)
          made == {calls[i] : i \in mine}
      IN /\ made \subseteq Supplied(reason)
         /\ \A i, j \in mine :
              /\ calls[i] = calls[j] => i = j
              /\ (IF reason = "start" THEN calls[i].op < calls[j].op
                                      ELSE calls[i].op > calls[j].op) => i < j
              /\ calls[i].op = calls[j].op /\ Precedes(calls[i], calls[j]) => i < j
         /\ Returned(reason) /\ reason \notin failed => Owed(reason) \subseteq made

\* jesd204_fsm_start returns 0 only when every callback succeeded.
StartReports == pc = "running" => failed = {}

\* Only the callback that mode selects is called.
ModeRespected == \A i \in DOMAIN calls : calls[i].link # Sysref => Selected(calls[i])

\* Every device has its per_device callbacks called, on whatever links it is.
EveryDeviceCalled ==
  pc = "running" /\ failed = {} =>
    \A d \in DOMAIN args : \A o \in args[d].per_device \cap args[d].mode :
      \E i \in DOMAIN calls :
        calls[i] = [reason |-> "start", op |-> o, dev |-> d, link |-> NoLink]
=============================================================================
