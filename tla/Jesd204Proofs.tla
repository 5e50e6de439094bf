--------------------------- MODULE Jesd204Proofs ----------------------------
(***************************************************************************)
(* Proofs about Jesd204 for every number of ops and every array of devices *)
(* and links.                                                              *)
(***************************************************************************)
EXTENDS Jesd204, WellFoundedInduction, TLAPS

-----------------------------------------------------------------------------
(* The inductive invariant *)

Links == args[top].link_ids

\* What jesd204_topology_init makes of the array: one top device, and every other
\* device once.
Topology ==
  /\ top \in DOMAIN args
  /\ devs \in Seq(DOMAIN args)
  /\ \A d \in DOMAIN args : d # top <=> \E k \in DOMAIN devs : devs[k] = d
  /\ \A k, m \in DOMAIN devs : devs[k] = devs[m] => k = m

\* The loop counters.
Counters ==
  /\ pc \in {"start", "stop"} => op \in Ops
  /\ lnk \in Nat /\ dev \in Nat
  /\ pc = "start" => lnk \in 1 .. NbLinks + 1 /\ dev \in 1 .. Len(devs) + 1
                       /\ (lnk = NbLinks + 1 => dev = 1)
  /\ pc = "stop" => lnk \in 0 .. NbLinks + 1 /\ dev \in 0 .. Len(devs) + 1
                      /\ (lnk \in {0, NbLinks + 1} => dev = Len(devs) + 1)
  /\ pc = "stopped" => dev = Len(devs) + 1

Call == [reason : {"start", "stop"}, op : Ops, dev : Nat, link : Int]

TypeInv ==
  /\ args \in Arrays
  /\ pc \in {"new", "ready", "start", "running", "stop", "stopped"}
  /\ sysref \in Nat
  /\ calls \in Seq(Call)
  /\ pc # "new" => Topology
  /\ Counters

\* In the op at hand: device number k has been visited on link number n, the per_link
\* callback of the top device has been called for it, its per_device callback has.
Visited(n, k) ==
  IF pc = "start" THEN n < lnk \/ (n = lnk /\ k < dev)
                  ELSE n > lnk \/ (n = lnk /\ k > dev)
LinkDone(n) == IF pc = "start" THEN n < lnk ELSE n > lnk \/ (n = lnk /\ dev <= Len(devs))
TopDone == pc = "stop" /\ lnk <= NbLinks

\* The turn of callback c of the op at hand has come and gone.
Turn(c) ==
  IF c.dev = top
  THEN IF c.link = NoLink THEN TopDone
       ELSE \E n \in DOMAIN Links : Links[n] = c.link /\ LinkDone(n)
  ELSE \E n \in DOMAIN Links, k \in DOMAIN devs :
         /\ devs[k] = c.dev /\ Visited(n, k)
         /\ IF c.link = NoLink THEN Links[n] \in Ids(c.dev) ELSE Links[n] = c.link

\* The turn of a callback of either transition.
Past(c) ==
  IF c.reason = "start"
  THEN \/ pc \in {"running", "stop", "stopped"}
       \/ pc = "start" /\ (c.op < op \/ (c.op = op /\ Turn(c)))
  ELSE \/ pc = "stopped"
       \/ pc = "stop" /\ (c.op > op \/ (c.op = op /\ Turn(c)))

\* per_device_op_done.
Flags ==
  pc \in {"start", "stop"} =>
    done = {d \in DOMAIN args :
              /\ d # top /\ op \in args[d].per_device
              /\ Turn([reason |-> pc, op |-> op, dev |-> d, link |-> NoLink])}

\* Whether callback c has to come before callback e of the same transition.
Must(c, e) ==
  /\ c.reason = e.reason
  /\ \/ IF c.reason = "start" THEN c.op < e.op ELSE c.op > e.op
     \/ c.op = e.op /\ Precedes(c, e)

\* History s has the callbacks of set S, each once and in order.
PlacesIn(s) == {i \in DOMAIN s : s[i].link # Sysref}
Records(s, S) ==
  /\ s \in Seq(Call)
  /\ {s[i] : i \in PlacesIn(s)} = S
  /\ \A i, j \in PlacesIn(s) : (s[i] = s[j] => i = j) /\ (Must(s[i], s[j]) => i < j)

\* The callbacks there are and whose turn has come.
AllSupplied == Supplied("start") \cup Supplied("stop")
Due == {c \in AllSupplied : Past(c)}

JesdInv ==
  TypeInv /\ Flags /\ IF pc = "new" THEN calls = <<>> ELSE Records(calls, Due)

-----------------------------------------------------------------------------
(* Histories *)

\* Appending a callback that was not made yet, and that nothing made should have
\* followed.
LEMMA RecordsCallback ==
  ASSUME NEW s, NEW S, Records(s, S), NEW c \in Call, c.link # Sysref,
         c \notin S, \A e \in S : ~Must(c, e)
  PROVE  Records(Append(s, c), S \cup {c})
<1> DEFINE t == Append(s, c)
           z == Len(s) + 1
<1>0. s \in Seq(Call) /\ \A i \in PlacesIn(s) : s[i] \in S
  BY DEF Records
<1>1. /\ t \in Seq(Call) /\ Len(s) \in Nat /\ DOMAIN s = 1 .. Len(s) /\ DOMAIN t = 1 .. z
      /\ t[z] = c /\ \A i \in DOMAIN s : t[i] = s[i]
  BY <1>0
<1> HIDE DEF t
<1>2. PlacesIn(t) = PlacesIn(s) \cup {z} /\ \A i \in PlacesIn(s) : t[i] = s[i] /\ i < z
  BY <1>1 DEF PlacesIn
<1>3. {t[i] : i \in PlacesIn(t)} = S \cup {c}
  BY <1>1, <1>2 DEF Records
<1>4. ~Must(c, c)
  BY JesdAssumption DEF Must, Precedes, Call, Ops
<1>5. ASSUME NEW i \in PlacesIn(t), NEW j \in PlacesIn(t)
      PROVE  (t[i] = t[j] => i = j) /\ (Must(t[i], t[j]) => i < j)
  <2>1. CASE i \in PlacesIn(s) /\ j \in PlacesIn(s)
    BY <1>2, <2>1 DEF Records
  <2>2. CASE i = z /\ j \in PlacesIn(s)
    BY <1>0, <1>1, <1>2, <2>2
  <2>3. CASE i \in PlacesIn(s) /\ j = z
    BY <1>0, <1>1, <1>2, <2>3
  <2>4. CASE i = z /\ j = z
    BY <1>1, <1>4, <2>4
  <2> QED
    BY <1>2, <2>1, <2>2, <2>3, <2>4
<1> QED
  BY <1>1, <1>3, <1>5 DEF t, Records

\* A call of sysref_cb is no callback of the transition.
LEMMA RecordsSysref ==
  ASSUME NEW s, NEW S, Records(s, S), NEW c \in Call, c.link = Sysref
  PROVE  Records(Append(s, c), S)
<1> DEFINE t == Append(s, c)
           z == Len(s) + 1
<1>0. s \in Seq(Call)
  BY DEF Records
<1>1. /\ t \in Seq(Call) /\ Len(s) \in Nat /\ DOMAIN s = 1 .. Len(s) /\ DOMAIN t = 1 .. z
      /\ t[z] = c /\ \A i \in DOMAIN s : t[i] = s[i]
  BY <1>0
<1> HIDE DEF t
<1>2. PlacesIn(t) = PlacesIn(s) /\ \A i \in PlacesIn(s) : t[i] = s[i]
  BY <1>1 DEF PlacesIn
<1>3. {t[i] : i \in PlacesIn(t)} = {s[i] : i \in PlacesIn(s)}
  BY <1>2
<1>4. \A i, j \in PlacesIn(t) : (t[i] = t[j] => i = j) /\ (Must(t[i], t[j]) => i < j)
  BY <1>2 DEF Records
<1> QED
  BY <1>1, <1>3, <1>4 DEF t, Records

-----------------------------------------------------------------------------
(* Types and topology *)

\* The array of devices.
LEMMA ArgFacts ==
  ASSUME args \in Arrays
  PROVE  /\ args \in Seq(Dev) /\ Len(args) \in Nat /\ DOMAIN args = 1 .. Len(args)
         /\ \A d \in DOMAIN args :
              /\ args[d].link_ids \in Seq(Nat \ {0})
              /\ \A m, n \in DOMAIN args[d].link_ids :
                   args[d].link_ids[m] = args[d].link_ids[n] => m = n
         /\ \E t \in DOMAIN args : \A d \in DOMAIN args : args[d].is_top_device <=> d = t
<1>1. args \in Seq(Dev)
  BY JesdAssumption
<1>2. \A d \in DOMAIN args : args[d] \in Dev
  BY <1>1
<1>3. \A d \in DOMAIN args : args[d].link_ids \in Seq(Nat \ {0})
  BY <1>2 DEF Dev
<1>4. \A d \in DOMAIN args : \A m, n \in DOMAIN args[d].link_ids :
        args[d].link_ids[m] = args[d].link_ids[n] => m = n
  BY JesdAssumption, Zenon
<1>5. \E t \in DOMAIN args : \A d \in DOMAIN args : args[d].is_top_device <=> d = t
  BY JesdAssumption, Zenon
<1>6. Len(args) \in Nat /\ DOMAIN args = 1 .. Len(args)
  BY <1>1
<1> QED
  BY <1>1, <1>3, <1>4, <1>5, <1>6

\* The links of the top device.
LEMMA LinkFacts ==
  ASSUME TypeInv, pc # "new"
  PROVE  /\ NbLinks \in Nat /\ DOMAIN Links = 1 .. NbLinks
         /\ \A n \in DOMAIN Links : Links[n] \in Nat \ {0} /\ Links[n] \in TopLinks
         /\ \A m, n \in DOMAIN Links : Links[m] = Links[n] => m = n
         /\ \A l \in TopLinks : \E n \in DOMAIN Links : Links[n] = l
         /\ Len(devs) \in Nat /\ DOMAIN devs = 1 .. Len(devs)
         /\ \A k \in DOMAIN devs : devs[k] \in DOMAIN args /\ devs[k] # top
         /\ DOMAIN args \subseteq Nat
<1>1. args \in Arrays /\ Topology
  BY DEF TypeInv
<1>2. Links \in Seq(Nat \ {0}) /\ \A m, n \in DOMAIN Links : Links[m] = Links[n] => m = n
  BY <1>1, ArgFacts DEF Topology, Links
<1>3. \A k \in DOMAIN devs : devs[k] \in DOMAIN args /\ devs[k] # top
  BY <1>1 DEF Topology
<1>4. DOMAIN args \subseteq Nat
  BY <1>1, ArgFacts
<1>5. Len(devs) \in Nat /\ DOMAIN devs = 1 .. Len(devs)
  BY <1>1 DEF Topology
<1> QED
  BY <1>2, <1>3, <1>4, <1>5 DEF Links, NbLinks, TopLinks, Ids

\* A non-empty set of numbers has a least element.
LEMMA Least ==
  ASSUME NEW S \in SUBSET Nat, S # {}
  PROVE  \E m \in S : \A y \in S : m <= y
<1> DEFINE Less == {ss \in Nat \X Nat : ss[1] < ss[2]}
<1>1. IsWellFoundedOn(Less, Nat)
  BY NatLessThanWellFounded, Zenon DEF OpToRel
<1>2. \A x, y \in Nat : x < y => <<x, y>> \in Less
  OBVIOUS
<1> HIDE DEF Less
<1>3. PICK m \in S : \A y \in S : ~(<<y, m>> \in Less)
  BY <1>1, WFMin
<1>4. ASSUME NEW y \in S PROVE m <= y
  <2>1. m \in Nat /\ y \in Nat
    OBVIOUS
  <2>2. ~(y < m)
    BY <1>2, <1>3, <2>1
  <2> QED
    BY <2>1, <2>2
<1> QED
  BY <1>4

\* jesd204_topology_init finds the top device and keeps the others.
LEMMA TopologyBuilt ==
  ASSUME args \in Arrays, TopologyInit
  PROVE  Topology' /\ sysref' \in Nat
<1>1. PICK t \in DOMAIN args : \A d \in DOMAIN args : args[d].is_top_device <=> d = t
  BY ArgFacts
<1>2. top' = t /\ args' = args
  BY <1>1 DEF TopologyInit
<1>3. args \in Seq(Dev) /\ Len(args) \in Nat /\ DOMAIN args = 1 .. Len(args)
  BY ArgFacts
<1>4. devs' = [d \in 1 .. Len(args) - 1 |-> IF d < t THEN d ELSE d + 1]
  BY <1>2 DEF TopologyInit
<1>5. devs' \in Seq(DOMAIN args) /\ DOMAIN devs' = 1 .. Len(args) - 1
  BY <1>3, <1>4
<1>6. \A d \in DOMAIN args : d # t => \E k \in DOMAIN devs' : devs'[k] = d
  <2> SUFFICES ASSUME NEW d \in DOMAIN args, d # t
               PROVE  \E k \in DOMAIN devs' : devs'[k] = d
    OBVIOUS
  <2>1. CASE d < t
    <3>1. d \in 1 .. Len(args) - 1
      BY <1>3, <2>1
    <3> QED
      BY <1>3, <1>4, <2>1, <3>1
  <2>2. CASE d > t
    <3>1. d - 1 \in 1 .. Len(args) - 1 /\ ~(d - 1 < t)
      BY <1>3, <2>2
    <3>2. devs'[d - 1] = d
      BY <1>3, <1>4, <3>1
    <3> QED
      BY <1>5, <3>1, <3>2
  <2> QED
    BY <1>3, <2>1, <2>2
<1>7. \A k \in DOMAIN devs' : devs'[k] # t
  BY <1>3, <1>4, <1>5
<1>8. \A k, m \in DOMAIN devs' : devs'[k] = devs'[m] => k = m
  BY <1>3, <1>4, <1>5
<1>9. Topology'
  BY <1>2, <1>5, <1>6, <1>7, <1>8 DEF Topology
<1>10. sysref' \in Nat
  <2> DEFINE P == {i \in DOMAIN args : args[i].is_sysref_provider /\ ~args[i].is_top_device}
  <2>1. sysref' = IF P = {} THEN 0 ELSE CHOOSE i \in P : \A j \in P : j <= i
    BY DEF TopologyInit
  <2>2. CASE P = {}
    BY <2>1, <2>2
  <2>3. CASE P # {}
    <3>1. P \subseteq Nat /\ \A i \in P : i <= Len(args)
      BY <1>3
    <3>2. \E i \in P : \A j \in P : j <= i
      <4> HIDE DEF P
      <4> DEFINE Q == {Len(args) - i : i \in P}
      <4>1. Q \in SUBSET Nat
        BY <1>3, <3>1
      <4>2. Q # {}
        BY <2>3
      <4>3. PICK m \in Q : \A y \in Q : m <= y
        BY <4>1, <4>2, Least
      <4>4. PICK i \in P : m = Len(args) - i
        OBVIOUS
      <4>5. ASSUME NEW j \in P PROVE j <= i
        <5>1. m <= Len(args) - j
          BY <4>3
        <5> QED
          BY <1>3, <3>1, <4>4, <5>1
      <4> QED
        BY <4>5
    <3> HIDE DEF P
    <3>3. (CHOOSE i \in P : \A j \in P : j <= i) \in P
      BY <3>2
    <3> QED
      BY <2>1, <2>3, <3>1, <3>3
  <2> QED
    BY <2>2, <2>3
<1> QED
  BY <1>9, <1>10

\* A transition in progress.
Walking == pc \in {"start", "stop"}

\* The callbacks of a step are calls.
LEMMA CallTypes ==
  ASSUME TypeInv, Walking
  PROVE  /\ \A d \in DOMAIN args : Called(d, NoLink) \in Call
         /\ Called(sysref, Sysref) \in Call
         /\ lnk \in DOMAIN Links =>
              \A d \in DOMAIN args : Called(d, Links[lnk]) \in Call
<1>1. op \in Ops /\ sysref \in Nat
  BY DEF TypeInv, Walking, Counters
<1>2. DOMAIN args \subseteq Nat /\ \A n \in DOMAIN Links : Links[n] \in Nat
  BY LinkFacts DEF Walking
<1>3. pc \in {"start", "stop"}
  BY DEF Walking
<1> QED
  BY <1>1, <1>2, <1>3 DEF Called, Call, NoLink, Sysref

LEMMA DeviceTypes ==
  ASSUME TypeInv, Walking, lnk \in DOMAIN Links, NEW d \in DOMAIN args
  PROVE  DeviceCalls(d) \in Seq(Call)
<1>1. Called(d, NoLink) \in Call /\ Called(d, args[top].link_ids[lnk]) \in Call
  BY CallTypes DEF Links
<1> QED
  BY <1>1 DEF DeviceCalls, If

LEMMA TopTypes ==
  ASSUME TypeInv, Walking
  PROVE  /\ TopDeviceCalls \in Seq(Call)
         /\ lnk \in DOMAIN Links => TopLinkCalls \in Seq(Call)
<1>1. top \in DOMAIN args
  BY DEF TypeInv, Topology, Walking
<1>2. SysrefCalls \in Seq(Call)
  BY CallTypes DEF SysrefCalls, If
<1>3. Called(top, NoLink) \in Call
  BY <1>1, CallTypes
<1>4. lnk \in DOMAIN Links => Called(top, args[top].link_ids[lnk]) \in Call
  BY <1>1, CallTypes DEF Links
<1> QED
  BY <1>2, <1>3, <1>4 DEF TopDeviceCalls, TopLinkCalls, TopCalls

LEMMA TypeInit == Init => TypeInv
<1> SUFFICES ASSUME Init PROVE TypeInv
  OBVIOUS
<1> QED
  BY DEF Init, TypeInv, Counters

LEMMA TypeStep ==
  ASSUME TypeInv, [Next]_vars PROVE TypeInv'
<1>0. NbOps \in Nat \ {0}
  BY JesdAssumption
<1>1. CASE UNCHANGED vars
  BY <1>1 DEF vars, TypeInv, Topology, Counters, NbLinks
<1>2. CASE TopologyInit
  <2>1. Topology' /\ sysref' \in Nat
    BY <1>2, TopologyBuilt DEF TypeInv
  <2> QED
    BY <1>2, <2>1 DEF TopologyInit, TypeInv, Counters
<1> DEFINE Kept == UNCHANGED topology /\ pc # "new" /\ calls' \in Seq(Call)
                     /\ pc' \in {"start", "running", "stop", "stopped"} /\ Counters'
<1>3. Kept => TypeInv'
  BY DEF TypeInv, topology, Topology
<1>4. (UNCHANGED topology) => NbLinks' = NbLinks
  BY DEF topology, NbLinks
<1>5. pc # "new" => /\ NbLinks \in Nat /\ DOMAIN Links = 1 .. NbLinks /\ Len(devs) \in Nat
                    /\ \A k \in 1 .. Len(devs) : devs[k] \in DOMAIN args
  BY LinkFacts
<1>6. calls \in Seq(Call) /\ lnk \in Nat /\ dev \in Nat
  BY DEF TypeInv, Counters
<1>7. CASE FsmStart
  <2>1. Counters'
    BY <1>0, <1>4, <1>5, <1>7 DEF FsmStart, Counters, Ops, topology
  <2> QED
    BY <1>3, <1>6, <1>7, <2>1 DEF FsmStart
<1>8. CASE StartDevice
  <2>1. Counters'
    BY <1>4, <1>5, <1>8 DEF StartDevice, TypeInv, Counters, topology
  <2>2. calls' \in Seq(Call)
    <3>1. DeviceCalls(devs[dev]) \in Seq(Call)
      BY <1>5, <1>8, DeviceTypes DEF StartDevice, TypeInv, Counters, Walking
    <3> QED
      BY <1>6, <1>8, <3>1 DEF StartDevice, CallDevice, Makes
  <2> QED
    BY <1>3, <1>8, <2>1, <2>2 DEF StartDevice
<1>9. CASE StartTopLink
  <2>1. Counters'
    BY <1>4, <1>5, <1>9 DEF StartTopLink, TypeInv, Counters, topology
  <2>2. calls' \in Seq(Call)
    <3>1. TopLinkCalls \in Seq(Call)
      BY <1>5, <1>9, TopTypes DEF StartTopLink, TypeInv, Counters, Walking
    <3> QED
      BY <1>6, <1>9, <3>1 DEF StartTopLink, Makes
  <2> QED
    BY <1>3, <1>9, <2>1, <2>2 DEF StartTopLink
<1>10. CASE StartTopDevice
  <2>1. Counters'
    BY <1>0, <1>4, <1>5, <1>10 DEF StartTopDevice, TypeInv, Counters, topology, Ops
  <2>2. calls' \in Seq(Call)
    BY <1>6, <1>10, TopTypes DEF StartTopDevice, Makes, Walking
  <2> QED
    BY <1>3, <1>10, <2>1, <2>2 DEF StartTopDevice
<1>11. CASE FsmStop
  <2>1. Counters'
    BY <1>0, <1>4, <1>5, <1>11 DEF FsmStop, Counters, Ops, topology
  <2> QED
    BY <1>3, <1>6, <1>11, <2>1 DEF FsmStop
<1>12. CASE StopTopDevice
  <2>1. Counters'
    BY <1>4, <1>5, <1>12 DEF StopTopDevice, TypeInv, Counters, topology
  <2>2. calls' \in Seq(Call)
    BY <1>6, <1>12, TopTypes DEF StopTopDevice, Makes, Walking
  <2> QED
    BY <1>3, <1>12, <2>1, <2>2 DEF StopTopDevice
<1>13. CASE StopTopLink
  <2>1. Counters'
    BY <1>4, <1>5, <1>13 DEF StopTopLink, TypeInv, Counters, topology
  <2>2. calls' \in Seq(Call)
    BY <1>5, <1>6, <1>13, TopTypes DEF StopTopLink, Makes, Walking
  <2> QED
    BY <1>3, <1>13, <2>1, <2>2 DEF StopTopLink
<1>14. CASE StopDevice
  <2>1. Counters'
    BY <1>4, <1>5, <1>14 DEF StopDevice, TypeInv, Counters, topology
  <2>2. calls' \in Seq(Call)
    <3>1. DeviceCalls(devs[dev]) \in Seq(Call)
      BY <1>5, <1>14, DeviceTypes DEF StopDevice, Walking
    <3> QED
      BY <1>6, <1>14, <3>1 DEF StopDevice, CallDevice, Makes
  <2> QED
    BY <1>3, <1>14, <2>1, <2>2 DEF StopDevice
<1>15. CASE StopLinkDone
  <2>1. Counters'
    BY <1>4, <1>5, <1>15 DEF StopLinkDone, TypeInv, Counters, topology
  <2> QED
    BY <1>3, <1>6, <1>15, <2>1 DEF StopLinkDone
<1>16. CASE StopOpDone
  <2>1. Counters'
    BY <1>0, <1>4, <1>5, <1>16 DEF StopOpDone, TypeInv, Counters, topology, Ops
  <2> QED
    BY <1>3, <1>6, <1>16, <2>1 DEF StopOpDone
<1> QED
  BY <1>1, <1>2, <1>7, <1>8, <1>9, <1>10, <1>11, <1>12, <1>13, <1>14, <1>15, <1>16 DEF Next

-----------------------------------------------------------------------------
(* Turns *)

\* What there is to call.
LEMMA SuppliedFacts ==
  ASSUME TypeInv, pc # "new", NEW c \in AllSupplied
  PROVE  /\ c \in Call /\ c.link # Sysref /\ c.dev \in DOMAIN args
         /\ c = [reason |-> c.reason, op |-> c.op, dev |-> c.dev, link |-> c.link]
         /\ c.dev # top => \E k \in DOMAIN devs : devs[k] = c.dev
         /\ IF c.link = NoLink
            THEN /\ c.op \in args[c.dev].per_device
                 /\ c.dev # top => \E n \in DOMAIN Links : Links[n] \in Ids(c.dev)
            ELSE /\ c.op \in args[c.dev].per_link /\ c.link \in Ids(c.dev)
                 /\ \E n \in DOMAIN Links : Links[n] = c.link
<1> DEFINE R == [reason : {"start", "stop"}, op : Ops, dev : DOMAIN args,
                 link : TopLinks \cup {NoLink}]
<1>1. c \in R /\ IF c.link = NoLink
                 THEN /\ c.op \in args[c.dev].per_device
                      /\ c.dev = top \/ Ids(c.dev) \cap TopLinks # {}
                 ELSE c.op \in args[c.dev].per_link /\ c.link \in Ids(c.dev)
  BY DEF AllSupplied, Supplied
<1>2. \A l \in TopLinks : l \in Nat \ {0} /\ \E n \in DOMAIN Links : Links[n] = l
  BY LinkFacts
<1>3. DOMAIN args \subseteq Nat
  BY LinkFacts
<1>4. c \in Call /\ c.link # Sysref /\ c.dev \in DOMAIN args
      /\ c = [reason |-> c.reason, op |-> c.op, dev |-> c.dev, link |-> c.link]
  BY <1>1, <1>2, <1>3 DEF Call, NoLink, Sysref
<1>5. c.dev # top => \E k \in DOMAIN devs : devs[k] = c.dev
  BY <1>4 DEF TypeInv, Topology
<1>6. c.link # NoLink => c.link \in TopLinks
  BY <1>1
<1> QED
  BY <1>1, <1>2, <1>4, <1>5, <1>6

LEMMA SuppliedIs ==
  ASSUME TypeInv, Walking, NEW d \in DOMAIN args
  PROVE  /\ (/\ op \in args[d].per_device
             /\ d = top \/ \E n \in DOMAIN Links : Links[n] \in Ids(d))
              => Called(d, NoLink) \in AllSupplied
         /\ \A n \in DOMAIN Links : Links[n] \in Ids(d) /\ op \in args[d].per_link
              => Called(d, Links[n]) \in AllSupplied
<1>1. op \in Ops /\ pc \in {"start", "stop"}
  BY DEF TypeInv, Counters, Walking
<1>2. \A n \in DOMAIN Links : Links[n] \in TopLinks /\ Links[n] # NoLink
  BY LinkFacts DEF Walking, NoLink
<1>3. ASSUME op \in args[d].per_device, d = top \/ \E n \in DOMAIN Links : Links[n] \in Ids(d)
      PROVE  Called(d, NoLink) \in AllSupplied
  <2>1. d = top \/ Ids(d) \cap TopLinks # {}
    BY <1>2, <1>3
  <2> QED
    BY <1>1, <1>3, <2>1 DEF AllSupplied, Supplied, Called
<1>4. ASSUME NEW n \in DOMAIN Links, Links[n] \in Ids(d), op \in args[d].per_link
      PROVE  Called(d, Links[n]) \in AllSupplied
  BY <1>1, <1>2, <1>4 DEF AllSupplied, Supplied, Called
<1> QED
  BY <1>3, <1>4

\* While the topology stays, so do the callbacks there are, and their order.
LEMMA Same ==
  ASSUME UNCHANGED topology
  PROVE  /\ Links' = Links /\ NbLinks' = NbLinks /\ AllSupplied' = AllSupplied
         /\ \A d : Ids(d)' = Ids(d)
         /\ \A s, S : Records(s, S) => Records(s, S)'
<1>1. args' = args /\ top' = top /\ devs' = devs
  BY DEF topology
<1>2. \A d : Ids(d)' = Ids(d)
  BY <1>1 DEF Ids
<1>3. Links' = Links /\ NbLinks' = NbLinks
  BY <1>1 DEF Links, NbLinks
<1>4. TopLinks' = TopLinks
  BY <1>1 DEF TopLinks, Ids
<1>5. AllSupplied' = AllSupplied
  BY <1>1, <1>2, <1>4 DEF AllSupplied, Supplied
<1>6. \A c, e : Must(c, e)' <=> Must(c, e)
  BY <1>1 DEF Must, Precedes
<1>7. \A s, S : Records(s, S) => Records(s, S)'
  BY <1>6 DEF Records
<1> QED
  BY <1>2, <1>3, <1>5, <1>7

\* The callbacks due after a step.
LEMMA DueAfter ==
  ASSUME UNCHANGED topology, NEW N \in SUBSET AllSupplied,
         \A c \in AllSupplied : Past(c)' <=> Past(c) \/ c \in N
  PROVE  Due' = Due \cup N
<1>1. AllSupplied' = AllSupplied
  BY Same
<1> QED
  BY <1>1 DEF Due

\* Of the callbacks that are due in the op at hand nobody is later.
LEMMA DueOps ==
  ASSUME TypeInv, Walking, NEW e \in Due, e.reason = pc
  PROVE  /\ pc = "start" => e.op <= op
         /\ pc = "stop" => e.op >= op
         /\ e.op = op => Turn(e)
<1>1. op \in Int /\ e.op \in Int
  BY SuppliedFacts DEF TypeInv, Counters, Walking, Due, Call, Ops
<1>2. Past(e)
  BY DEF Due
<1> QED
  BY <1>1, <1>2 DEF Past, Walking

\* A callback of the op at hand can only be late for another one of this op.
LEMMA MustNow ==
  ASSUME TypeInv, Walking, NEW c, c.reason = pc, c.op = op, NEW e \in Due, Must(c, e)
  PROVE  e \in AllSupplied /\ e.reason = pc /\ Turn(e) /\ Precedes(c, e)
<1>1. e \in AllSupplied /\ e.reason = pc
  BY DEF Due, Must
<1>2. e.op \in Int /\ op \in Int
  BY <1>1, SuppliedFacts DEF Call, Ops, TypeInv, Counters, Walking
<1>3. /\ pc = "start" => e.op <= op
      /\ pc = "stop" => e.op >= op
      /\ e.op = op => Turn(e)
  BY <1>1, DueOps
<1>4. pc = "start" \/ pc = "stop"
  BY DEF Walking
<1>5. e.op = op /\ Precedes(c, e)
  BY <1>2, <1>3, <1>4 DEF Must
<1> QED
  BY <1>1, <1>3, <1>5

\* A visit of the device at hand, up or down: its callbacks are made unless the flag
\* says that the per_device callback was.
LEMMA DeviceStep ==
  ASSUME TypeInv, Walking, Flags, Records(calls, Due), UNCHANGED <<topology, pc, op, lnk>>,
         lnk \in DOMAIN Links, dev \in DOMAIN devs,
         dev' = IF pc = "start" THEN dev + 1 ELSE dev - 1, CallDevice(devs[dev])
  PROVE  Flags' /\ Records(calls', Due')
<1> DEFINE d == devs[dev]
           l == Links[lnk]
           cd == Called(d, NoLink)
           cl == Called(d, l)
<1>0. /\ d \in DOMAIN args /\ d # top /\ l \in Nat \ {0}
      /\ DOMAIN Links = 1 .. NbLinks /\ NbLinks \in Nat
      /\ DOMAIN devs = 1 .. Len(devs) /\ Len(devs) \in Nat /\ lnk \in Nat /\ dev \in Nat
  BY LinkFacts DEF Walking
<1>s. /\ Links' = Links /\ NbLinks' = NbLinks /\ AllSupplied' = AllSupplied
      /\ \A x : Ids(x)' = Ids(x)
      /\ args' = args /\ top' = top /\ devs' = devs /\ pc' = pc /\ op' = op /\ lnk' = lnk
  BY Same DEF topology
<1>t. pc \in {"start", "stop"}
  BY DEF Walking
<1>1. ASSUME NEW n \in DOMAIN Links, NEW k \in DOMAIN devs
      PROVE  /\ Visited(n, k)' <=> Visited(n, k) \/ (n = lnk /\ k = dev)
             /\ LinkDone(n)' <=> LinkDone(n)
  BY <1>0, <1>s, <1>t DEF Visited, LinkDone
<1>2. (TopDone' <=> TopDone) /\ ~Visited(lnk, dev)
  BY <1>0, <1>s DEF TopDone, Visited
<1> DEFINE Now(c) == c.dev = d /\ IF c.link = NoLink THEN l \in Ids(d) ELSE c.link = l
<1>3. ASSUME NEW c PROVE Turn(c)' <=> Turn(c) \/ Now(c)
  <2>1. CASE c.dev = top
    BY <1>0, <1>s, <1>1, <1>2, <2>1 DEF Turn
  <2>2. CASE c.dev # top
    <3> DEFINE On(n) == IF c.link = NoLink THEN Links[n] \in Ids(c.dev) ELSE Links[n] = c.link
    <3>1. Turn(c) <=> \E n \in DOMAIN Links, k \in DOMAIN devs :
                        devs[k] = c.dev /\ Visited(n, k) /\ On(n)
      BY <2>2 DEF Turn
    <3>2. Turn(c)' <=> \E n \in DOMAIN Links, k \in DOMAIN devs :
                         devs[k] = c.dev /\ Visited(n, k)' /\ On(n)
      BY <1>s, <2>2 DEF Turn
    <3>3. Now(c) <=> c.dev = d /\ On(lnk)
      OBVIOUS
    <3> HIDE DEF On, Now
    <3> QED
      BY <1>1, <3>1, <3>2, <3>3
  <2> QED
    BY <2>1, <2>2
<1> HIDE DEF Now
<1>4. ASSUME NEW c \in AllSupplied
      PROVE  Past(c)' <=> Past(c) \/ (c.reason = pc /\ c.op = op /\ Now(c))
  <2>1. c.reason \in {"start", "stop"}
    BY SuppliedFacts DEF Call, Walking
  <2> QED
    BY <1>s, <1>t, <1>3, <2>1 DEF Past
<1>5. ~Turn(cl)
  <2> SUFFICES ASSUME Turn(cl) PROVE FALSE
    OBVIOUS
  <2>1. cl.dev = d /\ cl.link = l /\ l # NoLink
    BY <1>0 DEF Called, NoLink
  <2>2. PICK n \in DOMAIN Links, k \in DOMAIN devs :
          devs[k] = d /\ Visited(n, k) /\ Links[n] = l
    BY <1>0, <2>1 DEF Turn
  <2>3. n = lnk
    BY <2>2, LinkFacts DEF Walking
  <2>4. k = dev
    BY <2>2 DEF TypeInv, Topology, Walking
  <2> QED
    BY <1>2, <2>2, <2>3, <2>4
<1>6. op \in args[d].per_device => (d \in done <=> Turn(cd))
  BY <1>0 DEF Flags, Walking, Called
<1>7. l \in Ids(d) <=> Attached(d)
  BY DEF Attached, Links
<1> DEFINE ND == IF PerDevice(d) THEN {cd} ELSE {}
           NL == IF Attached(d) /\ op \in args[d].per_link THEN {cl} ELSE {}
<1>8. (PerDevice(d) => cd \in AllSupplied)
      /\ (Attached(d) /\ op \in args[d].per_link => cl \in AllSupplied)
  BY <1>0, <1>7, SuppliedIs DEF PerDevice
<1>9. Due' = Due \cup (ND \cup NL)
  <2>1. ND \cup NL \in SUBSET AllSupplied
    BY <1>8
  <2>2. ASSUME NEW c \in AllSupplied
        PROVE  Past(c)' <=> Past(c) \/ c \in ND \cup NL
    <3>1. /\ c = [reason |-> c.reason, op |-> c.op, dev |-> c.dev, link |-> c.link]
          /\ IF c.link = NoLink THEN c.op \in args[c.dev].per_device
                                ELSE c.op \in args[c.dev].per_link /\ c.link \in Ids(c.dev)
      BY SuppliedFacts DEF Walking
    <3>2. c = cd <=> c.reason = pc /\ c.op = op /\ c.dev = d /\ c.link = NoLink
      BY <3>1 DEF Called
    <3>3. c = cl <=> c.reason = pc /\ c.op = op /\ c.dev = d /\ c.link = l
      BY <3>1 DEF Called
    <3>4. l # NoLink
      BY <1>0 DEF NoLink
    <3>5. CASE c.link = NoLink
      <4>1. Past(c)' <=> Past(c) \/ (c = cd /\ Attached(d))
        BY <1>4, <1>7, <3>2, <3>5 DEF Now
      <4>2. c \notin NL
        BY <3>3, <3>4, <3>5
      <4>3. c = cd /\ Attached(d) => (PerDevice(d) \/ Past(c))
        <5> SUFFICES ASSUME c = cd, Attached(d), ~PerDevice(d) PROVE Past(c)
          OBVIOUS
        <5>1. op \in args[d].per_device
          BY <3>1, <3>2, <3>5
        <5>2. Turn(c) /\ c.reason = pc /\ c.op = op
          BY <1>6, <3>2, <5>1 DEF PerDevice
        <5> QED
          BY <1>t, <5>2 DEF Past
      <4>4. PerDevice(d) => Attached(d)
        BY DEF PerDevice
      <4> QED
        BY <4>1, <4>2, <4>3, <4>4
    <3>6. CASE c.link # NoLink
      <4>1. Past(c)' <=> Past(c) \/ c = cl
        BY <1>4, <3>3, <3>6 DEF Now
      <4>2. c = cl => Attached(d) /\ op \in args[d].per_link
        BY <1>7, <3>1, <3>3, <3>6
      <4>3. c \notin ND
        BY <3>2, <3>6
      <4> QED
        BY <4>1, <4>2, <4>3
    <3> QED
      BY <3>5, <3>6
  <2> HIDE DEF ND, NL
  <2> QED
    BY <2>1, <2>2, DueAfter
<1>10. PerDevice(d) => Records(Append(calls, cd), Due \cup {cd})
  <2> SUFFICES ASSUME PerDevice(d) PROVE Records(Append(calls, cd), Due \cup {cd})
    OBVIOUS
  <2>1. cd \in Call /\ cd.link = NoLink /\ cd.link # Sysref /\ cd.dev = d /\ cd.reason = pc
        /\ cd.op = op
    BY <1>0, CallTypes DEF Called, NoLink, Sysref
  <2>2. ~Turn(cd)
    BY <1>6 DEF PerDevice
  <2>3. cd \notin Due
    BY <2>1, <2>2, DueOps
  <2>4. ASSUME NEW e \in Due, Must(cd, e) PROVE FALSE
    <3>3. e \in AllSupplied /\ e.reason = pc /\ Turn(e) /\ Precedes(cd, e)
      BY <2>1, <2>4, MustNow
    <3>4. CASE pc = "start" /\ e.dev = top /\ e.link = NoLink
      BY <3>3, <3>4 DEF Turn, TopDone
    <3>5. CASE e.dev = d /\ e.link # NoLink
      <4>1. PICK n \in DOMAIN Links, k \in DOMAIN devs :
              devs[k] = d /\ Visited(n, k) /\ Links[n] = e.link
        BY <1>0, <3>3, <3>5 DEF Turn
      <4>2. Links[n] \in Ids(d)
        BY <3>3, <3>5, <4>1, SuppliedFacts DEF Walking
      <4>3. Turn(cd)
        BY <1>0, <2>1, <4>1, <4>2 DEF Turn
      <4> QED
        BY <2>2, <4>3
    <3> QED
      BY <1>0, <1>t, <2>1, <3>3, <3>4, <3>5 DEF Precedes
  <2> QED
    BY <2>1, <2>3, <2>4, RecordsCallback
<1>11. ASSUME NEW s, Records(s, Due \cup ND), Attached(d), op \in args[d].per_link
       PROVE  Records(Append(s, cl), (Due \cup ND) \cup {cl})
  <2>1. cl \in Call /\ cl.link = l /\ cl.dev = d /\ cl.reason = pc /\ cl.op = op
    BY <1>0, CallTypes DEF Called
  <2>2. cl.link # NoLink /\ cl.link # Sysref
    BY <1>0, <2>1 DEF NoLink, Sysref
  <2>3. cl \notin Due \cup ND
    <3>1. cl \notin Due
      BY <1>5, <2>1, DueOps
    <3> QED
      BY <2>2, <3>1 DEF Called
  <2>4. ASSUME NEW e \in Due, Must(cl, e) PROVE FALSE
    <3>3. e \in AllSupplied /\ e.reason = pc /\ Turn(e) /\ Precedes(cl, e)
      BY <2>1, <2>4, MustNow
    <3>4. pc = "start" /\ e.dev = top /\ e.link \in {NoLink, l}
      BY <1>0, <1>t, <2>1, <2>2, <3>3 DEF Precedes
    <3>5. CASE e.link = NoLink
      BY <3>3, <3>4, <3>5 DEF Turn, TopDone
    <3>6. CASE e.link = l
      <4>1. PICK n \in DOMAIN Links : Links[n] = l /\ LinkDone(n)
        BY <2>1, <2>2, <3>3, <3>4, <3>6 DEF Turn
      <4>2. n = lnk
        BY <4>1, LinkFacts DEF Walking
      <4> QED
        BY <1>0, <3>4, <4>1, <4>2 DEF LinkDone
    <3> QED
      BY <3>4, <3>5, <3>6
  <2>5. ~Must(cl, cd)
    BY <1>0, <1>t, <2>1, <2>2 DEF Must, Precedes, Called, NoLink, TypeInv, Counters, Walking, Ops
  <2>6. \A e \in Due \cup ND : ~Must(cl, e)
    BY <2>4, <2>5
  <2> HIDE DEF ND, cl
  <2> QED
    BY <2>1, <2>2, <2>3, <2>6, <1>11, RecordsCallback
<1>12. Records(calls', Due')
  <2>0. calls' = calls \o DeviceCalls(d) /\ calls \in Seq(Call)
    BY DEF CallDevice, Makes, TypeInv
  <2>1. DeviceCalls(d) = (IF PerDevice(d) THEN <<cd>> ELSE <<>>)
          \o (IF Attached(d) /\ op \in args[d].per_link THEN <<cl>> ELSE <<>>)
    BY DEF DeviceCalls, If, Links
  <2>2. cd \in Call /\ cl \in Call
    BY <1>0, CallTypes
  <2> DEFINE s == IF PerDevice(d) THEN Append(calls, cd) ELSE calls
  <2>3. Records(s, Due \cup ND)
    BY <1>10
  <2>4. calls' = IF Attached(d) /\ op \in args[d].per_link THEN Append(s, cl) ELSE s
    <3> HIDE DEF cd, cl, d
    <3>1. CASE PerDevice(d) /\ Attached(d) /\ op \in args[d].per_link
      <4>1. calls' = calls \o (<<cd>> \o <<cl>>)
        BY <2>0, <2>1, <3>1
      <4> QED
        BY <2>0, <2>2, <3>1, <4>1
    <3>2. CASE PerDevice(d) /\ ~(Attached(d) /\ op \in args[d].per_link)
      <4>1. calls' = calls \o (<<cd>> \o <<>>)
        BY <2>0, <2>1, <3>2
      <4> QED
        BY <2>0, <2>2, <3>2, <4>1
    <3>3. CASE ~PerDevice(d) /\ Attached(d) /\ op \in args[d].per_link
      <4>1. calls' = calls \o (<<>> \o <<cl>>)
        BY <2>0, <2>1, <3>3
      <4> QED
        BY <2>0, <2>2, <3>3, <4>1
    <3>4. CASE ~PerDevice(d) /\ ~(Attached(d) /\ op \in args[d].per_link)
      <4>1. calls' = calls \o (<<>> \o <<>>)
        BY <2>0, <2>1, <3>4
      <4> QED
        BY <2>0, <3>4, <4>1
    <3> QED
      BY <3>1, <3>2, <3>3, <3>4
  <2>5. CASE Attached(d) /\ op \in args[d].per_link
    <3>1. Records(Append(s, cl), (Due \cup ND) \cup {cl})
      <4> HIDE DEF s, ND, cl
      <4> QED
        BY <1>11, <2>3, <2>5
    <3>2. Due' = (Due \cup ND) \cup {cl}
      BY <1>9, <2>5
    <3>3. calls' = Append(s, cl)
      BY <2>4, <2>5
    <3> HIDE DEF s, ND, cl
    <3> QED
      BY <3>1, <3>2, <3>3
  <2>6. CASE ~(Attached(d) /\ op \in args[d].per_link)
    <3>1. calls' = s /\ Due' = Due \cup ND
      BY <1>9, <2>4, <2>6
    <3> HIDE DEF s, ND
    <3> QED
      BY <2>3, <3>1
  <2> QED
    BY <2>5, <2>6
<1>13. Flags'
  <2> DEFINE c(x) == [reason |-> pc, op |-> op, dev |-> x, link |-> NoLink]
  <2>1. done = {x \in DOMAIN args : x # top /\ op \in args[x].per_device /\ Turn(c(x))}
    BY DEF Flags, Walking
  <2>2. \A x : Turn(c(x))' <=> Turn(c(x)) \/ (x = d /\ Attached(d))
    BY <1>s, <1>3, <1>7 DEF Now
  <2>3. done' = IF PerDevice(d) THEN done \cup {d} ELSE done
    BY DEF CallDevice
  <2>4. done' = {x \in DOMAIN args : x # top /\ op \in args[x].per_device /\ Turn(c(x))'}
    BY <1>0, <2>1, <2>2, <2>3 DEF PerDevice
  <2> QED
    BY <1>s, <2>4 DEF Flags
<1> QED
  BY <1>12, <1>13

\* The callback of the top device, and sysref_cb behind it.
LEMMA TopRecords ==
  ASSUME TypeInv, Walking, Records(calls, Due), NEW there \in BOOLEAN, NEW link,
         link # Sysref, Makes(TopCalls(there, link)),
         there => /\ Called(top, link) \in Call /\ Called(top, link) \notin Due
                  /\ \A e \in Due : ~Must(Called(top, link), e)
  PROVE  Records(calls', Due \cup (IF there THEN {Called(top, link)} ELSE {}))
<1> DEFINE c == Called(top, link)
           y == Called(sysref, Sysref)
<1>0. calls' = calls \o TopCalls(there, link) /\ calls \in Seq(Call)
  BY DEF Makes, TypeInv
<1>1. CASE ~there
  <2>1. calls' = calls
    BY <1>0, <1>1 DEF TopCalls
  <2>2. Due \cup (IF there THEN {c} ELSE {}) = Due
    BY <1>1
  <2> QED
    BY <2>1, <2>2
<1>2. CASE there
  <2>1. c \in Call /\ c.link # Sysref
    BY <1>2 DEF Called
  <2>2. Records(Append(calls, c), Due \cup {c})
    BY <1>2, <2>1, RecordsCallback
  <2>3. y \in Call /\ y.link = Sysref
    BY CallTypes DEF Called
  <2>4. Records(Append(Append(calls, c), y), Due \cup {c})
    BY <2>2, <2>3, RecordsSysref
  <2>5. calls' = Append(calls, c) \/ calls' = Append(Append(calls, c), y)
    <3>1. TopCalls(there, link) = <<c>> \o <<>> \/ TopCalls(there, link) = <<c>> \o <<y>>
      BY <1>2 DEF TopCalls, SysrefCalls, If
    <3> HIDE DEF c, y
    <3>2. CASE TopCalls(there, link) = <<c>> \o <<>>
      <4>1. calls' = calls \o (<<c>> \o <<>>)
        BY <1>0, <3>2
      <4> QED
        BY <1>0, <2>1, <4>1
    <3>3. CASE TopCalls(there, link) = <<c>> \o <<y>>
      <4>1. calls' = calls \o (<<c>> \o <<y>>)
        BY <1>0, <3>3
      <4> QED
        BY <1>0, <2>1, <2>3, <4>1
    <3> QED
      BY <3>1, <3>2, <3>3
  <2> QED
    BY <1>2, <2>2, <2>4, <2>5
<1> QED
  BY <1>1, <1>2

\* The per_link callback of the top device, after the devices on the way up and before
\* them on the way down.
LEMMA TopLinkStep ==
  ASSUME TypeInv, Walking, Flags, Records(calls, Due), UNCHANGED <<topology, pc, op, done>>,
         lnk \in DOMAIN Links, dev = Len(devs) + 1, Makes(TopLinkCalls),
         IF pc = "start" THEN lnk' = lnk + 1 /\ dev' = 1 ELSE lnk' = lnk /\ dev' = dev - 1
  PROVE  Flags' /\ Records(calls', Due')
<1> DEFINE l == Links[lnk]
           c == Called(top, l)
           there == op \in args[top].per_link
<1>0. /\ top \in DOMAIN args /\ l \in Nat \ {0} /\ l \in Ids(top)
      /\ DOMAIN Links = 1 .. NbLinks /\ NbLinks \in Nat
      /\ DOMAIN devs = 1 .. Len(devs) /\ Len(devs) \in Nat /\ lnk \in Nat
      /\ \A k \in DOMAIN devs : devs[k] # top
  BY LinkFacts DEF TypeInv, Topology, Walking, TopLinks
<1>s. /\ Links' = Links /\ NbLinks' = NbLinks /\ AllSupplied' = AllSupplied
      /\ \A x : Ids(x)' = Ids(x)
      /\ args' = args /\ top' = top /\ devs' = devs /\ pc' = pc /\ op' = op
  BY Same DEF topology
<1>t. pc \in {"start", "stop"}
  BY DEF Walking
<1>1. ASSUME NEW n \in DOMAIN Links, NEW k \in DOMAIN devs
      PROVE  Visited(n, k)' <=> Visited(n, k)
  BY <1>0, <1>s, <1>t DEF Visited
<1>2. ASSUME NEW n \in DOMAIN Links
      PROVE  LinkDone(n)' <=> LinkDone(n) \/ n = lnk
  BY <1>0, <1>s, <1>t DEF LinkDone
<1>3. (TopDone' <=> TopDone) /\ ~LinkDone(lnk)
  BY <1>0, <1>s, <1>t DEF TopDone, LinkDone
<1>4. ASSUME NEW x PROVE Turn(x)' <=> Turn(x) \/ (x.dev = top /\ x.link = l)
  <2>1. CASE x.dev = top /\ x.link = NoLink
    BY <1>0, <1>s, <1>3, <2>1 DEF Turn, NoLink
  <2>2. CASE x.dev = top /\ x.link # NoLink
    BY <1>s, <1>2, <2>2 DEF Turn
  <2>3. CASE x.dev # top
    BY <1>s, <1>1, <2>3 DEF Turn
  <2> QED
    BY <2>1, <2>2, <2>3
<1>5. c \in Call /\ c.reason = pc /\ c.op = op /\ c.dev = top /\ c.link = l /\ l # NoLink
      /\ l # Sysref
  BY <1>0, CallTypes DEF Called, NoLink, Sysref
<1>6. ~Turn(c)
  <2> SUFFICES ASSUME Turn(c) PROVE FALSE
    OBVIOUS
  <2>1. PICK n \in DOMAIN Links : Links[n] = l /\ LinkDone(n)
    BY <1>5 DEF Turn
  <2>2. n = lnk
    BY <2>1, LinkFacts DEF Walking
  <2> QED
    BY <1>3, <2>1, <2>2
<1>7. c \notin Due
  BY <1>5, <1>6, DueOps
<1>8. ASSUME NEW e \in Due, Must(c, e) PROVE FALSE
  <2>1. e \in AllSupplied /\ e.reason = pc /\ Turn(e) /\ Precedes(c, e)
    BY <1>5, <1>8, MustNow
  <2>2. CASE pc = "start"
    <3>1. e.dev = top /\ e.link = NoLink
      BY <1>5, <2>1, <2>2 DEF Precedes
    <3> QED
      BY <2>1, <2>2, <3>1 DEF Turn, TopDone
  <2>3. CASE pc = "stop"
    <3>1. e.dev # top /\ e.link = l
      BY <1>5, <2>1, <2>3 DEF Precedes
    <3>2. PICK n \in DOMAIN Links, k \in DOMAIN devs : Visited(n, k) /\ Links[n] = l
      BY <1>5, <2>1, <3>1 DEF Turn
    <3>3. n = lnk
      BY <3>2, LinkFacts DEF Walking
    <3> QED
      BY <1>0, <2>3, <3>2, <3>3 DEF Visited
  <2> QED
    BY <1>t, <2>2, <2>3
<1>9. there => c \in AllSupplied
  BY <1>0, SuppliedIs
<1>10. Due' = Due \cup (IF there THEN {c} ELSE {})
  <2>1. (IF there THEN {c} ELSE {}) \in SUBSET AllSupplied
    BY <1>9
  <2>2. ASSUME NEW x \in AllSupplied
        PROVE  Past(x)' <=> Past(x) \/ x \in (IF there THEN {c} ELSE {})
    <3>1. /\ x = [reason |-> x.reason, op |-> x.op, dev |-> x.dev, link |-> x.link]
          /\ x.reason \in {"start", "stop"}
          /\ x.link # NoLink => x.op \in args[x.dev].per_link
      BY SuppliedFacts DEF Walking, Call
    <3>2. x = c <=> x.reason = pc /\ x.op = op /\ x.dev = top /\ x.link = l
      BY <3>1 DEF Called
    <3>3. x = c => there
      BY <1>5, <3>1, <3>2
    <3>4. Past(x)' <=> Past(x) \/ x = c
      BY <1>s, <1>t, <1>4, <3>1, <3>2 DEF Past
    <3> QED
      BY <3>3, <3>4
  <2> HIDE DEF there, c
  <2> QED
    BY <2>1, <2>2, DueAfter
<1>11. Records(calls', Due')
  <2>1. Makes(TopCalls(there, l))
    BY DEF TopLinkCalls, Links
  <2>2. Records(calls', Due \cup (IF there THEN {Called(top, l)} ELSE {}))
    <3>1. /\ Called(top, l) \in Call /\ Called(top, l) \notin Due /\ l # Sysref
          /\ \A e \in Due : ~Must(Called(top, l), e)
      BY <1>5, <1>7, <1>8
    <3>2. there \in BOOLEAN
      OBVIOUS
    <3> HIDE DEF there, l
    <3> QED
      BY <2>1, <3>1, <3>2, TopRecords
  <2> QED
    BY <1>10, <2>2
<1>12. Flags'
  <2> DEFINE f(x) == [reason |-> pc, op |-> op, dev |-> x, link |-> NoLink]
  <2>1. done = {x \in DOMAIN args : x # top /\ op \in args[x].per_device /\ Turn(f(x))}
    BY DEF Flags, Walking
  <2>2. \A x : x # top => (Turn(f(x))' <=> Turn(f(x)))
    BY <1>s, <1>4
  <2>3. done' = done
    OBVIOUS
  <2>4. done' = {x \in DOMAIN args : x # top /\ op \in args[x].per_device /\ Turn(f(x))'}
    BY <2>1, <2>2, <2>3
  <2> QED
    BY <1>s, <2>4 DEF Flags
<1> QED
  BY <1>11, <1>12

\* Where a walk through an op begins, no callback of it had its turn.
LEMMA FirstTurn ==
  ASSUME TypeInv, pc # "new", UNCHANGED topology,
         \/ pc' = "start" /\ lnk' = 1 /\ dev' = 1
         \/ pc' = "stop" /\ lnk' = NbLinks + 1,
         NEW c
  PROVE  ~Turn(c)'
<1>s. Links' = Links /\ NbLinks' = NbLinks /\ devs' = devs /\ top' = top
      /\ \A x : Ids(x)' = Ids(x)
  BY Same DEF topology
<1>0. /\ DOMAIN Links = 1 .. NbLinks /\ NbLinks \in Nat
      /\ DOMAIN devs = 1 .. Len(devs) /\ Len(devs) \in Nat
  BY LinkFacts
<1>1. ASSUME NEW n \in DOMAIN Links, NEW k \in DOMAIN devs PROVE ~Visited(n, k)'
  BY <1>0 DEF Visited
<1>2. ASSUME NEW n \in DOMAIN Links PROVE ~LinkDone(n)'
  BY <1>0, <1>s DEF LinkDone
<1>3. ~TopDone'
  BY <1>0, <1>s DEF TopDone
<1> QED
  BY <1>s, <1>1, <1>2, <1>3 DEF Turn

\* Where it ends, all of them had, up to the per_device callback of the top device on
\* the way up.
LEMMA LastTurn ==
  ASSUME TypeInv, NEW c \in AllSupplied,
         \/ pc = "start" /\ lnk = NbLinks + 1 /\ ~(c.dev = top /\ c.link = NoLink)
         \/ pc = "stop" /\ lnk = 0
  PROVE  Turn(c)
<1>0. /\ DOMAIN Links = 1 .. NbLinks /\ NbLinks \in Nat
      /\ DOMAIN devs = 1 .. Len(devs) /\ Len(devs) \in Nat
  BY LinkFacts
<1>1. ASSUME NEW n \in DOMAIN Links, NEW k \in DOMAIN devs PROVE Visited(n, k)
  BY <1>0 DEF Visited
<1>2. ASSUME NEW n \in DOMAIN Links PROVE LinkDone(n)
  BY <1>0 DEF LinkDone
<1>3. CASE c.dev = top /\ c.link = NoLink
  BY <1>0, <1>3 DEF Turn, TopDone
<1>4. CASE c.dev = top /\ c.link # NoLink
  <2>1. \E n \in DOMAIN Links : Links[n] = c.link
    BY <1>4, SuppliedFacts
  <2> QED
    BY <1>2, <1>4, <2>1 DEF Turn
<1>5. CASE c.dev # top
  <2>1. PICK k \in DOMAIN devs : devs[k] = c.dev
    BY <1>5, SuppliedFacts
  <2>2. CASE c.link = NoLink
    <3>1. PICK n \in DOMAIN Links : Links[n] \in Ids(c.dev)
      BY <1>5, <2>2, SuppliedFacts
    <3> QED
      BY <1>1, <1>5, <2>1, <2>2, <3>1 DEF Turn
  <2>3. CASE c.link # NoLink
    <3>1. PICK n \in DOMAIN Links : Links[n] = c.link
      BY <2>3, SuppliedFacts
    <3> QED
      BY <1>1, <1>5, <2>1, <2>3, <3>1 DEF Turn
  <2> QED
    BY <2>2, <2>3
<1> QED
  BY <1>3, <1>4, <1>5

\* The per_device callback of the top device, last on the way up and first on the
\* way down.
LEMMA TopDeviceRecords ==
  ASSUME TypeInv, Walking, Records(calls, Due), lnk = NbLinks + 1, Makes(TopDeviceCalls)
  PROVE  Records(calls', Due \cup (IF op \in args[top].per_device
                                   THEN {Called(top, NoLink)} ELSE {}))
<1> DEFINE c == Called(top, NoLink)
           there == op \in args[top].per_device
<1>0. /\ top \in DOMAIN args
      /\ DOMAIN Links = 1 .. NbLinks /\ NbLinks \in Nat
      /\ DOMAIN devs = 1 .. Len(devs) /\ Len(devs) \in Nat
  BY LinkFacts DEF TypeInv, Topology, Walking
<1>t. pc \in {"start", "stop"}
  BY DEF Walking
<1>1. c \in Call /\ c.reason = pc /\ c.op = op /\ c.dev = top /\ c.link = NoLink
      /\ NoLink # Sysref
  BY <1>0, CallTypes DEF Called, NoLink, Sysref
<1>2. ~Turn(c)
  BY <1>0, <1>1 DEF Turn, TopDone
<1>3. c \notin Due
  BY <1>1, <1>2, DueOps
<1>4. ASSUME NEW e \in Due, Must(c, e) PROVE FALSE
  <2>1. e \in AllSupplied /\ e.reason = pc /\ Turn(e) /\ Precedes(c, e)
    BY <1>1, <1>4, MustNow
  <2>2. pc = "stop" /\ (e.dev = top => e.link # NoLink)
    BY <1>t, <1>1, <2>1 DEF Precedes
  <2>3. ASSUME NEW n \in DOMAIN Links, NEW k \in DOMAIN devs PROVE ~Visited(n, k)
    BY <1>0, <2>2 DEF Visited
  <2>4. ASSUME NEW n \in DOMAIN Links PROVE ~LinkDone(n)
    BY <1>0, <2>2 DEF LinkDone
  <2> QED
    BY <2>1, <2>2, <2>3, <2>4 DEF Turn
<1>5. Makes(TopCalls(there, NoLink)) /\ there \in BOOLEAN
  BY DEF TopDeviceCalls
<1>6. /\ Called(top, NoLink) \in Call /\ Called(top, NoLink) \notin Due
      /\ \A e \in Due : ~Must(Called(top, NoLink), e)
  BY <1>1, <1>3, <1>4
<1>7. Records(calls', Due \cup (IF there THEN {Called(top, NoLink)} ELSE {}))
  <2> HIDE DEF there, c
  <2> QED
    BY <1>1, <1>5, <1>6, TopRecords
<1> QED
  BY <1>7

\* The per_device callback ends the op on the way up.
LEMMA StartTopDeviceStep ==
  ASSUME TypeInv, Flags, Records(calls, Due), StartTopDevice
  PROVE  Flags' /\ Records(calls', Due')
<1> DEFINE c == Called(top, NoLink)
           there == op \in args[top].per_device
           N == IF there THEN {c} ELSE {}
<1>1. /\ UNCHANGED topology /\ pc = "start" /\ lnk = NbLinks + 1 /\ Makes(TopDeviceCalls)
      /\ op' = op + 1 /\ lnk' = 1 /\ dev' = 1 /\ done' = {}
      /\ pc' = IF op + 1 = NbOps THEN "running" ELSE "start"
  BY DEF StartTopDevice, NextOpDone
<1>w. Walking
  BY <1>1 DEF Walking
<1>2. op \in Ops /\ top \in DOMAIN args
  BY <1>1 DEF TypeInv, Counters, Topology
<1>3. N \in SUBSET AllSupplied
  BY <1>w, <1>2, SuppliedIs
<1>4. ASSUME NEW x \in AllSupplied PROVE Past(x)' <=> Past(x) \/ x \in N
  <2>1. /\ x = [reason |-> x.reason, op |-> x.op, dev |-> x.dev, link |-> x.link]
        /\ x.reason \in {"start", "stop"} /\ x.op \in Ops
        /\ x.link = NoLink => x.op \in args[x.dev].per_device
    BY <1>1, SuppliedFacts DEF Call
  <2>2. x = c <=> x.reason = "start" /\ x.op = op /\ x.dev = top /\ x.link = NoLink
    BY <1>1, <2>1 DEF Called
  <2>3. x \in N <=> x = c
    BY <2>1, <2>2
  <2>4. ~(x.dev = top /\ x.link = NoLink) => Turn(x)
    BY <1>1, LastTurn
  <2>5. (x.dev = top /\ x.link = NoLink) => ~Turn(x)
    BY <1>1 DEF Turn, TopDone
  <2>6. Past(x) \/ x = c <=> x.reason = "start" /\ x.op <= op
    BY <1>1, <1>2, <2>1, <2>2, <2>4, <2>5, JesdAssumption DEF Past, Ops
  <2>7. CASE op + 1 = NbOps
    BY <1>1, <1>2, <2>1, <2>3, <2>6, <2>7, JesdAssumption DEF Past, Ops
  <2>8. CASE op + 1 # NbOps
    <3>1. ~Turn(x)'
      BY <1>1, <2>8, FirstTurn
    <3> QED
      BY <1>1, <1>2, <2>1, <2>3, <2>6, <2>8, <3>1, JesdAssumption DEF Past, Ops
  <2> QED
    BY <2>7, <2>8
<1>5. Due' = Due \cup N
  <2> HIDE DEF N
  <2> QED
    BY <1>1, <1>3, <1>4, DueAfter
<1>6. Records(calls', Due \cup N)
  BY <1>1, <1>w, TopDeviceRecords
<1>7. Flags'
  <2>1. pc' = "start" => \A x : ~Turn(x)'
    BY <1>1, FirstTurn
  <2> QED
    BY <1>1, <2>1 DEF Flags
<1> QED
  BY <1>5, <1>6, <1>7

\* It begins it on the way down.
LEMMA StopTopDeviceStep ==
  ASSUME TypeInv, Flags, Records(calls, Due), StopTopDevice
  PROVE  Flags' /\ Records(calls', Due')
<1> DEFINE c == Called(top, NoLink)
           there == op \in args[top].per_device
           N == IF there THEN {c} ELSE {}
<1>1. /\ UNCHANGED topology /\ pc = "stop" /\ pc' = pc /\ op' = op /\ dev' = dev /\ done' = done
      /\ lnk = NbLinks + 1 /\ Makes(TopDeviceCalls) /\ lnk' = lnk - 1
  BY DEF StopTopDevice
<1>w. Walking
  BY <1>1 DEF Walking
<1>0. /\ DOMAIN Links = 1 .. NbLinks /\ NbLinks \in Nat
      /\ DOMAIN devs = 1 .. Len(devs) /\ Len(devs) \in Nat /\ dev = Len(devs) + 1
      /\ op \in Ops /\ top \in DOMAIN args
  BY <1>1, LinkFacts DEF TypeInv, Counters, Topology
<1>s. /\ Links' = Links /\ NbLinks' = NbLinks /\ \A x : Ids(x)' = Ids(x)
      /\ args' = args /\ top' = top /\ devs' = devs
  BY <1>1, Same DEF topology
<1>2. ASSUME NEW n \in DOMAIN Links, NEW k \in DOMAIN devs
      PROVE  ~Visited(n, k) /\ ~Visited(n, k)'
  BY <1>0, <1>1 DEF Visited
<1>3. ASSUME NEW n \in DOMAIN Links PROVE ~LinkDone(n) /\ ~LinkDone(n)'
  BY <1>0, <1>1, <1>s DEF LinkDone
<1>4. TopDone' /\ ~TopDone
  BY <1>0, <1>1, <1>s DEF TopDone
<1>5. ASSUME NEW x PROVE ~Turn(x) /\ (Turn(x)' <=> x.dev = top /\ x.link = NoLink)
  BY <1>s, <1>2, <1>3, <1>4 DEF Turn
<1>6. N \in SUBSET AllSupplied
  BY <1>0, <1>w, SuppliedIs
<1>7. ASSUME NEW x \in AllSupplied PROVE Past(x)' <=> Past(x) \/ x \in N
  <2>1. /\ x = [reason |-> x.reason, op |-> x.op, dev |-> x.dev, link |-> x.link]
        /\ x.reason \in {"start", "stop"} /\ x.op \in Ops
        /\ x.link = NoLink => x.op \in args[x.dev].per_device
    BY <1>1, SuppliedFacts DEF Call
  <2>2. x = c <=> x.reason = "stop" /\ x.op = op /\ x.dev = top /\ x.link = NoLink
    BY <1>1, <2>1 DEF Called
  <2>3. x \in N <=> x = c
    BY <2>1, <2>2
  <2> QED
    BY <1>1, <1>5, <2>1, <2>2, <2>3 DEF Past
<1>8. Due' = Due \cup N
  <2> HIDE DEF N
  <2> QED
    BY <1>1, <1>6, <1>7, DueAfter
<1>9. Records(calls', Due \cup N)
  BY <1>1, <1>w, TopDeviceRecords
<1>10. Flags'
  <2> DEFINE f(x) == [reason |-> pc, op |-> op, dev |-> x, link |-> NoLink]
  <2>1. done = {x \in DOMAIN args : x # top /\ op \in args[x].per_device /\ Turn(f(x))}
    BY <1>1 DEF Flags
  <2>2. \A x : x # top => (Turn(f(x))' <=> Turn(f(x)))
    BY <1>1, <1>s, <1>5
  <2>3. done' = {x \in DOMAIN args : x # top /\ op \in args[x].per_device /\ Turn(f(x))'}
    BY <1>1, <2>1, <2>2
  <2> QED
    BY <1>1, <1>s, <2>3 DEF Flags
<1> QED
  BY <1>8, <1>9, <1>10

\* A step that makes no callback and after which none is due that was not.
LEMMA SilentStep ==
  ASSUME UNCHANGED <<topology, calls>>, Records(calls, Due),
         \A c \in AllSupplied : Past(c)' <=> Past(c)
  PROVE  Records(calls', Due')
<1>1. Due' = Due
  <2>1. AllSupplied' = AllSupplied
    BY Same
  <2> QED
    BY <2>1 DEF Due
<1> QED
  BY <1>1

\* The steps between the loops.
LEMMA QuietSteps ==
  ASSUME TypeInv, Flags, Records(calls, Due),
         FsmStart \/ FsmStop \/ StopLinkDone \/ StopOpDone
  PROVE  Flags' /\ Records(calls', Due')
<1>0. UNCHANGED <<topology, calls>> /\ pc # "new"
  BY DEF FsmStart, FsmStop, StopLinkDone, StopOpDone
<1>o. ASSUME NEW c \in AllSupplied PROVE c.op \in Ops /\ c.reason \in {"start", "stop"}
  BY <1>0, SuppliedFacts DEF Call
<1>n. NbOps \in Nat \ {0}
  BY JesdAssumption
<1>f. ASSUME done' = {}, \/ pc' = "start" /\ lnk' = 1 /\ dev' = 1
                         \/ pc' = "stop" /\ lnk' = NbLinks + 1
      PROVE  Flags'
  <2>1. \A x : ~Turn(x)'
    BY <1>0, <1>f, FirstTurn
  <2> QED
    BY <1>f, <2>1 DEF Flags
<1>1. CASE FsmStart
  <2>1. pc = "ready" /\ pc' = "start" /\ op' = 0 /\ lnk' = 1 /\ dev' = 1 /\ done' = {}
    BY <1>1 DEF FsmStart
  <2>2. ASSUME NEW c \in AllSupplied PROVE Past(c)' <=> Past(c)
    <3>1. ~Turn(c)'
      BY <1>0, <2>1, FirstTurn
    <3> QED
      BY <1>o, <2>1, <3>1 DEF Past, Ops
  <2>3. Flags'
    <3>1. \A x : ~Turn(x)'
      BY <1>0, <2>1, FirstTurn
    <3> QED
      BY <2>1, <3>1 DEF Flags
  <2> QED
    BY <1>0, <2>2, <2>3, SilentStep
<1>2. CASE FsmStop
  <2>1. pc = "running" /\ pc' = "stop" /\ op' = NbOps - 1 /\ lnk' = NbLinks + 1 /\ done' = {}
    BY <1>2 DEF FsmStop
  <2>2. ASSUME NEW c \in AllSupplied PROVE Past(c)' <=> Past(c)
    <3>1. ~Turn(c)'
      BY <1>0, <2>1, FirstTurn
    <3> QED
      BY <1>n, <1>o, <2>1, <3>1 DEF Past, Ops
  <2> QED
    BY <1>0, <1>f, <2>1, <2>2, SilentStep
<1>3. CASE StopLinkDone
  <2>1. /\ pc = "stop" /\ pc' = pc /\ op' = op /\ done' = done /\ lnk \in 1 .. NbLinks /\ dev = 0
        /\ lnk' = lnk - 1 /\ dev' = Len(devs) + 1
    BY <1>3 DEF StopLinkDone
  <2>s. /\ Links' = Links /\ NbLinks' = NbLinks /\ \A x : Ids(x)' = Ids(x)
        /\ args' = args /\ top' = top /\ devs' = devs
    BY <1>0, Same DEF topology
  <2>2. /\ DOMAIN Links = 1 .. NbLinks /\ NbLinks \in Nat
        /\ DOMAIN devs = 1 .. Len(devs) /\ Len(devs) \in Nat
    BY <1>0, LinkFacts
  <2>3. ASSUME NEW n \in DOMAIN Links, NEW k \in DOMAIN devs
        PROVE  Visited(n, k)' <=> Visited(n, k)
    BY <2>1, <2>2 DEF Visited
  <2>4. ASSUME NEW n \in DOMAIN Links PROVE LinkDone(n)' <=> LinkDone(n)
    BY <2>1, <2>2, <2>s DEF LinkDone
  <2>5. TopDone' <=> TopDone
    BY <2>1, <2>2, <2>s DEF TopDone
  <2>6. ASSUME NEW x PROVE Turn(x)' <=> Turn(x)
    BY <2>s, <2>3, <2>4, <2>5 DEF Turn
  <2>7. ASSUME NEW c \in AllSupplied PROVE Past(c)' <=> Past(c)
    BY <2>1, <2>6 DEF Past
  <2>8. Flags'
    BY <2>1, <2>s, <2>6 DEF Flags
  <2> QED
    BY <1>0, <2>7, <2>8, SilentStep
<1>4. CASE StopOpDone
  <2>1. /\ pc = "stop" /\ pc' = IF op = 0 THEN "stopped" ELSE "stop"
        /\ lnk = 0 /\ op' = op - 1 /\ lnk' = NbLinks + 1 /\ done' = {}
    BY <1>4 DEF StopOpDone, NextOpDone
  <2>2. op \in Ops
    BY <2>1 DEF TypeInv, Counters
  <2>3. ASSUME NEW c \in AllSupplied PROVE Past(c)' <=> Past(c)
    <3>1. Turn(c)
      BY <2>1, LastTurn
    <3>2. Past(c) <=> c.reason = "start" \/ c.op >= op
      BY <1>o, <2>1, <2>2, <3>1 DEF Past, Ops
    <3>3. CASE op = 0
      BY <1>o, <2>1, <3>2, <3>3 DEF Past, Ops
    <3>4. CASE op # 0
      <4>1. ~Turn(c)'
        BY <1>0, <2>1, <3>4, FirstTurn
      <4> QED
        BY <1>o, <2>1, <2>2, <3>2, <3>4, <4>1 DEF Past, Ops
    <3> QED
      BY <3>3, <3>4
  <2>4. Flags'
    <3>1. CASE op = 0
      BY <2>1, <3>1 DEF Flags
    <3>2. CASE op # 0
      BY <1>f, <2>1, <3>2
    <3> QED
      BY <3>1, <3>2
  <2> QED
    BY <1>0, <2>3, <2>4, SilentStep
<1> QED
  BY <1>1, <1>2, <1>3, <1>4

-----------------------------------------------------------------------------
(* The invariant *)

LEMMA JesdInit == Init => JesdInv
<1> SUFFICES ASSUME Init PROVE JesdInv
  OBVIOUS
<1>1. TypeInv
  BY TypeInit
<1> QED
  BY <1>1 DEF Init, JesdInv, Flags

LEMMA JesdStep == ASSUME JesdInv, [Next]_vars PROVE JesdInv'
<1>0. TypeInv /\ Flags /\ TypeInv'
  BY TypeStep DEF JesdInv
<1> DEFINE Kept == UNCHANGED topology /\ pc' # "new" /\ Flags' /\ Records(calls', Due')
<1>k. Kept => JesdInv'
  <2> SUFFICES ASSUME Kept PROVE JesdInv'
    OBVIOUS
  <2>1. Records(calls, Due)'
    <3> DEFINE s == calls'
               S == Due'
    <3>1. \A x, y : Records(x, y) => Records(x, y)'
      BY Same
    <3> QED
      BY <3>1
  <2> QED
    BY <1>0, <2>1 DEF JesdInv
<1>1. CASE UNCHANGED vars
  <2>1. UNCHANGED topology /\ calls' = calls /\ pc' = pc /\ op' = op /\ lnk' = lnk /\ dev' = dev
        /\ done' = done
    BY <1>1 DEF vars, topology
  <2>2. CASE pc = "new"
    BY <1>0, <2>1, <2>2 DEF JesdInv, Flags
  <2>3. CASE pc # "new"
    <3>s. /\ Links' = Links /\ NbLinks' = NbLinks /\ \A x : Ids(x)' = Ids(x)
          /\ args' = args /\ top' = top /\ devs' = devs
      BY <2>1, Same DEF topology
    <3>1. \A n, k : Visited(n, k)' <=> Visited(n, k)
      BY <2>1 DEF Visited
    <3>2. \A n : LinkDone(n)' <=> LinkDone(n)
      BY <2>1, <3>s DEF LinkDone
    <3>3. TopDone' <=> TopDone
      BY <2>1, <3>s DEF TopDone
    <3>4. \A x : Turn(x)' <=> Turn(x)
      BY <3>s, <3>1, <3>2, <3>3 DEF Turn
    <3>5. \A x : Past(x)' <=> Past(x)
      BY <2>1, <3>4 DEF Past
    <3>6. Flags'
      BY <1>0, <2>1, <3>s, <3>4 DEF Flags
    <3>7. Records(calls', Due')
      BY <2>1, <2>3, <3>5, SilentStep DEF JesdInv
    <3> QED
      BY <1>k, <2>1, <2>3, <3>6, <3>7
  <2> QED
    BY <2>2, <2>3
<1>2. CASE TopologyInit
  <2>1. pc = "new" /\ pc' = "ready" /\ calls' = calls
    BY <1>2 DEF TopologyInit
  <2>2. calls' = <<>> /\ Flags'
    BY <2>1 DEF JesdInv, Flags
  <2>3. Due' = {}
    <3>1. AllSupplied' \subseteq {c \in AllSupplied' : c.reason \in {"start", "stop"}}
      BY DEF AllSupplied, Supplied
    <3>2. \A c : c.reason \in {"start", "stop"} => ~Past(c)'
      BY <2>1 DEF Past
    <3> QED
      BY <3>1, <3>2 DEF Due
  <2>4. Records(calls, Due)'
    BY <2>2, <2>3 DEF Records, PlacesIn
  <2> QED
    BY <1>0, <2>1, <2>2, <2>4 DEF JesdInv
<1>3. CASE pc # "new" /\ ~UNCHANGED vars
  <2>0. Records(calls, Due)
    BY <1>3 DEF JesdInv
  <2>l. DOMAIN Links = 1 .. NbLinks /\ NbLinks \in Nat /\ DOMAIN devs = 1 .. Len(devs)
        /\ Len(devs) \in Nat /\ lnk \in Nat /\ dev \in Nat
    BY <1>0, <1>3, LinkFacts DEF TypeInv, Counters
  <2>1. CASE StartDevice
    <3>1. /\ UNCHANGED <<topology, pc, op, lnk>> /\ pc = "start" /\ Walking
          /\ lnk \in DOMAIN Links /\ dev \in DOMAIN devs
          /\ dev' = (IF pc = "start" THEN dev + 1 ELSE dev - 1) /\ CallDevice(devs[dev])
      BY <1>0, <2>1, <2>l DEF StartDevice, Walking, TypeInv, Counters
    <3> QED
      BY <1>0, <1>k, <2>0, <3>1, DeviceStep
  <2>2. CASE StopDevice
    <3>1. /\ UNCHANGED <<topology, pc, op, lnk>> /\ pc = "stop" /\ Walking
          /\ lnk \in DOMAIN Links /\ dev \in DOMAIN devs
          /\ dev' = (IF pc = "start" THEN dev + 1 ELSE dev - 1) /\ CallDevice(devs[dev])
      BY <2>2, <2>l DEF StopDevice, Walking
    <3> QED
      BY <1>0, <1>k, <2>0, <3>1, DeviceStep
  <2>3. CASE StartTopLink
    <3>1. /\ UNCHANGED <<topology, pc, op, done>> /\ pc = "start" /\ Walking
          /\ lnk \in DOMAIN Links /\ dev = Len(devs) + 1 /\ Makes(TopLinkCalls)
          /\ lnk' = lnk + 1 /\ dev' = 1
      BY <1>0, <2>3, <2>l DEF StartTopLink, Walking, TypeInv, Counters
    <3> QED
      BY <1>0, <1>k, <2>0, <3>1, TopLinkStep
  <2>4. CASE StopTopLink
    <3>1. /\ UNCHANGED <<topology, pc, op, done>> /\ pc = "stop" /\ Walking
          /\ lnk \in DOMAIN Links /\ dev = Len(devs) + 1 /\ Makes(TopLinkCalls)
          /\ lnk' = lnk /\ dev' = dev - 1
      BY <2>4, <2>l DEF StopTopLink, Walking
    <3> QED
      BY <1>0, <1>k, <2>0, <3>1, TopLinkStep
  <2>5. CASE StartTopDevice
    <3>1. UNCHANGED topology /\ pc' # "new"
      BY <2>5 DEF StartTopDevice
    <3> QED
      BY <1>0, <1>k, <2>0, <2>5, <3>1, StartTopDeviceStep
  <2>6. CASE StopTopDevice
    <3>1. UNCHANGED topology /\ pc' # "new"
      BY <2>6 DEF StopTopDevice
    <3> QED
      BY <1>0, <1>k, <2>0, <2>6, <3>1, StopTopDeviceStep
  <2>7. CASE FsmStart \/ FsmStop \/ StopLinkDone \/ StopOpDone
    <3>1. UNCHANGED topology /\ pc' # "new"
      BY <2>7 DEF FsmStart, FsmStop, StopLinkDone, StopOpDone
    <3> QED
      BY <1>0, <1>k, <2>0, <2>7, <3>1, QuietSteps
  <2>8. ~TopologyInit
    BY <1>3 DEF TopologyInit
  <2> QED
    BY <1>3, <2>1, <2>2, <2>3, <2>4, <2>5, <2>6, <2>7, <2>8 DEF Next
<1>4. CASE pc = "new" /\ ~UNCHANGED vars
  BY <1>2, <1>4 DEF Next, FsmStart, StartDevice, StartTopLink, StartTopDevice, FsmStop,
       StopTopDevice, StopTopLink, StopDevice, StopLinkDone, StopOpDone
<1> QED
  BY <1>1, <1>3, <1>4

-----------------------------------------------------------------------------
(* The theorem *)

\* When a transition is over, all its callbacks are due.
LEMMA Returns ==
  ASSUME NEW reason \in {"start", "stop"}, Returned(reason)
  PROVE  Supplied(reason) \subseteq Due
<1>1. \A c \in Supplied(reason) : Past(c)
  BY DEF Supplied, Returned, Past
<1> QED
  BY <1>1 DEF AllSupplied, Due

LEMMA Completes == JesdInv => TransitionComplete
<1> SUFFICES ASSUME JesdInv, pc # "new", NEW reason \in {"start", "stop"}
             PROVE  TransitionComplete!2!(reason)
  BY DEF TransitionComplete
<1> DEFINE mine == Places(reason)
           made == {calls[i] : i \in mine}
<1>1. Records(calls, Due) /\ TypeInv
  BY DEF JesdInv
<1>2. {c \in Due : c.reason = reason} \subseteq Supplied(reason)
  BY DEF Due, AllSupplied, Supplied
<1>3. mine = {i \in PlacesIn(calls) : calls[i].reason = reason}
  BY DEF Places, PlacesIn
<1>4. {calls[i] : i \in PlacesIn(calls)} = Due
  BY <1>1 DEF Records
<1>5. made = {c \in Due : c.reason = reason}
  BY <1>3, <1>4
<1>6. \A i, j \in mine : (calls[i] = calls[j] => i = j)
                           /\ (Must(calls[i], calls[j]) => i < j)
  BY <1>1, <1>3 DEF Records
<1>7. \A i \in mine : calls[i].reason = reason
  BY <1>3
<1>8. \A i, j \in mine :
        /\ calls[i] = calls[j] => i = j
        /\ (IF reason = "start" THEN calls[i].op < calls[j].op
                                ELSE calls[i].op > calls[j].op) => i < j
        /\ calls[i].op = calls[j].op /\ Precedes(calls[i], calls[j]) => i < j
  BY <1>6, <1>7 DEF Must
<1>9. Returned(reason) => Owed(reason) \subseteq made
  <2>1. \A c \in Supplied(reason) : c.reason = reason
    BY DEF Supplied
  <2>2. Returned(reason) => Supplied(reason) \subseteq made
    BY <1>5, <2>1, Returns
  <2> QED
    BY <2>2 DEF Owed
<1> HIDE DEF made
<1>10. made \subseteq Supplied(reason)
  BY <1>2, <1>5
<1> QED
  BY <1>8, <1>9, <1>10 DEF made

\* jesd204_fsm_start and jesd204_fsm_stop, for every number of ops and every array of
\* devices: no callback is called twice, the callbacks come op after op and in the
\* order in which the devices of a link depend on each other, and when no callback
\* fails, each one that is owed has been called on return.
THEOREM TransitionsComplete == Spec => []TransitionComplete
<1>1. Init => JesdInv
  BY JesdInit
<1>2. JesdInv /\ [Next]_vars => JesdInv'
  BY JesdStep
<1>3. JesdInv => TransitionComplete
  BY Completes
<1> QED
  BY <1>1, <1>2, <1>3, PTL DEF Spec
=============================================================================
