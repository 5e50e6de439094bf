----------------------------- MODULE MCIioDevice -----------------------------
(* Model checking of IioDevice: applications with up to two devices. *)
EXTENDS IioDevice

\* Device i is linked to trigger i; all triggers are hardware, asynchronous.
Base ==
  [sync |-> {}, soft |-> {}, init_trig |-> [d \in Devs |-> d],
   handled |-> Devs, raw_buf |-> {}, retrigger |-> FALSE, fails |-> FALSE]

\* One trigger of each kind.
Plain == [Base EXCEPT !.sync = {1}]

\* A software trigger, a device without handler and with a static buffer,
\* callbacks that fail, clients that use SETTRIG.
Rough ==
  [Base EXCEPT !.sync = {1}, !.soft = {0}, !.handled = {0}, !.raw_buf = {1},
               !.retrigger = TRUE, !.fails = TRUE]

\* Both devices share one trigger, the first or the second.
Shared(t) == [Base EXCEPT !.init_trig = [d \in Devs |-> t]]

\* Only the second device has a trigger, the first one.
Shifted ==
  [Base EXCEPT !.init_trig = [d \in Devs |-> IF d = 1 THEN 0 ELSE NoTrigger]]

AllSetups == {Plain, Rough, Shared(0), Shared(1), Shifted}

SharedSetups == {Shared(0), Shared(1)}
ShiftedSetups == {Shifted}
Asynchronous == {Base}
Synchronous == {[Base EXCEPT !.sync = Trigs]}
=============================================================================
