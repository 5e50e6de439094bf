-------------------------------- MODULE MCDma --------------------------------
(* Model checking of Dma. *)
EXTENDS Dma

\* One device: jobs of one or two messages, allocations that fail.
OneDevice == [devices |-> {1}, lens |-> 1 .. 2, fails |-> TRUE]

\* Two devices whose jobs overlap, of one message each.
TwoDevices == [devices |-> 1 .. 2, lens |-> {1}, fails |-> TRUE]

\* Two devices, jobs of two messages.
TwoLong == [devices |-> 1 .. 2, lens |-> {2}, fails |-> FALSE]

AllSetups == {OneDevice, TwoDevices}
LongSetups == {TwoLong}
Single == {OneDevice}
=============================================================================
