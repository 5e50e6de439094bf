----------------------------- MODULE MCBusTable -----------------------------
(* Model checking of BusTable. *)
EXTENDS BusTable, TLC

\* The tasks run the same code.
TaskSymmetry == Permutations(Tasks)

ReadWrite == [serial |-> TRUE, call |-> "write_and_read"]

Messages == [ReadWrite EXCEPT !.call = "transfer"]

AllSetups == {ReadWrite, Messages}
RacingSetups == {[ReadWrite EXCEPT !.serial = FALSE]}
MessageSetups == {Messages}
PlatformSetups == {[ReadWrite EXCEPT !.call = "platform_transfer"]}
=============================================================================
