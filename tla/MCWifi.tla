------------------------------- MODULE MCWifi -------------------------------
(* Model checking of Wifi. *)
EXTENDS Wifi

\* Sockets that connect; peers close and send at any moment.
Client == [cmds |-> 3, data |-> 1, server |-> FALSE, hangsUp |-> FALSE, noise |-> {},
           answers |-> "sure"]

\* Some commands and payloads never reach the module.
Lossy == [Client EXCEPT !.answers = "lost", !.cmds = 2, !.data = 2]

\* A server that leaves it to its clients to close.
Server == [Client EXCEPT !.cmds = 1, !.data = 2, !.server = TRUE]

\* Some answers come after the program has given up.
Slow == [Client EXCEPT !.answers = "late", !.cmds = 2]

\* Errors of the UART, and a buffer that overflows.
Noisy == [Client EXCEPT !.noise = {"uart", "overflow"}, !.cmds = 2]

AllSetups == {Client, Lossy, Server, Slow, Noisy}
SlowSetups == {Slow}
NoisySetups == {Noisy}
HangUpSetups == {[Server EXCEPT !.hangsUp = TRUE, !.data = 3]}
ClientSetups == {Client}
=============================================================================
