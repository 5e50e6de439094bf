----------------------------- MODULE MCIioServer -----------------------------
(* Model checking of IioServer. *)
EXTENDS IioServer

\* Clients connect, send plain requests and leave; memory does not run out.
Base == [resets |-> FALSE, fails |-> FALSE, requests |-> {}]

\* Connections are reset, clients use EXIT and cyclic buffers.
Lively == [Base EXCEPT !.resets = TRUE, !.requests = {"exit", "cyclic"}]

\* Clients send lines that fail; memory, sending and pushing fail too.
Rough == [Base EXCEPT !.fails = TRUE, !.requests = {"error", "cyclic"}]

AllSetups == {Base, Lively, Rough}
Reconnects == {Base}
Resets == {[Base EXCEPT !.resets = TRUE]}
Errors == {[Base EXCEPT !.requests = {"error"}]}
Cyclic == {[Base EXCEPT !.requests = {"cyclic"}]}
=============================================================================
