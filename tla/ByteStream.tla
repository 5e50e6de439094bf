----------------------------- MODULE ByteStream -----------------------------
(***************************************************************************)
(* What a byte buffer promises to one writer and one reader: the bytes     *)
(* come out in the order in which they went in, none is lost, repeated or  *)
(* invented, and at most Capacity of them are held at any time; where the  *)
(* reader can flush the buffer, it drops all the bytes held at once.       *)
(* The n-th byte of the stream is represented by its position n.           *)
(***************************************************************************)
EXTENDS Integers

CONSTANTS
  Capacity,  \* bytes the buffer holds
  Flushed    \* the reader can flush it

VARIABLES
  sent,   \* number of bytes accepted from the writer
  rcvd,   \* number of bytes handed to the reader
  last    \* the byte handed over (or dropped) last

vars == <<sent, rcvd, last>>

Init == sent = 0 /\ rcvd = 0 /\ last = 0

\* The writer's chunk of n bytes becomes visible at once.
Accept ==
  /\ \E n \in 1 .. Capacity - (sent - rcvd) : sent' = sent + n
  /\ UNCHANGED <<rcvd, last>>

\* The reader is handed the next byte.
Deliver ==
  /\ rcvd < sent
  /\ rcvd' = rcvd + 1
  /\ last' = rcvd + 1
  /\ UNCHANGED sent

\* The reader drops what is held.
Discard ==
  /\ Flushed
  /\ rcvd' = sent
  /\ last' = sent
  /\ UNCHANGED sent

Next == Accept \/ Deliver \/ Discard

Spec == Init /\ [][Next]_vars
=============================================================================
