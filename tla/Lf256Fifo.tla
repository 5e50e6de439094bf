----------------------------- MODULE Lf256Fifo -----------------------------
(***************************************************************************)
(* The lock-free receive FIFO of util/no_os_lf256fifo.c between a UART     *)
(* receive interrupt (uart_rx_callback, which drops what lf256fifo_write   *)
(* refuses) and the main loop (lf256fifo_read, lf256fifo_flush).  Neither  *)
(* side locks: a step is one access to the indices or to the data.         *)
(* A byte is its position in the stream of accepted bytes.                 *)
(***************************************************************************)
EXTENDS Integers

CONSTANTS
  N,            \* slots and range of the uint8_t indices (256 in the code)
  MaxAccepted   \* bound: number of bytes that arrive

ASSUME NAssumption == N \in Nat /\ N > 1
ASSUME AcceptedAssumption == MaxAccepted \in Nat

VARIABLES
  data,             \* fifo->data
  ffilled, fempty,  \* the two indices
  wpc, rpc,         \* where each side is inside its call
  accepted,         \* history: bytes for which lf256fifo_write returned 0
  taken,            \* history: stream position of ffilled
  got,              \* history: the last byte handed to the main loop
  overflowed        \* history: a byte was accepted into a full FIFO

fifoVars ==
  <<data, ffilled, fempty, wpc, rpc, accepted, taken, got, overflowed>>

Slots == 0 .. N - 1

FifoInit ==
  /\ data = [i \in Slots |-> 0]
  /\ ffilled = 0
  /\ fempty = 0
  /\ wpc = "idle"
  /\ rpc = "idle"
  /\ accepted = 0
  /\ taken = 0
  /\ got = 0
  /\ overflowed = FALSE

\* fempty is promoted to int before the addition, so the comparison does not
\* wrap at N.
IsFull == fempty + 1 = ffilled
IsEmpty == fempty = ffilled

Held == accepted - taken

-----------------------------------------------------------------------------
(* lf256fifo_write, called with every received byte *)

\* Mutant: the test for a full FIFO is missing.
WriteTest_NoTest ==
  /\ wpc = "idle"
  /\ accepted < MaxAccepted
  /\ wpc' = "store"
  /\ UNCHANGED <<data, ffilled, fempty, rpc, accepted, taken, got, overflowed>>

\* A refused byte is dropped by the interrupt handler.  With N - 1 bytes in the
\* slots 0 .. N - 2 the sum is N, which no index equals: the FIFO is full and the
\* byte is accepted.
WriteTest ==
  /\ wpc = "idle"
  /\ accepted < MaxAccepted
  /\ ~IsFull
  /\ wpc' = "store"
  /\ UNCHANGED <<data, ffilled, fempty, rpc, accepted, taken, got, overflowed>>

WriteStore ==
  /\ wpc = "store"
  /\ data' = [data EXCEPT ![fempty] = accepted + 1]
  /\ wpc' = "publish"
  /\ UNCHANGED <<ffilled, fempty, rpc, accepted, taken, got, overflowed>>

\* Mutant: the index is not advanced.
WritePublish_Forgotten ==
  /\ wpc = "publish"
  /\ accepted' = accepted + 1
  /\ overflowed' = (overflowed \/ Held = N - 1)
  /\ wpc' = "idle"
  /\ UNCHANGED <<data, ffilled, fempty, rpc, taken, got>>

WritePublish ==
  /\ wpc = "publish"
  /\ fempty' = (fempty + 1) % N
  /\ accepted' = accepted + 1
  /\ overflowed' = (overflowed \/ Held = N - 1)
  /\ wpc' = "idle"
  /\ UNCHANGED <<data, ffilled, rpc, taken, got>>

-----------------------------------------------------------------------------
(* lf256fifo_read and lf256fifo_flush, called by the main loop *)

ReadTest ==
  /\ rpc = "idle"
  /\ ~IsEmpty
  /\ rpc' = "load"
  /\ UNCHANGED <<data, ffilled, fempty, wpc, accepted, taken, got, overflowed>>

ReadLoad ==
  /\ rpc = "load"
  /\ got' = data[ffilled]
  /\ rpc' = "advance"
  /\ UNCHANGED <<data, ffilled, fempty, wpc, accepted, taken, overflowed>>

ReadAdvance ==
  /\ rpc = "advance"
  /\ ffilled' = (ffilled + 1) % N
  /\ taken' = taken + 1
  /\ rpc' = "idle"
  /\ UNCHANGED <<data, fempty, wpc, accepted, got, overflowed>>

\* Mutant: the flush resets the FIFO to its initial indices.
Flush_Reset ==
  /\ rpc = "idle"
  /\ ffilled' = 0
  /\ taken' = accepted
  /\ got' = accepted
  /\ UNCHANGED <<data, fempty, wpc, rpc, accepted, overflowed>>

\* The stream goes on behind the bytes that are dropped.
Flush ==
  /\ rpc = "idle"
  /\ ffilled' = fempty
  /\ taken' = accepted
  /\ got' = accepted
  /\ UNCHANGED <<data, fempty, wpc, rpc, accepted, overflowed>>

FifoNext == \/ WriteTest \/ WriteStore \/ WritePublish
            \/ ReadTest \/ ReadLoad \/ ReadAdvance \/ Flush

FifoSpec == FifoInit /\ [][FifoNext]_fifoVars

\* The main loop polls the FIFO; a started interrupt handler finishes.
FifoFairness == /\ WF_fifoVars(WriteStore \/ WritePublish)
                /\ WF_fifoVars(ReadTest \/ ReadLoad \/ ReadAdvance)

FairFifoSpec == FifoSpec /\ FifoFairness

-----------------------------------------------------------------------------
\* The indices and the positions of the calls stay in their ranges.
FifoTypeOK ==
  /\ data \in [Slots -> Nat]
  /\ ffilled \in Slots
  /\ fempty \in Slots
  /\ wpc \in {"idle", "store", "publish"}
  /\ rpc \in {"idle", "load", "advance"}
  /\ accepted \in Nat
  /\ taken \in Nat
  /\ got \in Nat
  /\ overflowed \in BOOLEAN

\* The bytes handed to the main loop: it has the next one between the load and the
\* update of the index.
HandedOut == IF rpc = "advance" THEN taken + 1 ELSE taken

FifoStream == INSTANCE ByteStream WITH Capacity <- N - 1, Flushed <- TRUE,
                sent <- accepted, rcvd <- HandedOut, last <- got

\* The FIFO implements the abstract byte stream for as long as it has not overflowed:
\* the main loop gets the accepted bytes in order, none twice, a flush drops all that
\* are held, and never more than N - 1 are held; in every interleaving of the accesses
\* of the two sides.
FifoImplementsStream ==
  FifoStream!Init /\ [][FifoStream!Next \/ overflowed']_(FifoStream!vars)

\* lf256fifo_write refuses a byte when the FIFO is full, whatever the main loop does
\* between its test and its store, in every position of the two indices but one: the
\* N - 1 bytes in the slots from 0 on, where the comparison of lf256fifo_is_full does
\* not wrap.
RefusedWhenFull ==
  [][~overflowed /\ overflowed' => ffilled = 0 /\ fempty = N - 1]_fifoVars

\* lf256fifo_is_full says "intended overflow at 256 (data size is 256)": a
\* write that would make the FIFO look empty is refused, so that no accepted
\* byte is lost.
NothingLost == Held > 0 => ~IsEmpty

\* Every accepted byte is eventually handed out or flushed, unless the FIFO overflows.
EventuallyTaken ==
  \A n \in 1 .. MaxAccepted : accepted = n ~> taken >= n \/ overflowed
=============================================================================
