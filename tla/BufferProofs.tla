---------------------------- MODULE BufferProofs ----------------------------
(***************************************************************************)
(* Proofs about the two byte buffers of util/ and the abstract byte stream *)
(* they implement: CircularBuffer for every buffer size, spin counter      *)
(* range, request size and stream length, Lf256Fifo for every number of    *)
(* slots and of bytes.                                                     *)
(***************************************************************************)
EXTENDS CircularBuffer, Lf256Fifo, TLAPS

-----------------------------------------------------------------------------
(* Inductive invariants *)

\* While a write transaction is open its block lies inside the buffer and
\* inside the request.
WriterBlock ==
  IF w.pc \in {"copy", "end"}
  THEN /\ write.async_started
       /\ write.async_size <= w.left
       /\ write.idx + write.async_size <= Size
       /\ w.done <= write.async_size
       /\ w.pc = "end" => /\ write.idx + write.async_size = Size
                          /\ w.done = write.async_size
  ELSE w.done = 0 /\ (write.async_started => "writer" \in abandoned)

\* The chunk copied out last, which a later iteration may copy again, lies
\* inside the buffer.
ReaderBlock ==
  /\ off + chunk <= Size
  /\ r.pc \in {"copy", "end"} => r.done <= chunk
  /\ r.pc # "idle" => r.left >= 0

\* A transaction of the reader that no call is about was left open.
ReaderOpen ==
  read.async_started /\ r.pc \notin {"copy", "end"} => "reader" \in abandoned

BoundsInv == TypeOK /\ WriterBlock /\ ReaderBlock /\ ReaderOpen

\* With calls that exclude each other and callers that ask first:

Exclusion == OutsideCall(w) \/ OutsideCall(r)

\* While a read transaction is open, the reader's locals describe it.
ReaderBlockOpen ==
  IF r.pc \in {"copy", "end"}
  THEN /\ read.async_started
       /\ read.async_size = chunk
       /\ read.idx = off
       /\ chunk <= r.left
       /\ r.pc = "end" => off + chunk = Size /\ r.done = chunk
  ELSE ~read.async_started

\* Nobody asks for more than there is.
Room ==
  /\ wtotal - rtotal \in 0 .. Size
  /\ w.pc # "idle" => w.left + wtotal - rtotal <= Size
  /\ r.pc # "idle" => r.left \in 0 .. wtotal - rtotal
  /\ (r.blocking /\ r.pc \in {"spins", "size", "prepare"}) => r.left > 0

\* A pointer between the two stores that end its transaction stands for the
\* position it is about to have.
WIdx == IF w.pc = "end" THEN 0 ELSE write.idx
RIdx == IF r.pc = "end" THEN 0 ELSE read.idx
WPos == IF w.pc = "end" THEN wtotal + write.async_size ELSE wtotal
RPos == IF r.pc = "end" THEN rtotal + read.async_size ELSE rtotal

\* Spin counters and indices against the positions in the stream.
SpinRelation ==
  \/ /\ write.spin_count = read.spin_count
     /\ WPos - RPos = WIdx - RIdx
  \/ /\ write.spin_count = (read.spin_count + 1) % SpinMod
     /\ WPos - RPos = Size + WIdx - RIdx

IdxRelation ==
  \/ wtotal - rtotal = write.idx - read.idx
  \/ wtotal - rtotal = Size + write.idx - read.idx

\* What no_os_cb_size found is still so when it is used.
ReaderLocals ==
  /\ r.pc \notin {"resync", "resync_idx"}
  /\ r.pc = "size" =>
       nb_spins = NbSpins(write.spin_count, read.spin_count)
  /\ r.pc = "prepare" => avail = wtotal - rtotal /\ avail > 0

\* The ring holds the unread bytes in order, and behind them those already
\* copied of the open write transaction.
Wrap(i) == IF i < Size THEN i ELSE i - Size

Contents ==
  /\ \A k \in 1 .. wtotal - rtotal :
       buff[Wrap(read.idx + k - 1)] = rtotal + k
  /\ \A k \in 1 .. w.done : buff[write.idx + k - 1] = wtotal + k

StreamInv ==
  /\ BoundsInv
  /\ Exclusion
  /\ ReaderBlockOpen
  /\ Room
  /\ SpinRelation
  /\ IdxRelation
  /\ ReaderLocals
  /\ Contents
  /\ ReadInOrder

-----------------------------------------------------------------------------
(* Bounds: any preemption, any callers *)

USE SizeAssumption, SpinAssumption, BoundAssumption

\* nb_spins of no_os_cb_size is an unsigned number and is 0 exactly when the
\* two spin counters agree.
LEMMA NbSpinsRange ==
  ASSUME NEW a \in 0 .. SpinMod - 1, NEW b \in 0 .. SpinMod - 1
  PROVE  /\ NbSpins(a, b) \in 0 .. SpinMod - 1
         /\ NbSpins(a, b) = 0 <=> a = b
  BY DEF NbSpins

\* Ending a transaction leaves a well-formed pointer.
LEMMA EndTypes ==
  ASSUME NEW p \in CbPtr
  PROVE  EndSpin(p) \in CbPtr /\ EndIdx(p) \in CbPtr
<1>1. (p.spin_count + 1) % SpinMod \in 0 .. SpinMod - 1
  BY DEF CbPtr
<1>2. (p.idx + p.async_size) % Size \in Indices
  BY DEF CbPtr, Indices
<1> QED
  BY <1>1, <1>2 DEF EndSpin, EndIdx, CbPtr, Ptr

\* The block of a request is part of it and part of what there is.
LEMMA MinRange ==
  ASSUME NEW a \in Nat, NEW b \in 0 .. Size
  PROVE  MinOf(a, b) \in 0 .. Size /\ MinOf(a, b) <= a /\ MinOf(a, b) <= b
  BY DEF MinOf

-----------------------------------------------------------------------------

\* no_os_cb_init establishes the inductive invariant behind the bounds.
LEMMA InitBounds == Init => BoundsInv
<1> SUFFICES ASSUME Init PROVE BoundsInv
  OBVIOUS
<1> USE DEF Init, Ptr, Call
<1>1. RingType
  BY DEF RingType, CbPtr, Indices
<1>2. CallType
  BY DEF CallType, WPc, RPc
<1>3. LocalType
  BY DEF LocalType, Indices
<1>4. FlagType
  BY DEF FlagType
<1>5. HistoryType
  BY DEF HistoryType
<1>6. WriterBlock /\ ReaderBlock /\ ReaderOpen
  BY DEF WriterBlock, ReaderBlock, ReaderOpen
<1> QED
  BY <1>1, <1>2, <1>3, <1>4, <1>5, <1>6 DEF BoundsInv, TypeOK

\* Every step of a writer or a reader keeps it: one case per action.
LEMMA NextBounds == BoundsInv /\ [Next]_vars => BoundsInv'
<1> SUFFICES ASSUME BoundsInv, [Next]_vars PROVE BoundsInv'
  OBVIOUS
<1> USE DEF BoundsInv, TypeOK, ring, locals, history, Call
<1>1. CASE StartWrite
  <2>1. RingType'
    BY <1>1 DEF StartWrite, WriteCall, RingType
  <2>2. CallType'
    BY <1>1 DEF StartWrite, WriteCall, CallType, WPc
  <2>3. LocalType'
    BY <1>1 DEF StartWrite, WriteCall, LocalType
  <2>4. HistoryType'
    BY <1>1 DEF StartWrite, WriteCall, HistoryType
  <2>5. WriterBlock'
    BY <1>1
    DEF StartWrite, WriteCall, WriterBlock, RingType, CallType, CbPtr,
        Indices
  <2>6. ReaderBlock'
    BY <1>1 DEF StartWrite, WriteCall, ReaderBlock
  <2>7. FlagType'
    BY <1>1 DEF StartWrite, WriteCall, FlagType
  <2>9. ReaderOpen'
    BY <1>1 DEF StartWrite, WriteCall, ReaderOpen
  <2> QED
    BY <2>1, <2>2, <2>3, <2>4, <2>5, <2>6, <2>7, <2>9
<1>2. CASE StartRead
  <2>1. RingType'
    BY <1>2 DEF StartRead, ReadCall, RingType
  <2>2. CallType'
    BY <1>2 DEF StartRead, ReadCall, CallType, RPc
  <2>3. LocalType'
    BY <1>2 DEF StartRead, ReadCall, LocalType
  <2>4. HistoryType'
    BY <1>2 DEF StartRead, ReadCall, HistoryType
  <2>5. WriterBlock'
    BY <1>2 DEF StartRead, ReadCall, WriterBlock
  <2>6. ReaderBlock'
    BY <1>2 DEF StartRead, ReadCall, ReaderBlock, CallType, LocalType, Indices
  <2>7. FlagType'
    BY <1>2 DEF StartRead, ReadCall, FlagType
  <2>9. ReaderOpen'
    BY <1>2 DEF StartRead, ReadCall, ReaderOpen
  <2> QED
    BY <2>1, <2>2, <2>3, <2>4, <2>5, <2>6, <2>7, <2>9
<1>3. CASE WPrepare
  <2>0. w.left \in Nat /\ Size - write.idx \in 0 .. Size /\ write.idx \in Int
    <3>1. w.left \in Nat
      BY DEF CallType
    <3>2. write.idx \in 0 .. Size - 1
      BY DEF RingType, CbPtr, Indices
    <3> HIDE DEF BoundsInv
    <3> QED
      BY <3>1, <3>2
  <2>8. LET m == MinOf(w.left, Size - write.idx)
        IN  m \in 0 .. Size /\ m <= w.left /\ m <= Size - write.idx
    BY <2>0, MinRange
  <2>1. RingType'
    BY <1>3, <2>8 DEF WPrepare, RingType, Ptr, CbPtr
  <2>2. CallType'
    BY <1>3 DEF WPrepare, CallType, WPc
  <2>3. LocalType'
    BY <1>3 DEF WPrepare, LocalType
  <2>4. HistoryType'
    BY <1>3 DEF WPrepare, HistoryType
  <2>5. WriterBlock'
    <3>1. /\ w'.pc = "copy" /\ w'.left = w.left /\ w'.done = 0
          /\ write'.async_started = TRUE /\ write'.idx = write.idx
          /\ write'.async_size = MinOf(w.left, Size - write.idx)
      BY <1>3 DEF WPrepare, Ptr
    <3>2. /\ write'.async_size \in 0 .. Size /\ write'.async_size <= w.left
          /\ write'.async_size <= Size - write.idx
      BY <2>8, <3>1
    <3>3. write.idx + write'.async_size <= Size
      BY <2>0, <3>2
    <3> QED
      BY <3>1, <3>2, <3>3 DEF WriterBlock
  <2>6. ReaderBlock'
    BY <1>3 DEF WPrepare, ReaderBlock
  <2>7. FlagType'
    BY <1>3 DEF WPrepare, FlagType
  <2>9. ReaderOpen'
    BY <1>3 DEF WPrepare, ReaderOpen
  <2> QED
    BY <2>1, <2>2, <2>3, <2>4, <2>5, <2>6, <2>7, <2>9
<1>4. CASE WCopyByte
  <2>1. RingType'
    <3>1. wtotal + w.done + 1 \in Nat
      BY DEF HistoryType, CallType
    <3> QED
      BY <1>4, <3>1 DEF WCopyByte, RingType
  <2>2. CallType'
    BY <1>4 DEF WCopyByte, CallType, WPc, RingType, WriterBlock, CbPtr
  <2>3. LocalType'
    BY <1>4 DEF WCopyByte, LocalType
  <2>4. HistoryType'
    BY <1>4 DEF WCopyByte, HistoryType
  <2>5. WriterBlock'
    BY <1>4 DEF WCopyByte, WriterBlock, RingType, CallType, CbPtr, Indices
  <2>6. ReaderBlock'
    BY <1>4 DEF WCopyByte, ReaderBlock
  <2>7. FlagType'
    BY <1>4 DEF WCopyByte, FlagType
  <2>9. ReaderOpen'
    BY <1>4 DEF WCopyByte, ReaderOpen
  <2> QED
    BY <2>1, <2>2, <2>3, <2>4, <2>5, <2>6, <2>7, <2>9
<1>5. CASE WEndSpin
  <2>1. RingType'
    BY <1>5, EndTypes DEF WEndSpin, RingType
  <2>2. CallType'
    BY <1>5 DEF WEndSpin, CallType, WPc
  <2>3. LocalType'
    BY <1>5 DEF WEndSpin, LocalType
  <2>4. HistoryType'
    BY <1>5 DEF WEndSpin, HistoryType
  <2>5. WriterBlock'
    <3>1. /\ write'.idx = write.idx
          /\ write'.async_started = write.async_started
          /\ write'.async_size = write.async_size
      BY <1>5 DEF WEndSpin, EndSpin, Ptr
    <3>2. write.idx + write.async_size = Size
      BY <1>5 DEF WEndSpin, Wraps, WriterBlock, RingType, CbPtr, Indices
    <3> QED
      BY <1>5, <3>1, <3>2 DEF WEndSpin, WriterBlock
  <2>6. ReaderBlock'
    BY <1>5 DEF WEndSpin, ReaderBlock
  <2>7. FlagType'
    BY <1>5 DEF WEndSpin, FlagType
  <2>9. ReaderOpen'
    BY <1>5 DEF WEndSpin, ReaderOpen
  <2> QED
    BY <2>1, <2>2, <2>3, <2>4, <2>5, <2>6, <2>7, <2>9
<1>6. CASE WEndIdx
  <2>1. RingType'
    BY <1>6, EndTypes DEF WEndIdx, RingType
  <2>2. CallType'
    BY <1>6 DEF WEndIdx, CallType, WPc, RingType, WriterBlock, CbPtr, Wraps
  <2>3. LocalType'
    BY <1>6 DEF WEndIdx, LocalType
  <2>4. HistoryType'
    BY <1>6 DEF WEndIdx, HistoryType, RingType, CbPtr
  <2>5. WriterBlock'
    BY <1>6
    DEF WEndIdx, WriterBlock, RingType, CallType, CbPtr, Indices, EndIdx,
        Ptr, Wraps
  <2>6. ReaderBlock'
    BY <1>6 DEF WEndIdx, ReaderBlock
  <2>7. FlagType'
    BY <1>6 DEF WEndIdx, FlagType
  <2>9. ReaderOpen'
    BY <1>6 DEF WEndIdx, ReaderOpen
  <2> QED
    BY <2>1, <2>2, <2>3, <2>4, <2>5, <2>6, <2>7, <2>9
<1>7. CASE RSpins
  <2>1. RingType'
    BY <1>7 DEF RSpins, RingType
  <2>2. CallType'
    BY <1>7 DEF RSpins, CallType, RPc
  <2>3. LocalType'
    BY <1>7, NbSpinsRange DEF RSpins, LocalType, RingType, CbPtr
  <2>4. HistoryType'
    BY <1>7 DEF RSpins, HistoryType
  <2>5. WriterBlock'
    BY <1>7 DEF RSpins, WriterBlock
  <2>6. ReaderBlock'
    BY <1>7 DEF RSpins, ReaderBlock, CallType, LocalType, Indices
  <2>7. FlagType'
    BY <1>7 DEF RSpins, FlagType
  <2>9. ReaderOpen'
    BY <1>7 DEF RSpins, ReaderOpen
  <2> QED
    BY <2>1, <2>2, <2>3, <2>4, <2>5, <2>6, <2>7, <2>9
<1>8. CASE RSize
  <2>1. RingType'
    BY <1>8 DEF RSize, RSizeOverrun, RSizeData, RSizeEmpty, RingType
  <2>2. CallType'
    BY <1>8 DEF RSize, RSizeOverrun, RSizeData, RSizeEmpty, CallType, RPc
  <2>3. LocalType'
    <3>1. Raw \in Int
      BY DEF Raw, RawSize, RingType, CbPtr, Indices, LocalType
    <3>2. avail' \in {0, Size} \/ (avail' = Raw /\ ~IsOverrun(Raw))
      BY <1>8 DEF RSize, RSizeOverrun, RSizeData, RSizeEmpty
    <3>3. avail' \in 0 .. Size
      BY <3>1, <3>2 DEF IsOverrun
    <3>4. UNCHANGED <<nb_spins, chunk, off>>
      BY <1>8 DEF RSize
    <3> QED
      BY <3>3, <3>4 DEF LocalType
  <2>4. HistoryType'
    BY <1>8 DEF RSize, RSizeOverrun, RSizeData, RSizeEmpty, HistoryType
  <2>5. WriterBlock'
    BY <1>8 DEF RSize, RSizeOverrun, RSizeData, RSizeEmpty, WriterBlock
  <2>6. ReaderBlock'
    BY <1>8
    DEF RSize, RSizeOverrun, RSizeData, RSizeEmpty, ReaderBlock, CallType,
        LocalType, Indices
  <2>7. FlagType'
    BY <1>8 DEF RSize, RSizeOverrun, RSizeData, RSizeEmpty, FlagType
  <2>9. ReaderOpen'
    BY <1>8 DEF RSize, RSizeOverrun, RSizeData, RSizeEmpty, ReaderOpen
  <2> QED
    BY <2>1, <2>2, <2>3, <2>4, <2>5, <2>6, <2>7, <2>9
<1>9. CASE RResync
  <2>1. RingType'
    <3>1. (write.spin_count - 1 + SpinMod) % SpinMod \in 0 .. SpinMod - 1
      BY DEF RingType, CbPtr
    <3> QED
      BY <1>9, <3>1 DEF RResync, RingType, CbPtr, Ptr
  <2>2. CallType'
    BY <1>9 DEF RResync, CallType, RPc
  <2>3. LocalType'
    BY <1>9 DEF RResync, LocalType
  <2>4. HistoryType'
    BY <1>9 DEF RResync, HistoryType
  <2>5. WriterBlock'
    BY <1>9 DEF RResync, WriterBlock
  <2>6. ReaderBlock'
    BY <1>9 DEF RResync, ReaderBlock, CallType, LocalType, Indices
  <2>7. FlagType'
    BY <1>9 DEF RResync, FlagType
  <2>9. ReaderOpen'
    BY <1>9 DEF RResync, ReaderOpen, Ptr
  <2> QED
    BY <2>1, <2>2, <2>3, <2>4, <2>5, <2>6, <2>7, <2>9
<1>10. CASE RResyncIdx
  <2>1. RingType'
    BY <1>10 DEF RResyncIdx, RingType, Ptr, CbPtr, Indices
  <2>2. CallType'
    BY <1>10 DEF RResyncIdx, CallType, RPc
  <2>3. LocalType'
    BY <1>10 DEF RResyncIdx, LocalType
  <2>4. HistoryType'
    BY <1>10 DEF RResyncIdx, HistoryType, RingType, CbPtr
  <2>5. WriterBlock'
    BY <1>10 DEF RResyncIdx, WriterBlock
  <2>6. ReaderBlock'
    BY <1>10 DEF RResyncIdx, ReaderBlock, CallType, LocalType, Indices
  <2>7. FlagType'
    BY <1>10 DEF RResyncIdx, FlagType
  <2>9. ReaderOpen'
    BY <1>10 DEF RResyncIdx, ReaderOpen, Ptr
  <2> QED
    BY <2>1, <2>2, <2>3, <2>4, <2>5, <2>6, <2>7, <2>9
<1>11. CASE RPrepareNothing
  <2>1. RingType'
    BY <1>11 DEF RPrepareNothing, RingType
  <2>2. CallType'
    BY <1>11 DEF RPrepareNothing, CallType, RPc
  <2>3. LocalType'
    BY <1>11 DEF RPrepareNothing, LocalType
  <2>4. HistoryType'
    BY <1>11 DEF RPrepareNothing, HistoryType
  <2>5. WriterBlock'
    BY <1>11 DEF RPrepareNothing, WriterBlock
  <2>6. ReaderBlock'
    BY <1>11 DEF RPrepareNothing, ReaderBlock, CallType, LocalType, Indices
  <2>7. FlagType'
    BY <1>11 DEF RPrepareNothing, FlagType
  <2>9. ReaderOpen'
    BY <1>11 DEF RPrepareNothing, ReaderOpen
  <2> QED
    BY <2>1, <2>2, <2>3, <2>4, <2>5, <2>6, <2>7, <2>9
<1>12. CASE RPrepare
  <2>0. chunk' \in 0 .. Size /\ off' + chunk' <= Size /\ off' \in Indices
    <3>1. read.idx \in Indices /\ r.left \in Nat /\ avail \in 0 .. Size
      BY <1>12 DEF RPrepare, RingType, CallType, LocalType, ReaderBlock, CbPtr
    <3>2. chunk' = MinOf(MinOf(r.left, avail), Size - read.idx)
      BY <1>12 DEF RPrepare
    <3>3. off' = read.idx
      BY <1>12 DEF RPrepare
    <3> QED
      BY <3>1, <3>2, <3>3 DEF MinOf, Indices
  <2>1. RingType'
    BY <1>12, <2>0 DEF RPrepare, RingType, CbPtr, Ptr
  <2>2. CallType'
    BY <1>12 DEF RPrepare, CallType, RPc, LocalType
  <2>3. LocalType'
    BY <1>12, <2>0 DEF RPrepare, LocalType
  <2>4. HistoryType'
    BY <1>12 DEF RPrepare, HistoryType
  <2>5. WriterBlock'
    BY <1>12 DEF RPrepare, WriterBlock
  <2>6. ReaderBlock'
    BY <1>12, <2>0 DEF RPrepare, ReaderBlock
  <2>7. FlagType'
    BY <1>12 DEF RPrepare, FlagType
  <2>9. ReaderOpen'
    BY <1>12 DEF RPrepare, ReaderOpen, Ptr
  <2> QED
    BY <2>1, <2>2, <2>3, <2>4, <2>5, <2>6, <2>7, <2>9
<1>13. CASE RCopyByte
  <2>1. RingType'
    BY <1>13 DEF RCopyByte, RingType
  <2>2. CallType'
    BY <1>13 DEF RCopyByte, CallType, RPc, LocalType
  <2>3. LocalType'
    BY <1>13 DEF RCopyByte, LocalType
  <2>4. HistoryType'
    <3>1. off + r.done \in Indices
      BY <1>13 DEF RCopyByte, ReaderBlock, LocalType, CallType, Indices
    <3> QED
      BY <1>13, <3>1 DEF RCopyByte, HistoryType, RingType
  <2>5. WriterBlock'
    BY <1>13 DEF RCopyByte, WriterBlock
  <2>6. ReaderBlock'
    BY <1>13 DEF RCopyByte, ReaderBlock, CallType, LocalType, Indices
  <2>7. FlagType'
    BY <1>13 DEF RCopyByte, FlagType
  <2>9. ReaderOpen'
    BY <1>13 DEF RCopyByte, ReaderOpen
  <2> QED
    BY <2>1, <2>2, <2>3, <2>4, <2>5, <2>6, <2>7, <2>9
<1>14. CASE REndSpin
  <2>1. RingType'
    BY <1>14, EndTypes DEF REndSpin, RingType
  <2>2. CallType'
    BY <1>14 DEF REndSpin, CallType, RPc
  <2>3. LocalType'
    BY <1>14 DEF REndSpin, LocalType
  <2>4. HistoryType'
    BY <1>14 DEF REndSpin, HistoryType
  <2>5. WriterBlock'
    BY <1>14 DEF REndSpin, WriterBlock
  <2>6. ReaderBlock'
    BY <1>14 DEF REndSpin, ReaderBlock, CallType, LocalType, Indices
  <2>7. FlagType'
    BY <1>14 DEF REndSpin, FlagType
  <2>9. ReaderOpen'
    BY <1>14 DEF REndSpin, ReaderOpen, EndSpin, Ptr
  <2> QED
    BY <2>1, <2>2, <2>3, <2>4, <2>5, <2>6, <2>7, <2>9
<1>15. CASE REndIdx
  <2>1. RingType'
    BY <1>15, EndTypes DEF REndIdx, NextChunk, RingType
  <2>2. CallType'
    BY <1>15 DEF REndIdx, NextChunk, CallType, RPc, LocalType
  <2>3. LocalType'
    BY <1>15 DEF REndIdx, NextChunk, LocalType
  <2>4. HistoryType'
    BY <1>15 DEF REndIdx, NextChunk, HistoryType, RingType, CbPtr
  <2>5. WriterBlock'
    BY <1>15 DEF REndIdx, NextChunk, WriterBlock
  <2>6. ReaderBlock'
    BY <1>15 DEF REndIdx, NextChunk, ReaderBlock, CallType, LocalType, Indices
  <2>7. FlagType'
    BY <1>15 DEF REndIdx, NextChunk, FlagType
  <2>9. ReaderOpen'
    BY <1>15 DEF REndIdx, NextChunk, EndIdx, ReaderOpen, Ptr
  <2> QED
    BY <2>1, <2>2, <2>3, <2>4, <2>5, <2>6, <2>7, <2>9
<1>16. CASE REndNotStarted
  <2>1. RingType'
    BY <1>16 DEF REndNotStarted, NextChunk, RingType
  <2>2. CallType'
    BY <1>16 DEF REndNotStarted, NextChunk, CallType, RPc, LocalType
  <2>3. LocalType'
    BY <1>16 DEF REndNotStarted, NextChunk, LocalType
  <2>4. HistoryType'
    BY <1>16 DEF REndNotStarted, NextChunk, HistoryType
  <2>5. WriterBlock'
    BY <1>16 DEF REndNotStarted, NextChunk, WriterBlock
  <2>6. ReaderBlock'
    BY <1>16
    DEF REndNotStarted, NextChunk, ReaderBlock, CallType, LocalType, Indices
  <2>7. FlagType'
    BY <1>16 DEF REndNotStarted, NextChunk, FlagType
  <2>9. ReaderOpen'
    BY <1>16 DEF REndNotStarted, NextChunk, ReaderOpen
  <2> QED
    BY <2>1, <2>2, <2>3, <2>4, <2>5, <2>6, <2>7, <2>9
<1>17. CASE UNCHANGED vars
  <2>1. RingType'
    BY <1>17 DEF vars, RingType
  <2>2. CallType'
    BY <1>17 DEF vars, CallType, WPc
  <2>3. LocalType'
    BY <1>17 DEF vars, LocalType
  <2>4. HistoryType'
    BY <1>17 DEF vars, HistoryType
  <2>5. WriterBlock'
    BY <1>17 DEF vars, WriterBlock
  <2>6. ReaderBlock'
    BY <1>17 DEF vars, ReaderBlock
  <2>7. FlagType'
    BY <1>17 DEF vars, FlagType
  <2>9. ReaderOpen'
    BY <1>17 DEF vars, ReaderOpen
  <2> QED
    BY <2>1, <2>2, <2>3, <2>4, <2>5, <2>6, <2>7, <2>9
<1>18. CASE WBusy \/ RBusy \/ WAbandon \/ RAbandon
  <2>1. RingType'
    BY <1>18 DEF WBusy, RBusy, WAbandon, RAbandon, RingType
  <2>2. CallType'
    BY <1>18 DEF WBusy, RBusy, WAbandon, RAbandon, CallType, WPc, RPc
  <2>3. LocalType'
    BY <1>18 DEF WBusy, RBusy, WAbandon, RAbandon, LocalType
  <2>4. HistoryType'
    BY <1>18 DEF WBusy, RBusy, WAbandon, RAbandon, HistoryType
  <2>5. WriterBlock'
    <3>1. CASE WBusy \/ WAbandon
      BY <3>1 DEF WBusy, WAbandon, WriterBlock
    <3>2. CASE RBusy \/ RAbandon
      BY <3>2 DEF RBusy, RAbandon, WriterBlock
    <3> QED
      BY <1>18, <3>1, <3>2
  <2>6. ReaderBlock'
    BY <1>18
    DEF WBusy, RBusy, WAbandon, RAbandon, ReaderBlock, CallType, LocalType,
        Indices
  <2>7. FlagType'
    BY <1>18 DEF WBusy, RBusy, WAbandon, RAbandon, FlagType
  <2>9. ReaderOpen'
    BY <1>18 DEF WBusy, RBusy, WAbandon, RAbandon, ReaderOpen
  <2> QED
    BY <2>1, <2>2, <2>3, <2>4, <2>5, <2>6, <2>7, <2>9
<1> QED
  BY <1>1, <1>2, <1>3, <1>4, <1>5, <1>6, <1>7, <1>8, <1>9, <1>10, <1>11,
     <1>12, <1>13, <1>14, <1>15, <1>16, <1>17, <1>18
  DEF Next, WriterStep, ReaderStep, Busy, Abandon

\* The type invariant, whoever may interrupt whom.
THEOREM TypeCorrect == Spec => []TypeOK
  BY InitBounds, NextBounds, PTL DEF Spec, BoundsInv

\* Whoever may interrupt whom, and whatever the callers ask for, no copy
\* reaches outside the memory of the buffer.
THEOREM AlwaysInBounds == Spec => []InBounds
<1>1. BoundsInv => InBounds
  BY DEF BoundsInv, TypeOK, WriterBlock, ReaderBlock, InBounds
<1> QED
  BY <1>1, InitBounds, NextBounds, PTL DEF Spec

\* When every transaction that is started is ended, no call ever gets -EBUSY.
LEMMA NoneAbandoned ==
  ASSUME Abandons = {}, BoundsInv PROVE ~Busy /\ ~Abandon
<1>1. abandoned = {}
  BY DEF BoundsInv, TypeOK, HistoryType
<1>2. ~WBusy
  BY <1>1 DEF BoundsInv, WriterBlock, WBusy
<1>3. ~RBusy
  BY <1>1 DEF BoundsInv, ReaderOpen, RBusy
<1>4. ~Abandon
  BY DEF Abandon, WAbandon, RAbandon
<1> QED
  BY <1>2, <1>3, <1>4 DEF Busy

-----------------------------------------------------------------------------
(* One call at a time, by callers that ask no_os_cb_size first. *)

\* A spin counter differs from its successor.
LEMMA SpinStep ==
  ASSUME NEW a \in 0 .. SpinMod - 1
  PROVE  /\ (a + 1) % SpinMod \in 0 .. SpinMod - 1
         /\ (a + 1) % SpinMod # a
  BY DEF NbSpins

\* Counting both counters up preserves how they compare.
LEMMA SpinInjective ==
  ASSUME NEW a \in 0 .. SpinMod - 1, NEW b \in 0 .. SpinMod - 1,
         (a + 1) % SpinMod = (b + 1) % SpinMod
  PROVE  a = b
  OBVIOUS

\* Outside the two stores that end a transaction, what no_os_cb_size computes
\* from the indices and the spin counters is the number of unread bytes.
LEMMA RawExact ==
  ASSUME BoundsInv, SpinRelation, w.pc # "end", r.pc # "end",
         NEW n \in 0 .. SpinMod - 1,
         n = 0 <=> write.spin_count = read.spin_count
  PROVE  RawSize(n, write.idx, read.idx) = wtotal - rtotal
<1>1. /\ write.spin_count \in 0 .. SpinMod - 1
      /\ read.spin_count \in 0 .. SpinMod - 1
      /\ write.idx \in 0 .. Size - 1
      /\ read.idx \in 0 .. Size - 1
      /\ wtotal \in Int /\ rtotal \in Int
  BY DEF BoundsInv, TypeOK, RingType, HistoryType, CbPtr, Indices
<1>2. (read.spin_count + 1) % SpinMod # read.spin_count
  BY <1>1, SpinStep
<1> QED
  BY <1>1, <1>2 DEF SpinRelation, WPos, RPos, WIdx, RIdx, RawSize

\* no_os_cb_size then reports no overrun and returns that number.
LEMMA CbSizeExact ==
  ASSUME BoundsInv, SpinRelation, Room, w.pc # "end", r.pc # "end"
  PROVE  CbSize = wtotal - rtotal
<1> DEFINE n == NbSpins(write.spin_count, read.spin_count)
<1>1. n \in 0 .. SpinMod - 1 /\ (n = 0 <=> write.spin_count = read.spin_count)
  BY NbSpinsRange DEF BoundsInv, TypeOK, RingType, CbPtr
<1> HIDE DEF n
<1>2. RawSize(n, write.idx, read.idx) = wtotal - rtotal
  BY <1>1, RawExact
<1> QED
  BY <1>2 DEF CbSize, IsOverrun, Room, n

\* The zeroed ring of no_os_cb_init satisfies the stream invariant.
LEMMA InitStream == Init => StreamInv
<1> SUFFICES ASSUME Init PROVE StreamInv
  OBVIOUS
<1>1. BoundsInv
  BY InitBounds
<1> USE DEF Init, Ptr, Call
<1>2. Exclusion /\ ReaderBlockOpen
  BY DEF Exclusion, OutsideCall, ReaderBlockOpen
<1>3. Room
  BY DEF Room
<1>4. SpinRelation /\ IdxRelation
  BY DEF SpinRelation, IdxRelation, WPos, RPos, WIdx, RIdx
<1>5. ReaderLocals /\ Contents
  BY DEF ReaderLocals, Contents
<1>6. ReadInOrder
  BY DEF ReadInOrder, Delivered
<1> QED
  BY <1>1, <1>2, <1>3, <1>4, <1>5, <1>6 DEF StreamInv

\* The ranges of all numbers the invariant speaks of, in one place.
Ranges ==
  /\ write.idx \in 0 .. Size - 1 /\ read.idx \in 0 .. Size - 1
  /\ write.spin_count \in 0 .. SpinMod - 1
  /\ read.spin_count \in 0 .. SpinMod - 1
  /\ write.async_size \in 0 .. Size /\ read.async_size \in 0 .. Size
  /\ w.left \in Nat /\ w.done \in 0 .. Size
  /\ r.left \in Int /\ r.done \in 0 .. Size
  /\ wtotal \in Nat /\ rtotal \in Int /\ out \in Nat
  /\ chunk \in 0 .. Size /\ off \in 0 .. Size - 1 /\ avail \in 0 .. Size

\* The numeric facts of the invariant, for the arithmetic steps below.
LEMMA Numbers == StreamInv => Ranges
  BY DEF StreamInv, BoundsInv, TypeOK, RingType, CallType, LocalType,
         HistoryType, CbPtr, Indices, Ranges

\* A position and an index that move by the same distance keep their relation to
\* the other side's.
LEMMA Shifted ==
  ASSUME NEW a \in Int, NEW b \in Int, NEW p \in Int, NEW q \in Int,
         NEW i \in Int, NEW j \in Int, q - p = j - i
  PROVE  /\ a - p = b - i => a - q = b - j
         /\ a - p = Size + b - i => a - q = Size + b - j
  OBVIOUS

\* A block that ends with the ring takes a lap off the distance.
LEMMA LapDone ==
  ASSUME NEW a \in Int, NEW b \in Int, NEW i \in Int, NEW j \in Int,
         NEW n \in Int, a - b = Size + i - j, j + n = Size
  PROVE  a - (b + n) = i - 0
  OBVIOUS

\* Entering no_os_cb_write or no_os_cb_prepare_async_write keeps StreamInv.
LEMMA StartWriteStream ==
  ASSUME Preemptible = {}, Checked = TRUE, StreamInv, StartWrite
  PROVE  /\ Exclusion' /\ ReaderBlockOpen' /\ Room' /\ SpinRelation'
         /\ IdxRelation' /\ ReaderLocals' /\ Contents' /\ ReadInOrder'
<1>0. Ranges
  BY Numbers
<1>1. PICK n \in 0 .. MaxRequest, blocking \in BOOLEAN :
             WriteCall(n, blocking)
  BY DEF StartWrite
<1>2. /\ w.pc = "idle" /\ OutsideCall(r) /\ r.pc # "end"
      /\ w'.pc = "prepare" /\ w'.left = n /\ w'.done = 0
      /\ UNCHANGED <<write, read, buff, r, wtotal, rtotal, out, nb_spins,
                     avail, chunk, off>>
  BY <1>1 DEF WriteCall, WriterMayRun, OutsideCall, Call, ring, locals, history
<1>3. n <= Size - (wtotal - rtotal)
  BY <1>1, <1>2, CbSizeExact DEF WriteCall, StreamInv
<1>4. Exclusion'
  BY <1>2 DEF Exclusion, OutsideCall
<1>5. ReaderBlockOpen' /\ IdxRelation' /\ ReadInOrder' /\ ReaderLocals'
  BY <1>2 DEF StreamInv, ReaderBlockOpen, IdxRelation, ReadInOrder, Delivered,
              ReaderLocals
<1>6. Room'
  BY <1>2, <1>3, <1>0 DEF Ranges, StreamInv, Room
<1>7. SpinRelation'
  BY <1>2 DEF StreamInv, SpinRelation, WPos, RPos, WIdx, RIdx
<1>8. Contents'
  BY <1>2 DEF StreamInv, Contents, Wrap
<1> QED
  BY <1>4, <1>5, <1>6, <1>7, <1>8

\* Entering no_os_cb_read or no_os_cb_prepare_async_read keeps StreamInv.
LEMMA StartReadStream ==
  ASSUME Preemptible = {}, Checked = TRUE, StreamInv, StartRead
  PROVE  /\ Exclusion' /\ ReaderBlockOpen' /\ Room' /\ SpinRelation'
         /\ IdxRelation' /\ ReaderLocals' /\ Contents' /\ ReadInOrder'
<1>0. Ranges
  BY Numbers
<1>1. PICK n \in 0 .. MaxRequest, blocking \in BOOLEAN :
             (blocking => n > 0) /\ ReadCall(n, blocking)
  BY DEF StartRead
<1>2. /\ r.pc = "idle" /\ OutsideCall(w) /\ w.pc # "end"
      /\ r'.pc = "spins" /\ r'.left = n /\ r'.done = 0
      /\ r'.blocking = blocking
      /\ UNCHANGED <<write, read, buff, w, wtotal, rtotal, out>>
  BY <1>1 DEF ReadCall, ReaderMayRun, OutsideCall, Call, ring, history
<1>3. n <= wtotal - rtotal
  BY <1>1, <1>2, CbSizeExact DEF ReadCall, StreamInv
<1>4. Exclusion'
  BY <1>2 DEF Exclusion, OutsideCall
<1>5. ReaderBlockOpen' /\ IdxRelation' /\ ReadInOrder' /\ ReaderLocals'
  BY <1>2 DEF StreamInv, ReaderBlockOpen, IdxRelation, ReadInOrder, Delivered,
              ReaderLocals
<1>6. Room'
  BY <1>1, <1>2, <1>3, <1>0 DEF Ranges, StreamInv, Room
<1>7. SpinRelation'
  BY <1>2 DEF StreamInv, SpinRelation, WPos, RPos, WIdx, RIdx
<1>8. Contents'
  BY <1>2 DEF StreamInv, Contents, Wrap
<1> QED
  BY <1>4, <1>5, <1>6, <1>7, <1>8

\* The steps inside a write keep StreamInv: prepare, copy and the two stores
\* of no_os_cb_end_async_operation.
LEMMA WriterStream ==
  ASSUME Preemptible = {}, StreamInv, WriterStep
  PROVE  /\ Exclusion' /\ ReaderBlockOpen' /\ Room' /\ SpinRelation'
         /\ IdxRelation' /\ ReaderLocals' /\ Contents' /\ ReadInOrder'
<1>0. Ranges
  BY Numbers
<1>1. /\ OutsideCall(r) /\ r.pc \in {"idle", "copy"}
      /\ UNCHANGED <<r, read, nb_spins, avail, chunk, off, rtotal, out>>
  BY DEF WriterStep, WPrepare, WCopyByte, WEndSpin, WEndIdx, WriterMayRun,
         OutsideCall, locals, history
<1>2. Exclusion' /\ ReaderBlockOpen' /\ ReadInOrder' /\ ReaderLocals'
  BY <1>1 DEF StreamInv, Exclusion, OutsideCall, ReaderBlockOpen, ReadInOrder,
              Delivered, ReaderLocals
<1>3. CASE WPrepare
  <2>1. /\ w.pc = "prepare" /\ w'.pc = "copy" /\ w'.left = w.left
        /\ w'.done = 0
        /\ write'.idx = write.idx /\ write'.spin_count = write.spin_count
        /\ UNCHANGED <<buff, wtotal>>
    BY <1>3 DEF WPrepare, Ptr, Call, history
  <2>2. Room' /\ IdxRelation'
    BY <1>1, <2>1 DEF StreamInv, Room, IdxRelation
  <2>3. SpinRelation'
    BY <1>1, <2>1 DEF StreamInv, SpinRelation, WPos, RPos, WIdx, RIdx
  <2>4. Contents'
    BY <1>1, <2>1 DEF StreamInv, Contents, Wrap
  <2> QED
    BY <1>2, <2>2, <2>3, <2>4
<1>4. CASE WCopyByte
  <2>1. /\ w.pc = "copy" /\ w'.pc = "copy" /\ w'.left = w.left
        /\ w.done < write.async_size /\ w'.done = w.done + 1
        /\ UNCHANGED <<write, wtotal>>
    BY <1>4 DEF WCopyByte, Call, history
  <2>5. buff' = [buff EXCEPT ![write.idx + w.done] = wtotal + w.done + 1]
    BY <1>4 DEF WCopyByte
  <2>2. Room' /\ IdxRelation'
    BY <1>1, <2>1 DEF StreamInv, Room, IdxRelation
  <2>3. SpinRelation'
    BY <1>1, <2>1 DEF StreamInv, SpinRelation, WPos, RPos, WIdx, RIdx
  <2>4. Contents'
    <3>0. write.idx + write.async_size <= Size
      BY <2>1 DEF StreamInv, BoundsInv, WriterBlock
    <3>1. write.idx + w.done \in Indices
      BY <2>1, <3>0, <1>0 DEF Ranges, Indices
    <3>6. buff \in [Indices -> Nat]
      BY DEF StreamInv, BoundsInv, TypeOK, RingType
    <3>2. \A k \in 1 .. wtotal - rtotal :
            /\ Wrap(read.idx + k - 1) # write.idx + w.done
            /\ Wrap(read.idx + k - 1) \in Indices
      <4>1. w.done + wtotal - rtotal < Size
        BY <2>1, <1>0 DEF Ranges, StreamInv, BoundsInv, WriterBlock, Room
      <4>2. IdxRelation /\ wtotal - rtotal \in 0 .. Size
        BY DEF StreamInv, Room
      <4> QED
        BY <3>1, <4>1, <4>2, <1>0 DEF Ranges, IdxRelation, Wrap, Indices
    <3>3. \A k \in 1 .. w.done : write.idx + k - 1 \in Indices
      BY <3>1, <1>0 DEF Ranges, Indices
    <3>4. \A k \in 1 .. wtotal - rtotal :
            buff'[Wrap(read.idx + k - 1)] = rtotal + k
      BY <2>5, <3>6, <3>1, <3>2 DEF StreamInv, Contents
    <3>5. \A k \in 1 .. w.done + 1 : buff'[write.idx + k - 1] = wtotal + k
      BY <2>5, <3>6, <3>1, <3>3, <1>0 DEF Ranges, StreamInv, Contents
    <3> QED
      BY <1>1, <2>1, <3>4, <3>5 DEF Contents, Wrap
  <2> QED
    BY <1>2, <2>2, <2>3, <2>4
<1>5. CASE WEndSpin
  <2>1. /\ w.pc = "copy" /\ w'.pc = "end" /\ w'.left = w.left
        /\ w'.done = w.done /\ w.done = write.async_size
        /\ write.idx + write.async_size >= Size
        /\ write'.idx = write.idx /\ write'.async_size = write.async_size
        /\ write'.spin_count = (write.spin_count + 1) % SpinMod
        /\ UNCHANGED <<buff, wtotal>>
    BY <1>5 DEF WEndSpin, EndSpin, Wraps, Ptr, Call, history
  <2>2. Room' /\ IdxRelation'
    BY <1>1, <2>1 DEF StreamInv, Room, IdxRelation
  <2>3. SpinRelation'
    <3>1. write.idx + write.async_size = Size /\ write.async_size <= w.left
      BY <2>1, <1>0 DEF Ranges, StreamInv, BoundsInv, WriterBlock
    <3>2. write.spin_count = read.spin_count
          /\ wtotal - rtotal = write.idx - read.idx
      BY <1>1, <2>1, <3>1, <1>0
      DEF Ranges, StreamInv, SpinRelation, Room, WPos, RPos, WIdx, RIdx
    <3> QED
      BY <1>1, <2>1, <3>1, <3>2, <1>0
      DEF Ranges, SpinRelation, WPos, RPos, WIdx, RIdx
  <2>4. Contents'
    BY <1>1, <2>1 DEF StreamInv, Contents, Wrap
  <2> QED
    BY <1>2, <2>2, <2>3, <2>4
<1>6. CASE WEndIdx
  <2>1. /\ w.pc \in {"copy", "end"} /\ w.done = write.async_size
        /\ w.pc = "copy" => write.idx + write.async_size < Size
        /\ w.pc = "end" => write.idx + write.async_size = Size
        /\ write.async_size <= w.left
    BY <1>6, <1>0 DEF Ranges, WEndIdx, Wraps, StreamInv, BoundsInv, WriterBlock
  <2>2. /\ w'.pc \in {"idle", "prepare"} /\ w'.done = 0
        /\ w'.left = w.left - write.async_size
        /\ write'.spin_count = write.spin_count
        /\ wtotal' = wtotal + write.async_size
        /\ UNCHANGED buff
    BY <1>6 DEF WEndIdx, EndIdx, Ptr, Call
  <2>3. write'.idx = IF w.pc = "end" THEN 0 ELSE write.idx + write.async_size
    <3>0. write'.idx = (write.idx + write.async_size) % Size
      BY <1>6 DEF WEndIdx, EndIdx, Ptr
    <3>1. CASE w.pc = "end"
      BY <2>1, <3>0, <3>1
    <3>2. CASE w.pc = "copy"
      <4>1. write.idx + write.async_size \in 0 .. Size - 1
        BY <2>1, <3>2, <1>0 DEF Ranges
      <4> QED
        BY <3>0, <3>2, <4>1
    <3> QED
      BY <2>1, <3>1, <3>2
  <2>4. Room'
    BY <1>1, <2>1, <2>2, <1>0 DEF Ranges, StreamInv, Room
  <2>5. SpinRelation'
    <3> DEFINE p == IF w.pc = "end" THEN wtotal + write.async_size ELSE wtotal
               i == IF w.pc = "end" THEN 0 ELSE write.idx
    <3>1. \/ /\ write.spin_count = read.spin_count
             /\ p - rtotal = i - read.idx
          \/ /\ write.spin_count = (read.spin_count + 1) % SpinMod
             /\ p - rtotal = Size + i - read.idx
      BY <1>1 DEF StreamInv, SpinRelation, WPos, RPos, WIdx, RIdx
    <3>2. /\ p \in Int /\ i \in Int /\ wtotal' \in Int /\ write'.idx \in Int
          /\ wtotal' - p = write'.idx - i
      BY <2>1, <2>2, <2>3, <1>0 DEF Ranges
    <3>3. /\ p - rtotal = i - read.idx
               => wtotal' - rtotal = write'.idx - read.idx
          /\ p - rtotal = Size + i - read.idx
               => wtotal' - rtotal = Size + write'.idx - read.idx
      BY <3>2, <1>0 DEF Ranges
    <3>4. WPos' = wtotal' /\ WIdx' = write'.idx /\ RPos' = rtotal
          /\ RIdx' = read.idx
      BY <1>1, <2>2 DEF WPos, WIdx, RPos, RIdx
    <3>5. \/ /\ write'.spin_count = read'.spin_count
             /\ wtotal' - rtotal = write'.idx - read.idx
          \/ /\ write'.spin_count = (read'.spin_count + 1) % SpinMod
             /\ wtotal' - rtotal = Size + write'.idx - read.idx
      BY <1>1, <2>2, <3>1, <3>3
    <3> QED
      BY <3>4, <3>5 DEF SpinRelation
  <2>6. IdxRelation'
    <3>1. wtotal + write.async_size - rtotal <= Size
      BY <2>1, <1>0 DEF Ranges, StreamInv, Room
    <3>2. IdxRelation
      BY DEF StreamInv
    <3> QED
      BY <1>1, <2>1, <2>2, <2>3, <3>1, <3>2, <1>0 DEF Ranges, IdxRelation
  <2>7. Contents'
    <3>1. \A k \in 1 .. w.done :
            Wrap(read.idx + (wtotal - rtotal + k) - 1) = write.idx + k - 1
      BY <2>1, <1>0 DEF Ranges, StreamInv, IdxRelation, Room, Wrap
    <3>2. ASSUME NEW k \in 1 .. wtotal' - rtotal
          PROVE  buff[Wrap(read.idx + k - 1)] = rtotal + k
      <4>1. CASE k <= wtotal - rtotal
        BY <4>1, <1>0 DEF Ranges, StreamInv, Contents
      <4>2. CASE k > wtotal - rtotal
        <5> DEFINE j == k - (wtotal - rtotal)
        <5>1. j \in 1 .. w.done /\ k = wtotal - rtotal + j
          BY <2>1, <2>2, <4>2, <1>0 DEF Ranges
        <5>2. buff[write.idx + j - 1] = wtotal + j
          BY <5>1 DEF StreamInv, Contents
        <5>3. Wrap(read.idx + k - 1) = write.idx + j - 1
          BY <3>1, <5>1
        <5> QED
          BY <5>1, <5>2, <5>3, <1>0 DEF Ranges
      <4> QED
        BY <4>1, <4>2, <1>0 DEF Ranges
    <3> QED
      BY <1>1, <2>2, <3>2 DEF Contents, Wrap
  <2> QED
    BY <1>2, <2>4, <2>5, <2>6, <2>7
<1> QED
  BY <1>3, <1>4, <1>5, <1>6 DEF WriterStep

\* The steps inside a read keep StreamInv; the overrun path is not taken.
LEMMA ReaderStream ==
  ASSUME Preemptible = {}, StreamInv, ReaderStep
  PROVE  /\ Exclusion' /\ ReaderBlockOpen' /\ Room' /\ SpinRelation'
         /\ IdxRelation' /\ ReaderLocals' /\ Contents' /\ ReadInOrder'
<1>0. Ranges
  BY Numbers
<1>1. /\ OutsideCall(w) /\ w.pc \in {"idle", "copy"}
      /\ UNCHANGED <<w, write, buff, wtotal>>
  BY DEF ReaderStep, RSpins, RSize, RResync, RResyncIdx, RPrepareNothing,
         RPrepare, RCopyByte, REndSpin, REndIdx, REndNotStarted, ReaderMayRun,
         OutsideCall, ring, history
<1>2. Exclusion'
  BY <1>1 DEF Exclusion, OutsideCall
<1>3. CASE RSpins
  <2>1. /\ r.pc = "spins" /\ r'.pc = "size" /\ r'.left = r.left
        /\ r'.blocking = r.blocking
        /\ nb_spins' = NbSpins(write.spin_count, read.spin_count)
        /\ UNCHANGED <<read, rtotal, out>>
    BY <1>3 DEF RSpins, Call, ring, history
  <2>2. ReaderBlockOpen' /\ Room' /\ IdxRelation' /\ ReaderLocals'
    BY <1>1, <2>1
    DEF StreamInv, ReaderBlockOpen, Room, IdxRelation, ReaderLocals
  <2>3. SpinRelation'
    BY <1>1, <2>1 DEF StreamInv, SpinRelation, WPos, RPos, WIdx, RIdx
  <2>4. Contents' /\ ReadInOrder'
    BY <1>1, <2>1 DEF StreamInv, Contents, Wrap, ReadInOrder, Delivered
  <2> QED
    BY <1>2, <2>2, <2>3, <2>4
<1>4. CASE RSize
  <2>1. r.pc = "size" /\ UNCHANGED <<read, rtotal, out>>
    BY <1>4 DEF RSize, ring, history
  <2>2. Raw = wtotal - rtotal
    <3>1. nb_spins \in 0 .. SpinMod - 1
      BY DEF StreamInv, BoundsInv, TypeOK, LocalType
    <3>2. nb_spins = NbSpins(write.spin_count, read.spin_count)
      BY <2>1 DEF StreamInv, ReaderLocals
    <3>3. nb_spins = 0 <=> write.spin_count = read.spin_count
      BY <3>2, <1>0, NbSpinsRange DEF Ranges
    <3> QED
      BY <1>1, <2>1, <3>1, <3>3, RawExact DEF StreamInv, Raw
  <2>3. Raw \in 0 .. Size /\ r.left \in 0 .. Raw /\ (r.blocking => r.left > 0)
    BY <2>1, <2>2 DEF StreamInv, Room
  <2>4. \/ /\ Raw > 0 /\ avail' = Raw /\ r'.pc = "prepare"
           /\ r'.left = r.left /\ r'.blocking = r.blocking
        \/ Raw = 0 /\ r'.pc = "idle"
    BY <1>4, <2>3
    DEF RSize, RSizeOverrun, RSizeData, RSizeEmpty, IsOverrun, Call
  <2>5. ReaderBlockOpen' /\ IdxRelation' /\ ReaderLocals'
    BY <1>1, <2>1, <2>2, <2>4
    DEF StreamInv, ReaderBlockOpen, IdxRelation, ReaderLocals
  <2>6. Room'
    BY <1>1, <2>1, <2>2, <2>3, <2>4 DEF StreamInv, Room
  <2>7. SpinRelation'
    BY <1>1, <2>1, <2>4 DEF StreamInv, SpinRelation, WPos, RPos, WIdx, RIdx
  <2>8. Contents' /\ ReadInOrder'
    BY <1>1, <2>1, <2>4
    DEF StreamInv, Contents, Wrap, ReadInOrder, Delivered
  <2> QED
    BY <1>2, <2>5, <2>6, <2>7, <2>8
<1>5. CASE RResync \/ RResyncIdx
  BY <1>5 DEF RResync, RResyncIdx, StreamInv, ReaderLocals
<1>6. CASE RPrepareNothing
  <2>1. /\ r.pc = "prepare" /\ r'.pc = "idle"
        /\ UNCHANGED <<read, rtotal, out>>
    BY <1>6 DEF RPrepareNothing, Call, ring, history
  <2>2. ReaderBlockOpen' /\ Room' /\ IdxRelation' /\ ReaderLocals'
    BY <1>1, <2>1
    DEF StreamInv, ReaderBlockOpen, Room, IdxRelation, ReaderLocals
  <2>3. SpinRelation'
    BY <1>1, <2>1 DEF StreamInv, SpinRelation, WPos, RPos, WIdx, RIdx
  <2>4. Contents' /\ ReadInOrder'
    BY <1>1, <2>1 DEF StreamInv, Contents, Wrap, ReadInOrder, Delivered
  <2> QED
    BY <1>2, <2>2, <2>3, <2>4
<1>7. CASE RPrepare
  <2>1. /\ r.pc = "prepare" /\ r'.pc = "copy" /\ r'.left = r.left
        /\ r'.done = 0
        /\ chunk' = MinOf(MinOf(r.left, avail), Size - read.idx)
        /\ off' = read.idx /\ read'.idx = read.idx
        /\ read'.spin_count = read.spin_count
        /\ read'.async_started = TRUE /\ read'.async_size = chunk'
        /\ UNCHANGED <<rtotal, out>>
    BY <1>7 DEF RPrepare, Ptr, Call, history
  <2>2. chunk' <= r.left
    BY <2>1, <1>0 DEF Ranges, MinOf
  <2>3. ReaderBlockOpen' /\ IdxRelation' /\ ReaderLocals'
    BY <1>1, <2>1, <2>2
    DEF StreamInv, ReaderBlockOpen, IdxRelation, ReaderLocals
  <2>4. Room'
    BY <1>1, <2>1 DEF StreamInv, Room
  <2>5. SpinRelation'
    BY <1>1, <2>1 DEF StreamInv, SpinRelation, WPos, RPos, WIdx, RIdx
  <2>6. Contents' /\ ReadInOrder'
    BY <1>1, <2>1, <1>0
    DEF Ranges, StreamInv, Contents, Wrap, ReadInOrder, Delivered
  <2> QED
    BY <1>2, <2>3, <2>4, <2>5, <2>6
<1>8. CASE RCopyByte
  <2>1. /\ r.pc = "copy" /\ r'.pc = "copy" /\ r'.left = r.left
        /\ r'.done = r.done + 1 /\ r.done < chunk
        /\ UNCHANGED <<read, chunk, off, rtotal>>
    BY <1>8 DEF RCopyByte, Call, ring, locals, history
  <2>2. ReaderBlockOpen' /\ IdxRelation' /\ ReaderLocals' /\ Room'
    BY <1>1, <2>1
    DEF StreamInv, ReaderBlockOpen, IdxRelation, ReaderLocals, Room
  <2>3. SpinRelation'
    BY <1>1, <2>1 DEF StreamInv, SpinRelation, WPos, RPos, WIdx, RIdx
  <2>4. Contents'
    BY <1>1, <2>1 DEF StreamInv, Contents, Wrap
  <2>5. ReadInOrder'
    <3>1. r.done + 1 \in 1 .. wtotal - rtotal /\ off = read.idx
      BY <2>1, <1>0 DEF Ranges, StreamInv, ReaderBlockOpen, Room
    <3>2. read.idx + (r.done + 1) - 1 = off + r.done /\ off + r.done < Size
      BY <2>1, <3>1, <1>0 DEF Ranges, StreamInv, BoundsInv, ReaderBlock
    <3>3. buff[Wrap(read.idx + (r.done + 1) - 1)] = rtotal + (r.done + 1)
      BY <3>1 DEF StreamInv, Contents
    <3>4. buff[off + r.done] = rtotal + (r.done + 1)
      BY <3>2, <3>3 DEF Wrap
    <3>5. out' = buff[off + r.done]
      BY <1>8 DEF RCopyByte
    <3> QED
      BY <2>1, <3>4, <3>5 DEF ReadInOrder, Delivered
  <2> QED
    BY <1>2, <2>2, <2>3, <2>4, <2>5
<1>9. CASE REndSpin
  <2>1. /\ r.pc = "copy" /\ r'.pc = "end" /\ r'.left = r.left
        /\ r'.done = r.done /\ r.done = chunk
        /\ read.idx + read.async_size >= Size
        /\ read'.idx = read.idx /\ read'.async_size = read.async_size
        /\ read'.async_started = read.async_started
        /\ UNCHANGED <<chunk, off, rtotal, out>>
    BY <1>9 DEF REndSpin, EndSpin, Wraps, Ptr, Call, locals, history
  <2>2. /\ read.idx + read.async_size = Size /\ read.async_size <= r.left
        /\ r.left \in 0 .. wtotal - rtotal
        /\ off + chunk = Size
    BY <2>1, <1>0
    DEF Ranges, StreamInv, BoundsInv, ReaderBlock, ReaderBlockOpen, Room
  <2>3. ReaderBlockOpen' /\ IdxRelation' /\ ReaderLocals' /\ Room'
    BY <1>1, <2>1, <2>2
    DEF StreamInv, ReaderBlockOpen, IdxRelation, ReaderLocals, Room
  <2>4. SpinRelation'
    <3>1. /\ write.spin_count = (read.spin_count + 1) % SpinMod
          /\ wtotal - rtotal = Size + write.idx - read.idx
      BY <1>1, <2>1, <2>2, <1>0
      DEF Ranges, StreamInv, SpinRelation, WPos, RPos, WIdx, RIdx
    <3>2. read'.spin_count = (read.spin_count + 1) % SpinMod
      BY <1>9 DEF REndSpin, EndSpin, Ptr
    <3>3. wtotal - (rtotal + read.async_size) = write.idx - 0
      <4>1. /\ wtotal \in Int /\ rtotal \in Int /\ read.async_size \in Int
            /\ write.idx \in Int /\ read.idx \in Int
        BY <1>0 DEF Ranges
      <4>2. read.idx + read.async_size = Size
        BY <2>2
      <4>3. wtotal - rtotal = Size + write.idx - read.idx
        BY <3>1
      <4> QED
        BY <4>1, <4>2, <4>3, LapDone
    <3> QED
      BY <1>1, <2>1, <3>1, <3>2, <3>3
      DEF SpinRelation, WPos, RPos, WIdx, RIdx
  <2>5. Contents' /\ ReadInOrder'
    BY <1>1, <2>1
    DEF StreamInv, Contents, Wrap, ReadInOrder, Delivered
  <2> QED
    BY <1>2, <2>3, <2>4, <2>5
<1>10. CASE REndIdx
  <2>1. /\ r.pc \in {"copy", "end"} /\ r.done = chunk
        /\ read.async_size = chunk /\ chunk <= r.left
        /\ r.pc = "copy" => read.idx + chunk < Size
        /\ r.pc = "end" => read.idx + chunk = Size
        /\ r.left \in 0 .. wtotal - rtotal
    BY <1>10, <1>0 DEF Ranges, REndIdx, Wraps, StreamInv, ReaderBlockOpen, Room
  <2>2. /\ r'.pc \in {"idle", "spins"} /\ r'.left = r.left - chunk
        /\ r'.pc = "spins" => r.left > chunk
        /\ read'.spin_count = read.spin_count
        /\ read'.async_started = FALSE
        /\ rtotal' = rtotal + chunk
        /\ out' = out
    BY <1>10, <2>1 DEF REndIdx, NextChunk, EndIdx, Ptr, Call
  <2>3. read'.idx = IF r.pc = "end" THEN 0 ELSE read.idx + chunk
    <3>0. read'.idx = (read.idx + chunk) % Size
      BY <1>10, <2>1 DEF REndIdx, EndIdx, Ptr
    <3>1. CASE r.pc = "end"
      BY <2>1, <3>0, <3>1
    <3>2. CASE r.pc = "copy"
      <4>1. read.idx + chunk \in 0 .. Size - 1
        BY <2>1, <3>2, <1>0 DEF Ranges
      <4> QED
        BY <3>0, <3>2, <4>1
    <3> QED
      BY <2>1, <3>1, <3>2
  <2>4. ReaderBlockOpen' /\ ReaderLocals'
    BY <2>2 DEF ReaderBlockOpen, ReaderLocals
  <2>5. Room'
    BY <1>1, <2>1, <2>2, <1>0 DEF Ranges, StreamInv, Room
  <2>6. SpinRelation'
    <3> DEFINE p == IF r.pc = "end" THEN rtotal + chunk ELSE rtotal
               i == IF r.pc = "end" THEN 0 ELSE read.idx
    <3>1. \/ /\ write.spin_count = read.spin_count
             /\ wtotal - p = write.idx - i
          \/ /\ write.spin_count = (read.spin_count + 1) % SpinMod
             /\ wtotal - p = Size + write.idx - i
      BY <1>1, <2>1 DEF StreamInv, SpinRelation, WPos, RPos, WIdx, RIdx
    <3>2. /\ p \in Int /\ i \in Int /\ rtotal' \in Int /\ read'.idx \in Int
          /\ rtotal' - p = read'.idx - i
      BY <2>1, <2>2, <2>3, <1>0 DEF Ranges
    <3>3. /\ wtotal - p = write.idx - i
               => wtotal - rtotal' = write.idx - read'.idx
          /\ wtotal - p = Size + write.idx - i
               => wtotal - rtotal' = Size + write.idx - read'.idx
      <4>1. wtotal \in Int /\ write.idx \in Int
        BY <1>0 DEF Ranges
      <4> DEFINE q == rtotal'
                 j == read'.idx
                 a == wtotal
                 b == write.idx
      <4>2. /\ a \in Int /\ b \in Int /\ p \in Int /\ q \in Int
            /\ i \in Int /\ j \in Int /\ q - p = j - i
        BY <3>2, <4>1
      <4> HIDE DEF p, i, q, j, a, b
      <4>3. /\ a - p = b - i => a - q = b - j
            /\ a - p = Size + b - i => a - q = Size + b - j
        BY <4>2, Shifted
      <4> QED
        BY <4>3 DEF q, j, a, b
    <3>4. RPos' = rtotal' /\ RIdx' = read'.idx /\ WPos' = wtotal
          /\ WIdx' = write.idx
      BY <1>1, <2>2 DEF WPos, WIdx, RPos, RIdx
    <3>5. \/ /\ write'.spin_count = read'.spin_count
             /\ wtotal - rtotal' = write.idx - read'.idx
          \/ /\ write'.spin_count = (read'.spin_count + 1) % SpinMod
             /\ wtotal - rtotal' = Size + write.idx - read'.idx
      BY <1>1, <2>2, <3>1, <3>3
    <3> QED
      BY <3>4, <3>5 DEF SpinRelation
  <2>7. IdxRelation'
    <3>1. IdxRelation
      BY DEF StreamInv
    <3> QED
      BY <1>1, <2>1, <2>2, <2>3, <3>1, <1>0 DEF Ranges, IdxRelation
  <2>8. Contents'
    <3>1. ASSUME NEW k \in 1 .. wtotal - rtotal'
          PROVE  buff[Wrap(read'.idx + k - 1)] = rtotal' + k
      <4>1. k + chunk \in 1 .. wtotal - rtotal
        BY <2>2, <1>0 DEF Ranges
      <4>2. buff[Wrap(read.idx + (k + chunk) - 1)] = rtotal + (k + chunk)
        BY <4>1 DEF StreamInv, Contents
      <4>3. wtotal - rtotal <= Size
        BY DEF StreamInv, Room
      <4>4. Wrap(read.idx + (k + chunk) - 1) = Wrap(read'.idx + k - 1)
        BY <2>1, <2>3, <4>1, <4>3, <1>0 DEF Ranges, Wrap
      <4> QED
        BY <2>2, <4>2, <4>4, <1>0 DEF Ranges
    <3> QED
      BY <1>1, <3>1 DEF StreamInv, Contents, Wrap
  <2>9. ReadInOrder'
    BY <2>1, <2>2, <1>0 DEF Ranges, StreamInv, ReadInOrder, Delivered
  <2> QED
    BY <1>2, <2>4, <2>5, <2>6, <2>7, <2>8, <2>9
<1>11. CASE REndNotStarted
  BY <1>11 DEF REndNotStarted, StreamInv, ReaderBlockOpen
<1> QED
  BY <1>3, <1>4, <1>5, <1>6, <1>7, <1>8, <1>9, <1>10, <1>11 DEF ReaderStep

\* StreamInv is inductive.
LEMMA NextStream ==
  ASSUME Preemptible = {}, Abandons = {}, Checked = TRUE, StreamInv, [Next]_vars
  PROVE  StreamInv'
<1>1. BoundsInv'
  BY NextBounds DEF StreamInv
<1>2. CASE StartWrite
  BY <1>1, <1>2, StartWriteStream DEF StreamInv
<1>3. CASE StartRead
  BY <1>1, <1>3, StartReadStream DEF StreamInv
<1>4. CASE WriterStep
  BY <1>1, <1>4, WriterStream DEF StreamInv
<1>5. CASE ReaderStep
  BY <1>1, <1>5, ReaderStream DEF StreamInv
<1>6. CASE UNCHANGED vars
  BY <1>1, <1>6
  DEF vars, ring, locals, history, StreamInv, Exclusion, OutsideCall,
      ReaderBlockOpen, Room, SpinRelation, WPos, RPos, WIdx, RIdx,
      IdxRelation, ReaderLocals, NbSpins, Contents, Wrap, ReadInOrder,
      Delivered
<1> QED
  BY <1>2, <1>3, <1>4, <1>5, <1>6, NoneAbandoned DEF Next, StreamInv

\* Calls that exclude each other, by callers that ask no_os_cb_size first,
\* keep StreamInv.
LEMMA StreamInvariant ==
  ASSUME Preemptible = {}, Abandons = {}, Checked = TRUE
  PROVE  Spec => []StreamInv
<1>1. StreamInv /\ [Next]_vars => StreamInv'
  BY NextStream
<1> QED
  BY <1>1, InitStream, PTL DEF Spec

\* The reader gets the written stream, in order and without a gap, for every
\* buffer size and across every wrap-around of index and spin counter.
THEOREM ReadsInOrder ==
  ASSUME Preemptible = {}, Abandons = {}, Checked = TRUE
  PROVE  Spec => []ReadInOrder
<1>1. StreamInv => ReadInOrder
  BY DEF StreamInv
<1> QED
  BY <1>1, StreamInvariant, PTL

\* Between calls no_os_cb_size returns exactly the number of unread bytes.
THEOREM SizeIsExact ==
  ASSUME Preemptible = {}, Abandons = {}, Checked = TRUE
  PROVE  Spec => []SizeExact
<1>1. StreamInv => SizeExact
  BY CbSizeExact DEF StreamInv, SizeExact, OutsideCall
<1> QED
  BY <1>1, StreamInvariant, PTL

-----------------------------------------------------------------------------
(* The ring implements the byte stream. *)

\* The empty ring is the empty stream.
LEMMA InitRefines == Init => Stream!Init
  BY DEF Init, Stream!Init, Delivered, Call

\* The step that publishes a chunk accepts it, the copy of a byte to the
\* reader delivers it, every other step is invisible in the stream.
LEMMA StepRefines ==
  ASSUME Preemptible = {}, Abandons = {}, Checked = TRUE, StreamInv, [Next]_vars
  PROVE  [Stream!Next]_(Stream!vars)
<1> USE DEF Stream!Next, Stream!vars
<1>0. Ranges
  BY Numbers
<1>1. CASE WEndIdx
  <2>1. /\ wtotal' = wtotal + write.async_size
        /\ UNCHANGED <<r, rtotal, out>>
    BY <1>1 DEF WEndIdx
  <2>2. Delivered' = Delivered /\ Delivered \in Int /\ Delivered >= rtotal
    BY <2>1, <1>0 DEF Ranges, Delivered
  <2>3. write.async_size <= Size - (wtotal - rtotal)
    BY <1>1, <1>0
    DEF Ranges, WEndIdx, StreamInv, BoundsInv, WriterBlock, Room
  <2>4. CASE write.async_size = 0
    BY <2>1, <2>2, <2>4, <1>0 DEF Ranges
  <2>5. CASE write.async_size > 0
    <3>1. write.async_size \in 1 .. Size - (wtotal - Delivered)
      BY <2>2, <2>3, <2>5, <1>0 DEF Ranges
    <3> QED
      BY <2>1, <2>2, <3>1 DEF Stream!Accept
  <2> QED
    BY <2>4, <2>5, <1>0 DEF Ranges
<1>2. CASE RCopyByte
  <2>1. /\ r.pc = "copy" /\ r'.pc = "copy" /\ r'.done = r.done + 1
        /\ r.done < chunk /\ UNCHANGED <<rtotal, wtotal>>
    BY <1>2 DEF RCopyByte, Call
  <2>2. Delivered' = Delivered + 1
    BY <2>1, <1>0 DEF Ranges, Delivered
  <2>3. Delivered < wtotal
    BY <2>1, <1>0 DEF Ranges, Delivered, StreamInv, ReaderBlockOpen, Room
  <2>4. ReadInOrder'
    BY <1>2, ReaderStream DEF ReaderStep
  <2> QED
    BY <2>1, <2>2, <2>3, <2>4 DEF Stream!Deliver, ReadInOrder
<1>3. CASE REndIdx
  <2>1. r'.pc \in {"idle", "spins"} /\ UNCHANGED <<wtotal, out>>
    BY <1>3 DEF REndIdx, NextChunk, Call
  <2>2. rtotal' = rtotal + r.done /\ r.pc \in {"copy", "end"}
    BY <1>3 DEF REndIdx, StreamInv, ReaderBlockOpen
  <2>3. Delivered' = Delivered
    BY <2>1, <2>2 DEF Delivered
  <2> QED
    BY <2>1, <2>3
<1>4. CASE StartWrite \/ WPrepare \/ WCopyByte \/ WEndSpin
  BY <1>4
  DEF StartWrite, WriteCall, WPrepare, WCopyByte, WEndSpin, history, Delivered
<1>5. CASE StartRead \/ RSpins \/ RSize \/ RPrepareNothing \/ RPrepare
  <2>1. /\ r.pc \notin {"copy", "end"}
        /\ r'.pc \notin {"copy", "end"} \/ r'.done = 0
        /\ UNCHANGED <<wtotal, rtotal, out>>
    <3>1. CASE StartRead \/ RSpins \/ RPrepareNothing
      BY <3>1
      DEF StartRead, ReadCall, RSpins, RPrepareNothing, Call, history
    <3>2. CASE RPrepare
      BY <3>2 DEF RPrepare, Call, history
    <3>3. CASE RSize
      <4>1. r.pc = "size" /\ UNCHANGED <<wtotal, rtotal, out>>
        BY <3>3 DEF RSize, history
      <4>2. r'.pc \in {"resync", "prepare", "idle"} \/ r'.done = 0
        BY <3>3 DEF RSize, RSizeOverrun, RSizeData, RSizeEmpty, Call
      <4> QED
        BY <4>1, <4>2
    <3> QED
      BY <1>5, <3>1, <3>2, <3>3
  <2> QED
    BY <2>1, <1>0 DEF Ranges, Delivered
<1>6. CASE REndSpin
  BY <1>6 DEF REndSpin, Call, history, Delivered
<1>7. CASE RResync \/ RResyncIdx \/ REndNotStarted
  BY <1>7
  DEF RResync, RResyncIdx, REndNotStarted, StreamInv, ReaderLocals,
      ReaderBlockOpen
<1>8. CASE UNCHANGED vars
  BY <1>8 DEF vars, history, Delivered
<1> QED
  BY <1>1, <1>2, <1>3, <1>4, <1>5, <1>6, <1>7, <1>8, NoneAbandoned
  DEF Next, WriterStep, ReaderStep, StreamInv

\* Used one call at a time by callers that ask first, the ring implements the
\* abstract byte stream: what is read is what was written, in order, and never
\* more than Size bytes are held.
THEOREM Refinement ==
  ASSUME Preemptible = {}, Abandons = {}, Checked = TRUE
  PROVE  Spec => ImplementsStream
<1>1. StreamInv /\ [Next]_vars => [Stream!Next]_(Stream!vars)
  BY StepRefines
<1> QED
  BY <1>1, InitRefines, StreamInvariant, PTL
  DEF Spec, ImplementsStream, Stream!Spec

-----------------------------------------------------------------------------
(* Overruns: calls that exclude each other, callers that ask for anything *)

\* While a read transaction is open, the reader's locals describe it and it
\* ends at or before the position of the writer.
OpenRead ==
  /\ read.async_started =>
       /\ r.pc \in {"copy", "end"}
       /\ read.async_size = chunk
       /\ read.idx = off
       /\ rtotal + chunk <= wtotal
  /\ r.pc = "end" =>
       read.async_started /\ off + chunk = Size /\ r.done = chunk

\* The writer is d laps of the ring ahead of the reader, and the spin counters
\* tell d up to a multiple of their range.
LapsAhead(d, q) ==
  /\ write.spin_count = read.spin_count + d - q * SpinMod
  /\ WPos - RPos = d * Size + WIdx - RIdx

Laps == r.pc # "resync_idx" => \E d \in Nat, q \in Int : LapsAhead(d, q)

\* The reader never passes the writer.
Behind == 0 <= rtotal /\ rtotal <= wtotal

\* What no_os_cb_size found, on the way to the copy.
OverrunLocals ==
  /\ r.pc = "size" =>
       nb_spins = NbSpins(write.spin_count, read.spin_count)
  /\ r.pc \in {"resync", "resync_idx"} => wtotal - rtotal > Size
  /\ r.pc = "resync_idx" =>
       read.spin_count = (write.spin_count - 1 + SpinMod) % SpinMod
  /\ r.pc = "prepare" => avail <= wtotal - rtotal
  /\ r.pc = "prepare" /\ overrun => read.idx = write.idx /\ wtotal >= Size
  /\ r.pc = "copy" /\ r.blocking /\ overrun =>
       off = write.idx /\ wtotal >= Size
  /\ r.pc \in {"resync", "resync_idx"} => avail = Size

\* Each place of the ring holds the byte written there last.
Newest ==
  \A i \in Indices :
    /\ i < write.idx + w.done => buff[i] = wtotal + (i - write.idx) + 1
    /\ i >= write.idx + w.done /\ wtotal + (i - write.idx) + 1 > Size
         => buff[i] = wtotal + (i - write.idx) + 1 - Size

OverrunInv ==
  BoundsInv /\ Exclusion /\ OpenRead /\ Laps /\ Behind /\ OverrunLocals
  /\ Newest

\* A multiple of a number is at least as large as the factor times any smaller
\* number of times.
LEMMA Multiples ==
  ASSUME NEW d \in Nat, NEW m \in Nat
  PROVE  d * m \in Nat /\ (d >= 1 => d * m >= m) /\ (d >= 2 => d * m >= 2 * m)
<1>1. d * m \in Nat
  OBVIOUS
<1>2. ASSUME d >= 1 PROVE d * m >= m
  <2>1. d - 1 \in Nat
    BY <1>2
  <2>2. (d - 1) * m \in Nat
    BY <2>1
  <2>3. d * m = (d - 1) * m + m
    OBVIOUS
  <2> QED
    BY <2>2, <2>3
<1>3. ASSUME d >= 2 PROVE d * m >= 2 * m
  <2>1. d - 2 \in Nat
    BY <1>3
  <2>2. (d - 2) * m \in Nat
    BY <2>1
  <2>3. d * m = (d - 2) * m + 2 * m
    OBVIOUS
  <2> QED
    BY <2>2, <2>3
<1> QED
  BY <1>1, <1>2, <1>3

\* No multiple of SpinMod lies strictly between two neighbouring ones.
LEMMA NoMultiple ==
  ASSUME NEW q \in Int, NEW x \in Int, x = q * SpinMod,
         -SpinMod < x, x < SpinMod
  PROVE  x = 0
<1>1. CASE q >= 1
  BY <1>1, Multiples, q \in Nat
<1>2. CASE q <= -1
  <2>1. -q \in Nat /\ -q >= 1
    BY <1>2
  <2>2. (-q) * SpinMod >= SpinMod
    BY <2>1, Multiples
  <2>3. (-q) * SpinMod = -(q * SpinMod)
    OBVIOUS
  <2> QED
    BY <2>2, <2>3
<1>3. CASE q = 0
  BY <1>3
<1> QED
  BY <1>1, <1>2, <1>3

\* The numeric facts, once more for the weaker invariant.
LEMMA BoundsNumbers == BoundsInv => Ranges
  BY DEF BoundsInv, TypeOK, RingType, CallType, LocalType, HistoryType, CbPtr,
         Indices, Ranges

\* spin_count + 1 in its unsigned range.
LEMMA SpinNext ==
  ASSUME NEW a \in 0 .. SpinMod - 1
  PROVE  (a + 1) % SpinMod = IF a = SpinMod - 1 THEN 0 ELSE a + 1
  OBVIOUS

\* ... and spin_count - 1.
LEMMA SpinBefore ==
  ASSUME NEW a \in 0 .. SpinMod - 1
  PROVE  (a - 1 + SpinMod) % SpinMod = IF a = 0 THEN SpinMod - 1 ELSE a - 1
  OBVIOUS

\* no_os_cb_init: no lap ahead, nothing written.
LEMMA InitOverrun == Init => OverrunInv
<1> SUFFICES ASSUME Init PROVE OverrunInv
  OBVIOUS
<1>1. BoundsInv
  BY InitBounds
<1>2. LapsAhead(0, 0)
  BY DEF Init, LapsAhead, WPos, RPos, WIdx, RIdx, Ptr, Call
<1>3. Laps
  BY <1>2 DEF Laps
<1>4. Exclusion /\ OpenRead /\ Behind /\ OverrunLocals
  BY DEF Init, Exclusion, OutsideCall, OpenRead, Behind, OverrunLocals, Ptr,
         Call
<1>5. Newest
  BY DEF Init, Newest, Ptr, Call, Indices
<1> QED
  BY <1>1, <1>3, <1>4, <1>5 DEF OverrunInv

\* What no_os_cb_size computes when the pointers are d laps apart: an overrun is
\* reported only if more than Size bytes are unread, and otherwise no more than
\* the unread bytes.
LEMMA SizeOfLaps ==
  ASSUME Ranges, Behind, NEW d \in Nat, NEW q \in Int, LapsAhead(d, q),
         w.pc # "end", r.pc # "end",
         nb_spins \in 0 .. SpinMod - 1,
         nb_spins = 0 <=> write.spin_count = read.spin_count
  PROVE  IF IsOverrun(Raw) THEN wtotal - rtotal > Size
                           ELSE Raw <= wtotal - rtotal
<1>1. /\ write.spin_count = read.spin_count + d - q * SpinMod
      /\ wtotal - rtotal = d * Size + write.idx - read.idx
  BY DEF LapsAhead, WPos, RPos, WIdx, RIdx
<1>2. /\ d * Size \in Nat /\ d = 0 => d * Size = 0
      /\ d >= 1 => d * Size >= Size
      /\ d >= 2 => d * Size >= 2 * Size
  BY Multiples
<1>3. d = 0 => write.spin_count = read.spin_count
  <2> SUFFICES ASSUME d = 0 PROVE write.spin_count = read.spin_count
    OBVIOUS
  <2> DEFINE x == q * SpinMod
  <2>1. x \in Int /\ x = read.spin_count - write.spin_count
    BY <1>1 DEF Ranges
  <2>2. -SpinMod < x /\ x < SpinMod
    BY <2>1 DEF Ranges
  <2>3. x = 0
    BY <2>1, <2>2, NoMultiple
  <2> QED
    BY <2>1, <2>3 DEF Ranges
<1>4. d = 1 => write.spin_count # read.spin_count
  <2> SUFFICES ASSUME d = 1, write.spin_count = read.spin_count PROVE FALSE
    OBVIOUS
  <2>1. 1 = q * SpinMod
    BY <1>1 DEF Ranges
  <2>2. 1 = 0
    BY <2>1, NoMultiple
  <2> QED
    BY <2>2
<1>5. CASE nb_spins = 0
  <2>1. d = 0 \/ d >= 2
    BY <1>4, <1>5
  <2>2. Raw = write.idx - read.idx
    BY <1>5 DEF Raw, RawSize
  <2> HIDE <1>3, <1>4
  <2> QED
    BY <1>1, <1>2, <2>1, <2>2 DEF Ranges, Behind, IsOverrun
<1>6. CASE nb_spins > 0
  <2>1. d >= 1
    BY <1>3, <1>6
  <2>2. Raw = Size + write.idx - read.idx
    BY <1>6 DEF Raw, RawSize
  <2> QED
    BY <1>1, <1>2, <2>1, <2>2 DEF Ranges, Behind, IsOverrun
<1> QED
  BY <1>5, <1>6

\* A step that moves no pointer keeps their distance.
LEMMA SameLaps ==
  ASSUME Laps, r.pc # "resync_idx",
         WPos' = WPos, RPos' = RPos, WIdx' = WIdx, RIdx' = RIdx,
         write'.spin_count = write.spin_count,
         read'.spin_count = read.spin_count
  PROVE  Laps'
<1>1. PICK d \in Nat, q \in Int : LapsAhead(d, q)
  BY DEF Laps
<1>2. LapsAhead(d, q)'
  BY <1>1 DEF LapsAhead
<1> QED
  BY <1>2 DEF Laps

\* Entering a call changes neither pointer nor memory.
LEMMA StartOverrun ==
  ASSUME Preemptible = {}, OverrunInv, StartWrite \/ StartRead
  PROVE  /\ Exclusion' /\ OpenRead' /\ Laps' /\ Behind' /\ OverrunLocals'
         /\ Newest'
<1>0. UNCHANGED <<write, read, buff, wtotal, rtotal, nb_spins, avail, overrun,
                  off>>
  BY DEF StartWrite, WriteCall, StartRead, ReadCall, ring, locals, history
<1>1. CASE StartWrite
  <2>1. PICK n \in 0 .. MaxRequest, blocking \in BOOLEAN :
               WriteCall(n, blocking)
    BY <1>1 DEF StartWrite
  <2>2. /\ w.pc = "idle" /\ w'.pc = "prepare" /\ w'.done = 0
        /\ OutsideCall(r) /\ r.pc \in {"idle", "copy"} /\ UNCHANGED <<r, chunk>>
    BY <2>1 DEF WriteCall, WriterMayRun, OutsideCall, Call, locals
  <2>3. Exclusion' /\ OpenRead' /\ Behind' /\ OverrunLocals'
    BY <1>0, <2>2
    DEF OverrunInv, Exclusion, OutsideCall, OpenRead, Behind, OverrunLocals
  <2>4. Laps'
    BY <1>0, <2>2, SameLaps DEF OverrunInv, WPos, RPos, WIdx, RIdx
  <2>5. w.done = 0
    BY <2>2 DEF OverrunInv, BoundsInv, WriterBlock
  <2>6. Newest'
    BY <1>0, <2>2, <2>5 DEF OverrunInv, Newest
  <2> QED
    BY <2>3, <2>4, <2>6
<1>2. CASE StartRead
  <2>1. PICK n \in 0 .. MaxRequest, blocking \in BOOLEAN :
               ReadCall(n, blocking)
    BY <1>2 DEF StartRead
  <2>2. /\ r.pc = "idle" /\ r'.pc = "spins" /\ OutsideCall(w)
        /\ w.pc \in {"idle", "copy"} /\ UNCHANGED w
    BY <2>1 DEF ReadCall, ReaderMayRun, OutsideCall, Call
  <2>3. Exclusion' /\ OpenRead' /\ Behind' /\ OverrunLocals'
    BY <1>0, <2>2
    DEF OverrunInv, Exclusion, OutsideCall, OpenRead, Behind, OverrunLocals
  <2>4. Laps'
    BY <1>0, <2>2, SameLaps DEF OverrunInv, WPos, RPos, WIdx, RIdx
  <2>5. Newest'
    BY <1>0, <2>2 DEF OverrunInv, Newest
  <2> QED
    BY <2>3, <2>4, <2>5
<1> QED
  BY <1>1, <1>2

\* The arithmetic of a pointer that reaches the end of the ring: i + n = Size.
LEMMA LapEnds ==
  ASSUME NEW x \in Int, NEW y \in Int, NEW a \in Int, NEW b \in Int,
         NEW i \in Int, NEW j \in Int, NEW n \in Int,
         y = x + Size, a - b = x + i - j, i + n = Size
  PROVE  a + n - b = y + 0 - j
  OBVIOUS

\* ... and that of a reader that does so.
LEMMA LapTaken ==
  ASSUME NEW x \in Int, NEW y \in Int, NEW a \in Int, NEW b \in Int,
         NEW i \in Int, NEW j \in Int, NEW n \in Int,
         x = y + Size, a - b = x + i - j, j + n = Size
  PROVE  a - (b + n) = y + i - 0
  OBVIOUS

\* A chunk that is no larger than what is available fits.
LEMMA Fits ==
  ASSUME NEW a \in Int, NEW b \in Int, NEW c \in Int, NEW n \in Int,
         c <= n, n <= a - b
  PROVE  b + c <= a
  OBVIOUS

\* A write may overtake the reader; the laps are counted on, and the bytes it
\* replaces are the oldest.
LEMMA WriterOverrun ==
  ASSUME Preemptible = {}, OverrunInv, WriterStep
  PROVE  /\ Exclusion' /\ OpenRead' /\ Laps' /\ Behind' /\ OverrunLocals'
         /\ Newest'
<1>0. Ranges
  BY BoundsNumbers DEF OverrunInv
<1>1. /\ OutsideCall(r) /\ r.pc \in {"idle", "copy"}
      /\ r.pc = "copy" => ~r.blocking
      /\ UNCHANGED <<r, read, nb_spins, avail, overrun, chunk, off, rtotal>>
  BY DEF WriterStep, WPrepare, WCopyByte, WEndSpin, WEndIdx, WriterMayRun,
         OutsideCall, locals, history
<1>2. wtotal' >= wtotal /\ wtotal' \in Nat
  <2>1. wtotal' = wtotal \/ wtotal' = wtotal + write.async_size
    BY DEF WriterStep, WPrepare, WCopyByte, WEndSpin, WEndIdx, history
  <2> QED
    BY <2>1, <1>0 DEF Ranges
<1>3. Exclusion' /\ OverrunLocals'
  BY <1>1 DEF OverrunInv, Exclusion, OutsideCall, OverrunLocals
<1>4. OpenRead' /\ Behind'
  BY <1>0, <1>1, <1>2 DEF OverrunInv, OpenRead, Behind, Ranges
<1>5. CASE WPrepare
  <2>1. /\ w.pc = "prepare" /\ w'.pc = "copy" /\ w'.done = 0 /\ w.done = 0
        /\ write'.idx = write.idx /\ write'.spin_count = write.spin_count
        /\ UNCHANGED <<buff, wtotal>>
    BY <1>5
    DEF WPrepare, Ptr, Call, history, OverrunInv, BoundsInv, WriterBlock
  <2>2. Laps'
    BY <1>1, <2>1, SameLaps DEF OverrunInv, WPos, RPos, WIdx, RIdx
  <2>3. Newest'
    BY <2>1 DEF OverrunInv, Newest
  <2> QED
    BY <1>3, <1>4, <2>2, <2>3
<1>6. CASE WCopyByte
  <2>1. /\ w.pc = "copy" /\ w'.pc = "copy" /\ w'.done = w.done + 1
        /\ UNCHANGED <<write, wtotal>>
        /\ buff' = [buff EXCEPT ![write.idx + w.done] = wtotal + w.done + 1]
    BY <1>6 DEF WCopyByte, Call, history
  <2>2. Laps'
    BY <1>1, <2>1, SameLaps DEF OverrunInv, WPos, RPos, WIdx, RIdx
  <2>3. ASSUME NEW i \in Indices
        PROVE  /\ i < write.idx + w.done + 1
                    => buff'[i] = wtotal + (i - write.idx) + 1
               /\ i >= write.idx + w.done + 1
                  /\ wtotal + (i - write.idx) + 1 > Size
                    => buff'[i] = wtotal + (i - write.idx) + 1 - Size
    <3>1. buff \in [Indices -> Nat] /\ i \in Int
      BY DEF OverrunInv, BoundsInv, TypeOK, RingType, Indices
    <3>2. CASE i = write.idx + w.done
      BY <2>1, <3>1, <3>2, <1>0 DEF Ranges
    <3>3. CASE i # write.idx + w.done
      <4>1. buff'[i] = buff[i]
        BY <2>1, <3>1, <3>3
      <4> QED
        BY <3>1, <3>3, <4>1, <1>0 DEF OverrunInv, Newest, Ranges
    <3> QED
      BY <3>2, <3>3
  <2>4. Newest'
    BY <2>1, <2>3, <1>0 DEF Newest, Ranges
  <2> QED
    BY <1>3, <1>4, <2>2, <2>4
<1>7. CASE WEndSpin
  <2>1. /\ w.pc = "copy" /\ w'.pc = "end" /\ w'.done = w.done
        /\ w.done = write.async_size
        /\ write'.idx = write.idx /\ write'.async_size = write.async_size
        /\ write'.spin_count = (write.spin_count + 1) % SpinMod
        /\ UNCHANGED <<buff, wtotal>>
    BY <1>7 DEF WEndSpin, EndSpin, Ptr, Call, history
  <2>2. write.idx + write.async_size = Size
    BY <1>7, <2>1, <1>0
    DEF Ranges, WEndSpin, Wraps, OverrunInv, BoundsInv, WriterBlock
  <2>3. PICK d \in Nat, q \in Int : LapsAhead(d, q)
    BY <1>1 DEF OverrunInv, Laps
  <2>4. /\ write.spin_count = read.spin_count + d - q * SpinMod
        /\ wtotal - rtotal = d * Size + write.idx - read.idx
    BY <1>1, <2>1, <2>3 DEF LapsAhead, WPos, RPos, WIdx, RIdx
  <2>5. /\ d * Size \in Int /\ (d + 1) * Size = d * Size + Size
        /\ q * SpinMod \in Int /\ (q + 1) * SpinMod = q * SpinMod + SpinMod
    OBVIOUS
  <2>6. \E p \in Int : write'.spin_count
                         = read.spin_count + (d + 1) - p * SpinMod
    <3>1. write'.spin_count = IF write.spin_count = SpinMod - 1
                              THEN 0 ELSE write.spin_count + 1
      BY <2>1, <1>0, SpinNext DEF Ranges
    <3>2. CASE write.spin_count = SpinMod - 1
      <4>1. write'.spin_count = read.spin_count + (d + 1) - (q + 1) * SpinMod
        BY <2>4, <2>5, <3>1, <3>2, <1>0 DEF Ranges
      <4>2. q + 1 \in Int
        OBVIOUS
      <4> QED
        BY <4>1, <4>2, Zenon
    <3>3. CASE write.spin_count # SpinMod - 1
      <4>1. write'.spin_count = read.spin_count + (d + 1) - q * SpinMod
        BY <2>4, <2>5, <3>1, <3>3, <1>0 DEF Ranges
      <4> QED
        BY <4>1
    <3> QED
      BY <3>2, <3>3
  <2>7. WPos' - RPos' = (d + 1) * Size + WIdx' - RIdx'
    <3>1. PICK x \in Int, y \in Int : x = d * Size /\ y = (d + 1) * Size
      BY <2>5
    <3>2. y = x + Size /\ wtotal - rtotal = x + write.idx - read.idx
      BY <2>4, <2>5, <3>1
    <3>3. wtotal + write.async_size - rtotal = y + 0 - read.idx
      <4>1. /\ write.idx \in Int /\ write.async_size \in Int /\ wtotal \in Int
            /\ rtotal \in Int /\ read.idx \in Int
        BY <1>0 DEF Ranges
      <4> QED
        BY <2>2, <3>2, <4>1, LapEnds
    <3>4. /\ WPos' = wtotal + write.async_size /\ RPos' = rtotal
          /\ WIdx' = 0 /\ RIdx' = read.idx
      BY <1>1, <2>1 DEF WPos, RPos, WIdx, RIdx
    <3>5. WPos' - RPos' = y + WIdx' - RIdx'
      BY <3>3, <3>4, <1>0 DEF Ranges
    <3> QED
      BY <3>1, <3>5, Zenon
  <2>8. Laps'
    <3>1. PICK p \in Int : write'.spin_count
                             = read.spin_count + (d + 1) - p * SpinMod
      BY <2>6
    <3>2. LapsAhead(d + 1, p)'
      BY <1>1, <2>7, <3>1 DEF LapsAhead
    <3> QED
      BY <3>2 DEF Laps
  <2>9. Newest'
    BY <2>1 DEF OverrunInv, Newest
  <2> QED
    BY <1>3, <1>4, <2>8, <2>9
<1>8. CASE WEndIdx
  <2>1. /\ w.pc \in {"copy", "end"} /\ w.done = write.async_size
        /\ w.pc = "copy" => write.idx + write.async_size < Size
        /\ w.pc = "end" => write.idx + write.async_size = Size
    BY <1>8, <1>0
    DEF Ranges, WEndIdx, Wraps, OverrunInv, BoundsInv, WriterBlock
  <2>2. /\ w'.pc \in {"idle", "prepare"} /\ w'.done = 0
        /\ write'.spin_count = write.spin_count
        /\ wtotal' = wtotal + write.async_size
        /\ write'.idx = (write.idx + write.async_size) % Size
        /\ UNCHANGED buff
    BY <1>8 DEF WEndIdx, EndIdx, Ptr, Call
  <2>3. write'.idx = IF w.pc = "end" THEN 0 ELSE write.idx + write.async_size
    <3>1. CASE w.pc = "end"
      BY <2>1, <2>2, <3>1
    <3>2. CASE w.pc = "copy"
      <4>1. write.idx + write.async_size \in 0 .. Size - 1
        BY <2>1, <3>2, <1>0 DEF Ranges
      <4> QED
        BY <2>2, <3>2, <4>1
    <3> QED
      BY <2>1, <3>1, <3>2
  <2>4. Laps'
    <3>1. PICK d \in Nat, q \in Int : LapsAhead(d, q)
      BY <1>1 DEF OverrunInv, Laps
    <3>2. d * Size \in Int
      OBVIOUS
    <3>3. /\ WPos \in Int /\ WIdx \in Int
          /\ wtotal' - WPos = write'.idx - WIdx
      BY <2>1, <2>2, <2>3, <1>0 DEF Ranges, WPos, WIdx
    <3>4. /\ WPos' = wtotal' /\ WIdx' = write'.idx
          /\ RPos' = rtotal /\ RIdx' = read.idx /\ RPos = rtotal
          /\ RIdx = read.idx
      BY <1>1, <2>2 DEF WPos, WIdx, RPos, RIdx
    <3>5. write'.idx \in Int
      BY <2>3, <1>0 DEF Ranges
    <3>6. wtotal' - rtotal = d * Size + write'.idx - read.idx
      <4>1. PICK x \in Int : x = d * Size
        BY <3>2
      <4>2. WPos - rtotal = x + WIdx - read.idx
        BY <3>1, <3>4, <4>1 DEF LapsAhead
      <4>3. wtotal' - rtotal = x + write'.idx - read.idx
        BY <3>3, <3>5, <4>2, <1>0, <1>2 DEF Ranges
      <4> QED
        BY <4>1, <4>3
    <3>7. LapsAhead(d, q)'
      BY <1>1, <2>2, <3>1, <3>4, <3>6 DEF LapsAhead
    <3> QED
      BY <3>7 DEF Laps
  <2>5. ASSUME NEW i \in Indices
        PROVE  /\ i < write'.idx
                    => buff[i] = wtotal' + (i - write'.idx) + 1
               /\ i >= write'.idx /\ wtotal' + (i - write'.idx) + 1 > Size
                    => buff[i] = wtotal' + (i - write'.idx) + 1 - Size
    <3>1. /\ i < write.idx + w.done => buff[i] = wtotal + (i - write.idx) + 1
          /\ i >= write.idx + w.done /\ wtotal + (i - write.idx) + 1 > Size
               => buff[i] = wtotal + (i - write.idx) + 1 - Size
      BY DEF OverrunInv, Newest
    <3>2. i \in Int /\ i < Size /\ i >= 0
      BY DEF Indices
    <3>3. CASE w.pc = "end"
      <4>1. /\ write.idx \in Nat /\ write.async_size \in Nat /\ wtotal \in Nat
            /\ write'.idx = 0 /\ write.idx + write.async_size = Size
            /\ w.done = write.async_size /\ wtotal' = wtotal + write.async_size
        BY <2>1, <2>2, <2>3, <3>3, <1>0 DEF Ranges
      <4> QED
        BY <3>1, <3>2, <4>1
    <3>4. CASE w.pc = "copy"
      <4>1. /\ write.idx \in Nat /\ write.async_size \in Nat /\ wtotal \in Nat
            /\ write'.idx = write.idx + write.async_size
            /\ w.done = write.async_size /\ wtotal' = wtotal + write.async_size
        BY <2>1, <2>2, <2>3, <3>4, <1>0 DEF Ranges
      <4> QED
        BY <3>1, <3>2, <4>1
    <3> QED
      BY <2>1, <3>3, <3>4
  <2>6. Newest'
    <3>1. write'.idx + w'.done = write'.idx
      BY <2>2, <2>3, <1>0 DEF Ranges
    <3> QED
      BY <2>2, <2>5, <3>1 DEF Newest
  <2> QED
    BY <1>3, <1>4, <2>4, <2>6
<1> QED
  BY <1>5, <1>6, <1>7, <1>8 DEF WriterStep

\* The steps inside a read: what no_os_cb_size finds is so when it is used, and
\* a resynchronized reader is exactly one lap behind.
LEMMA ReaderOverrun ==
  ASSUME Preemptible = {}, OverrunInv, ReaderStep
  PROVE  /\ Exclusion' /\ OpenRead' /\ Laps' /\ Behind' /\ OverrunLocals'
         /\ Newest'
<1>0. Ranges
  BY BoundsNumbers DEF OverrunInv
<1>1. /\ OutsideCall(w) /\ w.pc \in {"idle", "copy"}
      /\ UNCHANGED <<w, write, buff, wtotal>>
  BY DEF ReaderStep, RSpins, RSize, RResync, RResyncIdx, RPrepareNothing,
         RPrepare, RCopyByte, REndSpin, REndIdx, REndNotStarted, ReaderMayRun,
         OutsideCall, ring, history
<1>2. Exclusion' /\ Newest'
  BY <1>1 DEF Exclusion, OutsideCall, OverrunInv, Newest
<1>3. CASE RSpins
  <2>1. /\ r.pc = "spins" /\ r'.pc = "size"
        /\ nb_spins' = NbSpins(write.spin_count, read.spin_count)
        /\ UNCHANGED <<read, rtotal>>
    BY <1>3 DEF RSpins, Call, ring, history
  <2>2. OpenRead' /\ Behind' /\ OverrunLocals'
    BY <1>1, <2>1 DEF OverrunInv, OpenRead, Behind, OverrunLocals
  <2>3. Laps'
    BY <1>1, <2>1, SameLaps DEF OverrunInv, WPos, RPos, WIdx, RIdx
  <2> QED
    BY <1>2, <2>2, <2>3
<1>4. CASE RSize
  <2>1. r.pc = "size" /\ UNCHANGED <<read, rtotal, chunk, off>>
    BY <1>4 DEF RSize, ring, history
  <2>2. PICK d \in Nat, q \in Int : LapsAhead(d, q)
    BY <2>1 DEF OverrunInv, Laps
  <2>3. /\ nb_spins \in 0 .. SpinMod - 1
        /\ nb_spins = 0 <=> write.spin_count = read.spin_count
    <3>1. nb_spins = NbSpins(write.spin_count, read.spin_count)
      BY <2>1 DEF OverrunInv, OverrunLocals
    <3>2. /\ write.spin_count \in 0 .. SpinMod - 1
          /\ read.spin_count \in 0 .. SpinMod - 1
      BY <1>0 DEF Ranges
    <3> QED
      BY <3>1, <3>2, NbSpinsRange
  <2>4. IF IsOverrun(Raw) THEN wtotal - rtotal > Size
                          ELSE Raw <= wtotal - rtotal
    BY <1>0, <1>1, <2>1, <2>2, <2>3, SizeOfLaps DEF OverrunInv
  <2>5. \/ IsOverrun(Raw) /\ r'.pc = "resync" /\ avail' = Size
        \/ /\ ~IsOverrun(Raw) /\ r'.pc = "prepare" /\ avail' = Raw /\ ~overrun'
        \/ r'.pc = "idle"
        \/ r'.pc = "copy" /\ ~overrun'
    BY <1>4 DEF RSize, RSizeOverrun, RSizeData, RSizeEmpty, Call
  <2>6. OverrunLocals'
    BY <1>1, <2>1, <2>4, <2>5 DEF OverrunLocals
  <2>7. OpenRead' /\ Behind'
    BY <1>1, <2>1, <2>5 DEF OverrunInv, OpenRead, Behind
  <2>8. Laps'
    BY <1>1, <2>1, <2>5, SameLaps DEF OverrunInv, WPos, RPos, WIdx, RIdx
  <2> QED
    BY <1>2, <2>6, <2>7, <2>8
<1>5. CASE RResync
  <2>1. /\ r.pc = "resync" /\ r'.pc = "resync_idx"
        /\ read'.spin_count = (write.spin_count - 1 + SpinMod) % SpinMod
        /\ read'.async_started = read.async_started
        /\ UNCHANGED <<avail, rtotal>>
    BY <1>5 DEF RResync, Ptr, Call, locals, history
  <2>2. OpenRead' /\ Laps' /\ Behind' /\ OverrunLocals'
    BY <1>1, <2>1 DEF OverrunInv, OpenRead, Laps, Behind, OverrunLocals
  <2> QED
    BY <1>2, <2>2
<1>6. CASE RResyncIdx
  <2>1. /\ r.pc = "resync_idx" /\ r'.pc = "prepare"
        /\ read'.idx = write.idx /\ read'.spin_count = read.spin_count
        /\ read'.async_started = read.async_started
        /\ rtotal' = wtotal - Size /\ UNCHANGED avail
    BY <1>6 DEF RResyncIdx, Ptr, Call, locals, history
  <2>2. /\ wtotal - rtotal > Size /\ avail = Size /\ rtotal >= 0
        /\ ~read.async_started
        /\ read.spin_count = (write.spin_count - 1 + SpinMod) % SpinMod
    BY <2>1 DEF OverrunInv, OverrunLocals, Behind, OpenRead
  <2>3. wtotal >= Size /\ rtotal' \in Int /\ wtotal - rtotal' = Size
    BY <2>1, <2>2, <1>0 DEF Ranges
  <2>4. OpenRead' /\ Behind' /\ OverrunLocals'
    BY <1>1, <2>1, <2>2, <2>3, <1>0
    DEF Ranges, OpenRead, Behind, OverrunLocals
  <2>5. \E q \in Int : write.spin_count = read.spin_count + 1 - q * SpinMod
    <3>1. read.spin_count = IF write.spin_count = 0 THEN SpinMod - 1
                            ELSE write.spin_count - 1
      BY <2>2, <1>0, SpinBefore DEF Ranges
    <3>2. CASE write.spin_count = 0
      <4>1. write.spin_count = read.spin_count + 1 - 1 * SpinMod
        BY <3>1, <3>2, <1>0 DEF Ranges
      <4> QED
        BY <4>1
    <3>3. CASE write.spin_count # 0
      <4>1. write.spin_count = read.spin_count + 1 - 0 * SpinMod
        BY <3>1, <3>3, <1>0 DEF Ranges
      <4> QED
        BY <4>1
    <3> QED
      BY <3>2, <3>3
  <2>6. PICK q \in Int : write.spin_count = read.spin_count + 1 - q * SpinMod
    BY <2>5
  <2>7. WPos' - RPos' = 1 * Size + WIdx' - RIdx'
    <3>1. /\ WPos' = wtotal /\ RPos' = rtotal' /\ WIdx' = write.idx
          /\ RIdx' = write.idx
      BY <1>1, <2>1 DEF WPos, RPos, WIdx, RIdx
    <3>2. write.idx \in Int /\ wtotal \in Int /\ rtotal' \in Int
      BY <2>3, <1>0 DEF Ranges
    <3>3. 1 * Size + write.idx - write.idx = Size
      BY <3>2
    <3>4. wtotal - rtotal' = 1 * Size + write.idx - write.idx
      BY <2>3, <3>3, Zenon
    <3> QED
      BY <3>1, <3>2, <3>4
  <2>8. LapsAhead(1, q)'
    BY <1>1, <2>1, <2>6, <2>7 DEF LapsAhead
  <2>9. Laps'
    BY <2>8 DEF Laps
  <2> QED
    BY <1>2, <2>4, <2>9
<1>7. CASE RPrepareNothing
  <2>1. /\ r.pc = "prepare" /\ r'.pc = "idle" /\ UNCHANGED <<read, rtotal>>
    BY <1>7 DEF RPrepareNothing, Call, ring, history
  <2>2. OpenRead' /\ Behind' /\ OverrunLocals'
    BY <1>1, <2>1 DEF OverrunInv, OpenRead, Behind, OverrunLocals
  <2>3. Laps'
    BY <1>1, <2>1, SameLaps DEF OverrunInv, WPos, RPos, WIdx, RIdx
  <2> QED
    BY <1>2, <2>2, <2>3
<1>8. CASE RPrepare
  <2>1. /\ r.pc = "prepare" /\ r'.pc = "copy"
        /\ chunk' = MinOf(MinOf(r.left, avail), Size - read.idx)
        /\ off' = read.idx /\ read'.idx = read.idx
        /\ read'.spin_count = read.spin_count
        /\ read'.async_size = chunk'
        /\ UNCHANGED <<rtotal, overrun>>
    BY <1>8 DEF RPrepare, Ptr, Call, history
  <2>2. chunk' \in Int /\ chunk' <= avail
    BY <2>1, <1>0 DEF Ranges, MinOf
  <2>3. rtotal + chunk' <= wtotal
    <3>1. avail <= wtotal - rtotal
      BY <2>1 DEF OverrunInv, OverrunLocals
    <3>2. avail \in Int /\ wtotal \in Int /\ rtotal \in Int
      BY <1>0 DEF Ranges
    <3> QED
      BY <2>2, <3>1, <3>2, Fits
  <2>4. OpenRead' /\ Behind' /\ OverrunLocals'
    BY <1>1, <2>1, <2>3 DEF OverrunInv, OpenRead, Behind, OverrunLocals
  <2>5. Laps'
    BY <1>1, <2>1, SameLaps DEF OverrunInv, WPos, RPos, WIdx, RIdx
  <2> QED
    BY <1>2, <2>4, <2>5
<1>9. CASE RCopyByte
  <2>1. /\ r.pc = "copy" /\ r'.pc = "copy" /\ r'.blocking = r.blocking
        /\ UNCHANGED <<read, chunk, off, rtotal, overrun>>
    BY <1>9 DEF RCopyByte, Call, ring, locals, history
  <2>2. OpenRead' /\ Behind' /\ OverrunLocals'
    BY <1>1, <2>1 DEF OverrunInv, OpenRead, Behind, OverrunLocals
  <2>3. Laps'
    BY <1>1, <2>1, SameLaps DEF OverrunInv, WPos, RPos, WIdx, RIdx
  <2> QED
    BY <1>2, <2>2, <2>3
<1>10. CASE REndSpin
  <2>1. /\ r.pc = "copy" /\ r'.pc = "end" /\ read.async_started
        /\ r'.done = r.done /\ r.done = chunk
        /\ read.idx + read.async_size >= Size
        /\ read'.idx = read.idx /\ read'.async_size = read.async_size
        /\ read'.async_started = read.async_started
        /\ read'.spin_count = (read.spin_count + 1) % SpinMod
        /\ UNCHANGED <<chunk, off, rtotal>>
    BY <1>10 DEF REndSpin, EndSpin, Wraps, Ptr, Call, locals, history
  <2>2. /\ read.async_size = chunk /\ read.idx = off
        /\ rtotal + chunk <= wtotal /\ off + chunk = Size
    BY <2>1, <1>0
    DEF Ranges, OverrunInv, BoundsInv, ReaderBlock, OpenRead
  <2>3. OpenRead' /\ Behind' /\ OverrunLocals'
    BY <1>1, <2>1, <2>2 DEF OverrunInv, OpenRead, Behind, OverrunLocals
  <2>4. PICK d \in Nat, q \in Int : LapsAhead(d, q)
    BY <2>1 DEF OverrunInv, Laps
  <2>5. /\ write.spin_count = read.spin_count + d - q * SpinMod
        /\ wtotal - rtotal = d * Size + write.idx - read.idx
    BY <1>1, <2>1, <2>4 DEF LapsAhead, WPos, RPos, WIdx, RIdx
  <2>6. d >= 1
    <3>1. d = 0 => wtotal - rtotal = 0 + write.idx - read.idx
      BY <2>5
    <3> QED
      BY <2>2, <3>1, <1>0 DEF Ranges
  <2>7. /\ d - 1 \in Nat /\ q - 1 \in Int
        /\ d * Size \in Int /\ d * Size = (d - 1) * Size + Size
        /\ (d - 1) * Size \in Int
        /\ q * SpinMod \in Int /\ (q - 1) * SpinMod = q * SpinMod - SpinMod
    BY <2>6
  <2>8. \E p \in Int : write.spin_count
                         = read'.spin_count + (d - 1) - p * SpinMod
    <3>1. read'.spin_count = IF read.spin_count = SpinMod - 1
                             THEN 0 ELSE read.spin_count + 1
      BY <2>1, <1>0, SpinNext DEF Ranges
    <3>2. CASE read.spin_count = SpinMod - 1
      <4>1. write.spin_count = read'.spin_count + (d - 1) - (q - 1) * SpinMod
        BY <2>5, <2>7, <3>1, <3>2, <1>0 DEF Ranges
      <4> QED
        BY <2>7, <4>1, Zenon
    <3>3. CASE read.spin_count # SpinMod - 1
      <4>1. write.spin_count = read'.spin_count + (d - 1) - q * SpinMod
        BY <2>5, <2>7, <3>1, <3>3, <1>0 DEF Ranges
      <4> QED
        BY <4>1
    <3> QED
      BY <3>2, <3>3
  <2>9. WPos' - RPos' = (d - 1) * Size + WIdx' - RIdx'
    <3>1. PICK x \in Int, y \in Int : x = d * Size /\ y = (d - 1) * Size
      BY <2>7
    <3>2. x = y + Size /\ wtotal - rtotal = x + write.idx - read.idx
      BY <2>5, <2>7, <3>1
    <3>3. wtotal - (rtotal + read.async_size) = y + write.idx - 0
      <4>1. /\ write.idx \in Int /\ read.async_size \in Int /\ wtotal \in Int
            /\ rtotal \in Int /\ read.idx \in Int
        BY <1>0 DEF Ranges
      <4> QED
        BY <2>2, <3>2, <4>1, LapTaken
    <3>4. /\ WPos' = wtotal /\ RPos' = rtotal + read.async_size
          /\ WIdx' = write.idx /\ RIdx' = 0
      BY <1>1, <2>1 DEF WPos, RPos, WIdx, RIdx
    <3>5. WPos' - RPos' = y + WIdx' - RIdx'
      BY <3>3, <3>4, <1>0 DEF Ranges
    <3> QED
      BY <3>1, <3>5, Zenon
  <2>10. Laps'
    <3>1. PICK p \in Int : write.spin_count
                             = read'.spin_count + (d - 1) - p * SpinMod
      BY <2>8
    <3>2. LapsAhead(d - 1, p)'
      BY <1>1, <2>9, <3>1 DEF LapsAhead
    <3> QED
      BY <2>7, <3>2 DEF Laps
  <2> QED
    BY <1>2, <2>3, <2>10
<1>11. CASE REndIdx
  <2>1. /\ r.pc \in {"copy", "end"} /\ r.done = chunk
        /\ read.async_size = chunk /\ rtotal + chunk <= wtotal
        /\ r.pc = "copy" => read.idx + chunk < Size
        /\ r.pc = "end" => read.idx + chunk = Size
    BY <1>11, <1>0 DEF Ranges, REndIdx, Wraps, OverrunInv, OpenRead
  <2>2. /\ r'.pc \in {"idle", "spins"}
        /\ read'.spin_count = read.spin_count
        /\ read'.async_started = FALSE
        /\ read'.idx = (read.idx + chunk) % Size
        /\ rtotal' = rtotal + chunk
    BY <1>11, <2>1 DEF REndIdx, NextChunk, EndIdx, Ptr, Call
  <2>3. read'.idx = IF r.pc = "end" THEN 0 ELSE read.idx + chunk
    <3>1. CASE r.pc = "end"
      BY <2>1, <2>2, <3>1
    <3>2. CASE r.pc = "copy"
      <4>1. read.idx + chunk \in 0 .. Size - 1
        BY <2>1, <3>2, <1>0 DEF Ranges
      <4> QED
        BY <2>2, <3>2, <4>1
    <3> QED
      BY <2>1, <3>1, <3>2
  <2>4. OpenRead' /\ Behind' /\ OverrunLocals'
    BY <1>1, <2>1, <2>2, <1>0
    DEF Ranges, OverrunInv, OpenRead, Behind, OverrunLocals
  <2>5. Laps'
    <3>1. PICK d \in Nat, q \in Int : LapsAhead(d, q)
      BY <2>1 DEF OverrunInv, Laps
    <3>2. PICK x \in Int : x = d * Size
      OBVIOUS
    <3>3. /\ RPos \in Int /\ RIdx \in Int
          /\ rtotal' \in Int /\ read'.idx \in Int
          /\ rtotal' - RPos = read'.idx - RIdx
      BY <2>1, <2>2, <2>3, <1>0 DEF Ranges, RPos, RIdx
    <3>4. /\ RPos' = rtotal' /\ RIdx' = read'.idx
          /\ WPos' = wtotal /\ WIdx' = write.idx /\ WPos = wtotal
          /\ WIdx = write.idx
      BY <1>1, <2>2 DEF WPos, WIdx, RPos, RIdx
    <3>5. wtotal - RPos = x + write.idx - RIdx
      BY <3>1, <3>2, <3>4 DEF LapsAhead
    <3>6. wtotal - rtotal' = x + write.idx - read'.idx
      BY <3>3, <3>5, <1>0 DEF Ranges
    <3>7. WPos' - RPos' = x + WIdx' - RIdx'
      BY <3>4, <3>6, <3>3, <1>0 DEF Ranges
    <3>8. LapsAhead(d, q)'
      BY <1>1, <2>2, <3>1, <3>2, <3>7 DEF LapsAhead
    <3> QED
      BY <3>8 DEF Laps
  <2> QED
    BY <1>2, <2>4, <2>5
<1>12. CASE REndNotStarted
  <2>1. /\ r.pc = "copy" /\ r'.pc \in {"idle", "spins"} /\ ~read.async_started
        /\ UNCHANGED <<read, rtotal>>
    BY <1>12 DEF REndNotStarted, NextChunk, Call, ring, history
  <2>2. OpenRead' /\ Behind' /\ OverrunLocals'
    BY <1>1, <2>1 DEF OverrunInv, OpenRead, Behind, OverrunLocals
  <2>3. Laps'
    BY <1>1, <2>1, SameLaps DEF OverrunInv, WPos, RPos, WIdx, RIdx
  <2> QED
    BY <1>2, <2>2, <2>3
<1> QED
  BY <1>3, <1>4, <1>5, <1>6, <1>7, <1>8, <1>9, <1>10, <1>11, <1>12
  DEF ReaderStep

\* OverrunInv is inductive when calls exclude each other.
LEMMA OverrunInvariant ==
  ASSUME Preemptible = {}, Abandons = {} PROVE Spec => []OverrunInv
<1>1. ASSUME OverrunInv, [Next]_vars PROVE OverrunInv'
  <2>1. BoundsInv'
    BY <1>1, NextBounds DEF OverrunInv
  <2>2. CASE StartWrite \/ StartRead
    BY <1>1, <2>1, <2>2, StartOverrun DEF OverrunInv
  <2>3. CASE WriterStep
    BY <1>1, <2>1, <2>3, WriterOverrun DEF OverrunInv
  <2>4. CASE ReaderStep
    BY <1>1, <2>1, <2>4, ReaderOverrun DEF OverrunInv
  <2>5. CASE UNCHANGED vars
    <3>1. UNCHANGED <<write, read, buff, w, r, nb_spins, avail, overrun, chunk,
                      off, wtotal, rtotal>>
      BY <2>5 DEF vars, ring, locals, history
    <3> QED
      BY <1>1, <2>1, <3>1
      DEF OverrunInv, Exclusion, OutsideCall, OpenRead, Laps, LapsAhead, WPos,
          RPos, WIdx, RIdx, Behind, OverrunLocals, NbSpins, Newest
  <2> QED
    BY <1>1, <2>2, <2>3, <2>4, <2>5, NoneAbandoned DEF Next, OverrunInv
<1>2. OverrunInv /\ [Next]_vars => OverrunInv'
  BY <1>1
<1> QED
  BY <1>2, InitOverrun, PTL DEF Spec

\* -NO_OS_EOVERRUN is reported, and unread bytes dropped, only if the writer has
\* overwritten some of them, however many laps ahead it is and whatever sizes
\* the callers ask for.
THEOREM OverrunIsReal ==
  ASSUME Preemptible = {}, Abandons = {} PROVE Spec => []NoSpuriousOverrun
<1>1. ASSUME OverrunInv PROVE NoSpuriousOverrun
  <2>1. Ranges
    BY <1>1, BoundsNumbers DEF OverrunInv
  <2> QED
    BY <1>1, <2>1 DEF OverrunInv, OverrunLocals, NoSpuriousOverrun, Ranges
<1>2. OverrunInv => NoSpuriousOverrun
  BY <1>1
<1> QED
  BY <1>2, OverrunInvariant, PTL

\* After an overrun a blocking read goes on with the oldest byte that the ring
\* still holds.
THEOREM ResyncsToOldest ==
  ASSUME Preemptible = {}, Abandons = {} PROVE Spec => []ResyncOldest
<1>1. ASSUME OverrunInv PROVE ResyncOldest
  <2> SUFFICES ASSUME r.pc = "copy", overrun, r.blocking, w.pc = "idle"
               PROVE  buff[off] = wtotal - Size + 1
    BY DEF ResyncOldest
  <2>1. Ranges
    BY <1>1, BoundsNumbers DEF OverrunInv
  <2>2. w.done = 0 /\ off = write.idx /\ wtotal >= Size
    BY <1>1 DEF OverrunInv, BoundsInv, WriterBlock, OverrunLocals
  <2>3. off \in Indices /\ off >= write.idx + w.done
        /\ wtotal + (off - write.idx) + 1 > Size
    BY <2>1, <2>2 DEF Ranges, Indices
  <2>4. buff[off] = wtotal + (off - write.idx) + 1 - Size
    BY <1>1, <2>3 DEF OverrunInv, Newest
  <2> QED
    BY <2>1, <2>2, <2>4 DEF Ranges
<1>2. OverrunInv => ResyncOldest
  BY <1>1
<1> QED
  BY <1>2, OverrunInvariant, PTL

-----------------------------------------------------------------------------
(* Every call ends after a bounded number of its own steps *)

\* The places of a call in the order in which an iteration of the loop of
\* no_os_cb_operation comes to them.
Rank(pc) ==
  CASE pc = "spins" -> 7 [] pc = "size" -> 6 [] pc = "resync" -> 5
    [] pc = "resync_idx" -> 4 [] pc = "prepare" -> 3 [] pc = "copy" -> 2
    [] pc = "end" -> 1

\* A bound on the steps of a call from here on: an iteration has Size + 8 at most and
\* takes a byte off the request at least.
Iteration == Size + 8
WriterLeft ==
  IF w.pc = "idle" THEN 0
  ELSE w.left * Iteration + Rank(w.pc)
         + (IF w.pc = "prepare" THEN Size ELSE write.async_size - w.done)
ReaderLeft ==
  IF r.pc = "idle" THEN 0
  ELSE r.left * Iteration + Rank(r.pc)
         + (IF r.pc \in {"copy", "end"} THEN chunk - r.done ELSE Size)

\* A blocking call has something left to write, and a block is never empty; the reader
\* copies a chunk only if it has one.
Moving ==
  /\ w.blocking /\ w.pc # "idle" => w.left > 0
  /\ w.blocking /\ w.pc \in {"copy", "end"} => write.async_size > 0
  /\ r.pc \in {"copy", "end"} => chunk > 0

\* A step of a call takes one step off, and no step of the other side puts one on.
WriterActs == WriterStep \/ WBusy \/ WAbandon
ReaderActs == ReaderStep \/ RBusy \/ RAbandon
Bounded ==
  /\ WriterActs => WriterLeft' < WriterLeft
  /\ ReaderActs => ReaderLeft' < ReaderLeft
  /\ StartWrite \/ WriterActs => ReaderLeft' = ReaderLeft
  /\ StartRead \/ ReaderActs => WriterLeft' = WriterLeft
  /\ StartWrite => WriterLeft' < (MaxRequest + 1) * Iteration
  /\ StartRead => ReaderLeft' < (MaxRequest + 1) * Iteration

\* The only calls that make no step are those that ask again and again for a
\* transaction while an abandoned one is open.
BusyIsAbandoned ==
  /\ w.pc = "prepare" /\ write.async_started => "writer" \in abandoned
  /\ r.pc = "spins" /\ read.async_started => "reader" \in abandoned

\* One byte less is an iteration less.
LEMMA IterationLess ==
  ASSUME NEW a \in Nat, NEW b \in Nat, a < b
  PROVE  a * Iteration + Iteration <= b * Iteration
         /\ a * Iteration \in Nat /\ b * Iteration \in Nat
<1> DEFINE k == Iteration
<1>1. k \in Nat
  BY DEF Iteration
<1> HIDE DEF k
<1>2. PICK d \in Nat : b = a + 1 + d
  <2>1. b - a - 1 \in Nat /\ b = a + 1 + (b - a - 1)
    OBVIOUS
  <2> QED
    BY <2>1
<1>3. d * k \in Nat /\ a * k \in Nat /\ b * k \in Nat
  BY <1>1
<1>4. b * k = a * k + k + d * k
  BY <1>1, <1>2
<1>5. a * k + k <= b * k
  BY <1>1, <1>3, <1>4
<1> QED
  BY <1>3, <1>5 DEF k

LEMMA MovingInit == Init => Moving
  BY DEF Init, Moving, Call

LEMMA MovingStep == BoundsInv /\ Moving /\ [Next]_vars => Moving'
<1> SUFFICES ASSUME BoundsInv, Moving, [Next]_vars PROVE Moving'
  OBVIOUS
<1>0. /\ w.left \in Nat /\ write.idx \in 0 .. Size - 1 /\ write.async_size \in 0 .. Size
      /\ r.left \in Int /\ read.idx \in 0 .. Size - 1 /\ avail \in 0 .. Size
      /\ chunk \in 0 .. Size /\ (r.pc # "idle" => r.left >= 0)
  BY DEF BoundsInv, TypeOK, RingType, CallType, LocalType, CbPtr, Indices, ReaderBlock
<1> USE DEF Moving, Call, locals, ring
<1>1. CASE StartWrite
  BY <1>1 DEF StartWrite, WriteCall
<1>2. CASE WPrepare
  BY <1>0, <1>2 DEF WPrepare, Ptr, MinOf
<1>3. CASE WCopyByte
  BY <1>3 DEF WCopyByte
<1>4. CASE WEndSpin
  BY <1>4 DEF WEndSpin, EndSpin, Ptr
<1>5. CASE WEndIdx
  BY <1>0, <1>5 DEF WEndIdx, EndIdx, Ptr
<1>6. CASE StartRead
  BY <1>6 DEF StartRead, ReadCall
<1>7. CASE RPrepare
  <2>1. chunk' > 0
    BY <1>0, <1>7 DEF RPrepare, MinOf
  <2> QED
    BY <1>7, <2>1 DEF RPrepare
<1>8. CASE RSize
  BY <1>0, <1>8 DEF RSize, RSizeOverrun, RSizeData, RSizeEmpty
<1>9. CASE RSpins \/ RResync \/ RResyncIdx \/ RPrepareNothing
  BY <1>9 DEF RSpins, RResync, RResyncIdx, RPrepareNothing
<1>10. CASE RCopyByte \/ REndSpin
  BY <1>10 DEF RCopyByte, REndSpin
<1>11. CASE REndIdx \/ REndNotStarted
  BY <1>11 DEF REndIdx, REndNotStarted, NextChunk
<1>12. CASE UNCHANGED vars
  BY <1>12 DEF vars
<1>13. CASE WBusy \/ RBusy \/ WAbandon \/ RAbandon
  BY <1>13 DEF WBusy, RBusy, WAbandon, RAbandon
<1> QED
  BY <1>1, <1>2, <1>3, <1>4, <1>5, <1>6, <1>7, <1>8, <1>9, <1>10, <1>11, <1>12,
     <1>13
  DEF Next, WriterStep, ReaderStep, Busy, Abandon

\* The bounds are numbers of steps.
LEMMA LeftIsNat ==
  ASSUME BoundsInv PROVE WriterLeft \in Nat /\ ReaderLeft \in Nat
<1>0. /\ w.left \in Nat /\ write.async_size \in 0 .. Size /\ w.done \in 0 .. Size
      /\ r.left \in Int /\ r.done \in 0 .. Size /\ chunk \in 0 .. Size
      /\ w.pc \in WPc /\ r.pc \in RPc /\ Iteration \in Nat
  BY DEF BoundsInv, TypeOK, RingType, CallType, LocalType, CbPtr, Iteration
<1>1. ASSUME w.pc # "idle" PROVE WriterLeft \in Nat
  <2>1. w.left * Iteration \in Nat
    BY <1>0
  <2>2. w.pc # "prepare" => write.async_size - w.done \in Nat
    BY <1>0, <1>1 DEF BoundsInv, WriterBlock, WPc
  <2>3. Rank(w.pc) \in Nat
    BY <1>0, <1>1 DEF WPc, Rank
  <2> DEFINE q == w.left * Iteration
             k == Rank(w.pc)
             m == IF w.pc = "prepare" THEN Size ELSE write.async_size - w.done
  <2>4. WriterLeft = q + k + m
    BY <1>1 DEF WriterLeft
  <2>5. q \in Nat /\ k \in Nat /\ m \in Nat
    BY <2>1, <2>2, <2>3
  <2> HIDE DEF q, k, m
  <2> QED
    BY <2>4, <2>5
<1>2. ASSUME r.pc # "idle" PROVE ReaderLeft \in Nat
  <2>1. r.left * Iteration \in Nat
    <3>1. r.left \in Nat
      BY <1>0, <1>2 DEF BoundsInv, ReaderBlock
    <3> QED
      BY <1>0, <3>1
  <2>2. r.pc \in {"copy", "end"} => chunk - r.done \in Nat
    BY <1>0 DEF BoundsInv, ReaderBlock
  <2>3. Rank(r.pc) \in Nat
    BY <1>0, <1>2 DEF RPc, Rank
  <2> DEFINE q == r.left * Iteration
             k == Rank(r.pc)
             m == IF r.pc \in {"copy", "end"} THEN chunk - r.done ELSE Size
  <2>4. ReaderLeft = q + k + m
    BY <1>2 DEF ReaderLeft
  <2>5. q \in Nat /\ k \in Nat /\ m \in Nat
    BY <2>1, <2>2, <2>3
  <2> HIDE DEF q, k, m
  <2> QED
    BY <2>4, <2>5
<1> QED
  BY <1>1, <1>2 DEF WriterLeft, ReaderLeft

\* A call that is not over has a step left.
LEMMA PositiveLeft ==
  ASSUME BoundsInv
  PROVE  /\ w.pc # "idle" => WriterLeft > 0
         /\ r.pc # "idle" => ReaderLeft > 0
<1>0. /\ w.left \in Nat /\ write.async_size \in 0 .. Size /\ w.done \in 0 .. Size
      /\ r.left \in Int /\ r.done \in 0 .. Size /\ chunk \in 0 .. Size
      /\ w.pc \in WPc /\ r.pc \in RPc /\ Iteration \in Nat
  BY DEF BoundsInv, TypeOK, RingType, CallType, LocalType, CbPtr, Iteration
<1>1. ASSUME w.pc # "idle" PROVE WriterLeft > 0
  <2> DEFINE q == w.left * Iteration
             k == Rank(w.pc)
             m == IF w.pc = "prepare" THEN Size ELSE write.async_size - w.done
  <2>1. WriterLeft = q + k + m
    BY <1>1 DEF WriterLeft
  <2>2. q \in Nat
    BY <1>0
  <2>3. k \in Nat /\ k > 0
    BY <1>0, <1>1 DEF WPc, Rank
  <2>4. m \in Nat
    BY <1>0, <1>1 DEF BoundsInv, WriterBlock, WPc
  <2> HIDE DEF q, k, m
  <2> QED
    BY <2>1, <2>2, <2>3, <2>4
<1>2. ASSUME r.pc # "idle" PROVE ReaderLeft > 0
  <2> DEFINE q == r.left * Iteration
             k == Rank(r.pc)
             m == IF r.pc \in {"copy", "end"} THEN chunk - r.done ELSE Size
  <2>1. ReaderLeft = q + k + m
    BY <1>2 DEF ReaderLeft
  <2>2. q \in Nat
    <3>1. r.left \in Nat
      BY <1>0, <1>2 DEF BoundsInv, ReaderBlock
    <3> QED
      BY <1>0, <3>1
  <2>3. k \in Nat /\ k > 0
    BY <1>0, <1>2 DEF RPc, Rank
  <2>4. m \in Nat
    BY <1>0 DEF BoundsInv, ReaderBlock
  <2> HIDE DEF q, k, m
  <2> QED
    BY <2>1, <2>2, <2>3, <2>4
<1> QED
  BY <1>1, <1>2

LEMMA WriterShrinks ==
  ASSUME BoundsInv, Moving, WriterStep PROVE WriterLeft' < WriterLeft
<1>0. /\ w.left \in Nat /\ write.idx \in 0 .. Size - 1 /\ write.async_size \in 0 .. Size
      /\ w.done \in 0 .. Size /\ Iteration \in Nat
  BY DEF BoundsInv, TypeOK, RingType, CallType, CbPtr, Indices, Iteration
<1>1. w.left * Iteration \in Nat
  BY <1>0
<1> DEFINE q == w.left * Iteration
<1>2. CASE WPrepare
  <2>1. /\ w.pc = "prepare" /\ w'.pc = "copy" /\ w'.left = w.left /\ w'.done = 0
        /\ write'.async_size = MinOf(w.left, Size - write.idx)
    BY <1>2 DEF WPrepare, Call, Ptr
  <2>2. write'.async_size \in 0 .. Size
    BY <1>0, <2>1 DEF MinOf
  <2>3. WriterLeft = q + 3 + Size /\ WriterLeft' = q + 2 + (write'.async_size - 0)
    BY <2>1 DEF WriterLeft, Rank, Iteration
  <2> HIDE DEF q
  <2> QED
    BY <1>0, <1>1, <2>2, <2>3 DEF q
<1>3. CASE WCopyByte
  <2>1. /\ w.pc = "copy" /\ w'.pc = "copy" /\ w'.left = w.left /\ w'.done = w.done + 1
        /\ write' = write
    BY <1>3 DEF WCopyByte, Call
  <2>2. /\ WriterLeft = q + 2 + (write.async_size - w.done)
        /\ WriterLeft' = q + 2 + (write.async_size - (w.done + 1))
    BY <2>1 DEF WriterLeft, Rank, Iteration
  <2> HIDE DEF q
  <2> QED
    BY <1>0, <1>1, <2>2 DEF q
<1>4. CASE WEndSpin
  <2>1. /\ w.pc = "copy" /\ w'.pc = "end" /\ w'.left = w.left /\ w'.done = w.done
        /\ write'.async_size = write.async_size
    BY <1>4 DEF WEndSpin, Call, EndSpin, Ptr
  <2>2. /\ WriterLeft = q + 2 + (write.async_size - w.done)
        /\ WriterLeft' = q + 1 + (write.async_size - w.done)
    BY <2>1 DEF WriterLeft, Rank, Iteration
  <2> HIDE DEF q
  <2> QED
    BY <1>0, <1>1, <2>2 DEF q
<1>5. CASE WEndIdx
  <2>1. /\ w.pc \in {"copy", "end"} /\ w'.left = w.left - write.async_size
        /\ w'.pc = IF w.blocking /\ w.left > write.async_size THEN "prepare" ELSE "idle"
    BY <1>5 DEF WEndIdx, Call
  <2>2. w.done <= write.async_size
    BY <2>1 DEF BoundsInv, WriterBlock
  <2>3. /\ WriterLeft = q + (IF w.pc = "copy" THEN 2 ELSE 1) + (write.async_size - w.done)
        /\ WriterLeft >= q + 1
    <3>1. WriterLeft = q + (IF w.pc = "copy" THEN 2 ELSE 1) + (write.async_size - w.done)
      BY <2>1 DEF WriterLeft, Rank
    <3> HIDE DEF q
    <3> QED
      BY <1>0, <1>1, <2>2, <3>1 DEF q
  <2>4. CASE w'.pc = "idle"
    <3>1. WriterLeft' = 0
      BY <2>4 DEF WriterLeft
    <3> HIDE DEF q
    <3> QED
      BY <1>0, <1>1, <2>3, <3>1 DEF q
  <2>5. CASE w'.pc = "prepare"
    <3>1. w'.left \in Nat /\ w'.left < w.left
      BY <1>0, <2>1, <2>5 DEF Moving
    <3>2. w'.left * Iteration + Iteration <= q /\ w'.left * Iteration \in Nat
      BY <1>0, <3>1, IterationLess
    <3>3. WriterLeft' = w'.left * Iteration + 3 + Size
      BY <2>5 DEF WriterLeft, Rank, Iteration
    <3> DEFINE p == w'.left * Iteration
    <3>4. p + Iteration <= q /\ p \in Nat /\ WriterLeft' = p + 3 + Size
      BY <3>2, <3>3
    <3> HIDE DEF q, p
    <3> QED
      BY <1>0, <1>1, <2>3, <3>4 DEF q, Iteration
  <2> QED
    BY <2>1, <2>4, <2>5
<1> QED
  BY <1>2, <1>3, <1>4, <1>5 DEF WriterStep

LEMMA ReaderShrinks ==
  ASSUME BoundsInv, Moving, ReaderStep PROVE ReaderLeft' < ReaderLeft
<1>0. /\ r.left \in Int /\ read.idx \in 0 .. Size - 1 /\ avail \in 0 .. Size
      /\ chunk \in 0 .. Size /\ r.done \in 0 .. Size /\ Iteration \in Nat
  BY DEF BoundsInv, TypeOK, RingType, CallType, LocalType, CbPtr, Indices, Iteration
<1>p. r.pc # "idle"
  BY DEF ReaderStep, RSpins, RSize, RResync, RResyncIdx, RPrepareNothing, RPrepare,
         RCopyByte, REndSpin, REndIdx, REndNotStarted
<1>n. r.left \in Nat
  BY <1>0, <1>p DEF BoundsInv, ReaderBlock
<1> DEFINE q == r.left * Iteration
<1>q. q \in Nat
  BY <1>0, <1>n
<1>z. ASSUME r'.pc = "idle" PROVE ReaderLeft' < ReaderLeft
  <2>1. ReaderLeft' = 0
    BY <1>z DEF ReaderLeft
  <2>2. ReaderLeft \in Nat
    BY LeftIsNat
  <2> DEFINE m == IF r.pc \in {"copy", "end"} THEN chunk - r.done ELSE Size
  <2>3. ReaderLeft = q + Rank(r.pc) + m
    BY <1>p DEF ReaderLeft
  <2>4. m \in Nat
    BY <1>0 DEF BoundsInv, ReaderBlock
  <2>5. Rank(r.pc) \in Nat /\ Rank(r.pc) > 0
    BY <1>p DEF BoundsInv, TypeOK, CallType, RPc, Rank
  <2> HIDE DEF q, m
  <2> QED
    BY <1>q, <2>1, <2>3, <2>4, <2>5
\* Along an iteration, up to the copy.
<1>a. ASSUME NEW k \in Nat, NEW j \in Nat, j < k, Rank(r.pc) = k, Rank(r'.pc) = j,
             r.pc \notin {"idle", "copy", "end"}, r'.pc \notin {"idle", "copy", "end"},
             r'.left = r.left
      PROVE  ReaderLeft' < ReaderLeft
  <2>1. ReaderLeft = q + k + Size /\ ReaderLeft' = q + j + Size
    BY <1>a DEF ReaderLeft, Iteration
  <2> HIDE DEF q
  <2> QED
    BY <1>a, <1>q, <2>1
<1>1. CASE RSpins
  <2>1. r.pc = "spins" /\ r'.pc = "size" /\ r'.left = r.left
    BY <1>1 DEF RSpins, Call
  <2>2. Rank(r.pc) = 7 /\ Rank(r'.pc) = 6
    BY <2>1 DEF Rank
  <2> QED
    BY <1>a, <2>1, <2>2
\* To the copy of a chunk.
<1>c. ASSUME r.pc \in {"size", "prepare"}, r'.pc = "copy", r'.left = r.left, r'.done = 0,
             chunk' \in 0 .. Size
      PROVE  ReaderLeft' < ReaderLeft
  <2>1. ReaderLeft = q + 6 + Size \/ ReaderLeft = q + 3 + Size
    BY <1>c DEF ReaderLeft, Rank
  <2>2. ReaderLeft' = q + 2 + (chunk' - 0)
    BY <1>c DEF ReaderLeft, Rank, Iteration
  <2> HIDE DEF q
  <2> QED
    BY <1>c, <1>q, <2>1, <2>2
<1>2. CASE RSize
  <2>1. /\ r.pc = "size" /\ chunk' = chunk /\ r'.left = r.left
        /\ \/ r'.pc \in {"resync", "prepare", "idle"}
           \/ r'.pc = "copy" /\ r'.done = 0
    BY <1>2 DEF RSize, RSizeOverrun, RSizeData, RSizeEmpty, Call
  <2>2. CASE r'.pc = "copy"
    BY <1>0, <1>c, <2>1, <2>2
  <2>3. CASE r'.pc = "idle"
    BY <1>z, <2>3
  <2>4. CASE r'.pc = "resync"
    <3>1. Rank(r.pc) = 6 /\ Rank(r'.pc) = 5
      BY <2>1, <2>4 DEF Rank
    <3> QED
      BY <1>a, <2>1, <2>4, <3>1
  <2>5. CASE r'.pc = "prepare"
    <3>1. Rank(r.pc) = 6 /\ Rank(r'.pc) = 3
      BY <2>1, <2>5 DEF Rank
    <3> QED
      BY <1>a, <2>1, <2>5, <3>1
  <2> QED
    BY <2>1, <2>2, <2>3, <2>4, <2>5
<1>3. CASE RResync
  <2>1. r.pc = "resync" /\ r'.pc = "resync_idx" /\ r'.left = r.left
    BY <1>3 DEF RResync, Call
  <2>2. Rank(r.pc) = 5 /\ Rank(r'.pc) = 4
    BY <2>1 DEF Rank
  <2> QED
    BY <1>a, <2>1, <2>2
<1>4. CASE RResyncIdx
  <2>1. r.pc = "resync_idx" /\ r'.pc = "prepare" /\ r'.left = r.left
    BY <1>4 DEF RResyncIdx, Call
  <2>2. Rank(r.pc) = 4 /\ Rank(r'.pc) = 3
    BY <2>1 DEF Rank
  <2> QED
    BY <1>a, <2>1, <2>2
<1>5. CASE RPrepareNothing
  BY <1>5, <1>z DEF RPrepareNothing, Call
<1>6. CASE RPrepare
  <2>1. r.pc = "prepare" /\ r'.pc = "copy" /\ r'.left = r.left /\ r'.done = 0
    BY <1>6 DEF RPrepare, Call
  <2>2. chunk' \in 0 .. Size
    BY <1>0, <1>n, <1>6 DEF RPrepare, MinOf
  <2> QED
    BY <1>c, <2>1, <2>2
<1>7. CASE RCopyByte
  <2>1. /\ r.pc = "copy" /\ r'.pc = "copy" /\ r'.left = r.left /\ r'.done = r.done + 1
        /\ chunk' = chunk
    BY <1>7 DEF RCopyByte, Call, locals
  <2>2. ReaderLeft = q + 2 + (chunk - r.done) /\ ReaderLeft' = q + 2 + (chunk - (r.done + 1))
    BY <2>1 DEF ReaderLeft, Rank, Iteration
  <2> HIDE DEF q
  <2> QED
    BY <1>0, <1>q, <2>2
<1>8. CASE REndSpin
  <2>1. /\ r.pc = "copy" /\ r'.pc = "end" /\ r'.left = r.left /\ r'.done = r.done
        /\ chunk' = chunk
    BY <1>8 DEF REndSpin, Call, locals
  <2>2. ReaderLeft = q + 2 + (chunk - r.done) /\ ReaderLeft' = q + 1 + (chunk - r.done)
    BY <2>1 DEF ReaderLeft, Rank, Iteration
  <2> HIDE DEF q
  <2> QED
    BY <1>0, <1>q, <2>2
\* To the next chunk, or out of the loop.
<1>9. CASE REndIdx \/ REndNotStarted
  <2>1. /\ r.pc \in {"copy", "end"} /\ r'.left = r.left - chunk
        /\ r'.pc = IF r.blocking /\ r.left > chunk THEN "spins" ELSE "idle"
    BY <1>9 DEF REndIdx, REndNotStarted, NextChunk, Call
  <2>2. chunk > 0 /\ r.done <= chunk
    BY <2>1 DEF Moving, BoundsInv, ReaderBlock
  <2>3. ReaderLeft >= q + 1
    <3>1. ReaderLeft = q + (IF r.pc = "copy" THEN 2 ELSE 1) + (chunk - r.done)
      BY <2>1 DEF ReaderLeft, Rank
    <3> HIDE DEF q
    <3> QED
      BY <1>0, <1>q, <2>2, <3>1
  <2>4. CASE r'.pc = "idle"
    BY <1>z, <2>4
  <2>5. CASE r'.pc = "spins"
    <3>1. r'.left \in Nat /\ r'.left < r.left
      BY <1>0, <1>n, <2>1, <2>2, <2>5
    <3> DEFINE p == r'.left * Iteration
    <3>2. p + Iteration <= q /\ p \in Nat
      BY <1>n, <3>1, IterationLess
    <3>3. ReaderLeft' = p + 7 + Size
      BY <2>5 DEF ReaderLeft, Rank, Iteration
    <3>4. ReaderLeft \in Nat
      BY LeftIsNat
    <3> HIDE DEF q, p
    <3> QED
      BY <1>q, <2>3, <3>2, <3>3, <3>4 DEF Iteration
  <2> QED
    BY <2>1, <2>4, <2>5
<1> QED
  BY <1>1, <1>2, <1>3, <1>4, <1>5, <1>6, <1>7, <1>8, <1>9 DEF ReaderStep

\* A call of n bytes begins with less than n + 1 iterations.
LEMMA CallsBegin ==
  ASSUME BoundsInv
  PROVE  /\ StartWrite => WriterLeft' < (MaxRequest + 1) * Iteration
         /\ StartRead => ReaderLeft' < (MaxRequest + 1) * Iteration
<1>1. ASSUME NEW n \in 0 .. MaxRequest, NEW x, x = n * Iteration + 7 + Size
      PROVE  /\ x \in Nat /\ x < (MaxRequest + 1) * Iteration
             /\ n * Iteration + 3 + Size < (MaxRequest + 1) * Iteration
  <2> DEFINE p == n * Iteration
             q == (MaxRequest + 1) * Iteration
  <2>1. p + Iteration <= q /\ p \in Nat /\ q \in Nat
    BY IterationLess
  <2>2. x = p + 7 + Size
    BY <1>1
  <2> HIDE DEF p, q
  <2>3. x \in Nat /\ x < q /\ p + 3 + Size < q
    BY <2>1, <2>2 DEF Iteration
  <2> QED
    BY <2>3 DEF p, q
<1>2. ASSUME StartWrite PROVE WriterLeft' < (MaxRequest + 1) * Iteration
  <2>1. PICK n \in 0 .. MaxRequest : w'.pc = "prepare" /\ w'.left = n
    BY <1>2 DEF StartWrite, WriteCall, Call
  <2>2. WriterLeft' = n * Iteration + 3 + Size
    BY <2>1 DEF WriterLeft, Rank, Iteration
  <2> QED
    BY <1>1, <2>2
<1>3. ASSUME StartRead PROVE ReaderLeft' < (MaxRequest + 1) * Iteration
  <2>1. PICK n \in 0 .. MaxRequest : r'.pc = "spins" /\ r'.left = n
    BY <1>3 DEF StartRead, ReadCall, Call
  <2>2. ReaderLeft' = n * Iteration + 7 + Size
    BY <2>1 DEF ReaderLeft, Rank, Iteration
  <2> QED
    BY <1>1, <2>2
<1> QED
  BY <1>2, <1>3

\* A caller that leaves its transaction, or an asynchronous call that gets -EBUSY, is
\* out of the call.
LEMMA LeavingShrinks ==
  ASSUME BoundsInv
  PROVE  /\ WBusy \/ WAbandon => WriterLeft' < WriterLeft \/ UNCHANGED vars
         /\ RBusy \/ RAbandon => ReaderLeft' < ReaderLeft \/ UNCHANGED vars
<1>1. ASSUME WBusy \/ WAbandon
      PROVE  UNCHANGED vars \/ (w.pc # "idle" /\ WriterLeft' = 0)
  BY <1>1 DEF WBusy, WAbandon, WriterLeft, Call, vars
<1>2. ASSUME RBusy \/ RAbandon
      PROVE  UNCHANGED vars \/ (r.pc # "idle" /\ ReaderLeft' = 0)
  BY <1>2 DEF RBusy, RAbandon, ReaderLeft, Call, vars, locals
<1> QED
  BY <1>1, <1>2, PositiveLeft

\* Neither side waits for the other: a call of at most MaxRequest bytes is over after
\* fewer than (MaxRequest + 1) * (Size + 8) steps of its own, whatever the other side does
\* meanwhile, in every mode of preemption and for callers that do not ask first; only a
\* blocking call on a side that has left a transaction open asks for ever.
THEOREM CallsAreBounded ==
  Spec => /\ [](WriterLeft \in Nat /\ ReaderLeft \in Nat) /\ []BusyIsAbandoned
          /\ [][Bounded]_vars
<1>1. BoundsInv => WriterLeft \in Nat /\ ReaderLeft \in Nat
  BY LeftIsNat
<1>5. BoundsInv => BusyIsAbandoned
  BY DEF BoundsInv, WriterBlock, ReaderOpen, BusyIsAbandoned
<1>2. BoundsInv /\ Moving /\ [Next]_vars => [Bounded]_vars
  <2> SUFFICES ASSUME BoundsInv, Moving, Next, ~UNCHANGED vars PROVE Bounded
    OBVIOUS
  <2>1. StartWrite \/ WriterActs => ReaderLeft' = ReaderLeft
    <3>1. StartWrite \/ WriterActs => UNCHANGED <<r, chunk>>
      BY DEF WriterActs, StartWrite, WriteCall, WriterStep, WPrepare, WCopyByte, WEndSpin,
             WEndIdx, WBusy, WAbandon, locals
    <3> QED
      BY <3>1 DEF ReaderLeft, Iteration
  <2>2. StartRead \/ ReaderActs => WriterLeft' = WriterLeft
    <3>1. StartRead \/ ReaderActs => UNCHANGED <<w, write>>
      BY DEF ReaderActs, StartRead, ReadCall, ReaderStep, RSpins, RSize, RResync,
             RResyncIdx, RPrepareNothing, RPrepare, RCopyByte, REndSpin, REndIdx,
             REndNotStarted, RBusy, RAbandon, ring
    <3> QED
      BY <3>1 DEF WriterLeft, Iteration
  <2> QED
    BY <2>1, <2>2, WriterShrinks, ReaderShrinks, LeavingShrinks, CallsBegin
    DEF Bounded, WriterActs, ReaderActs
<1>3. BoundsInv /\ Moving /\ [Next]_vars => (BoundsInv /\ Moving)'
  BY NextBounds, MovingStep
<1>4. Init => BoundsInv /\ Moving
  BY InitBounds, MovingInit
<1> QED
  BY <1>1, <1>2, <1>3, <1>4, <1>5, PTL DEF Spec

-----------------------------------------------------------------------------
(* The receive FIFO: the inductive invariant of Lf256Fifo *)

\* The indices against the positions in the stream.
FifoPositions == Held = IF fempty >= ffilled THEN fempty - ffilled
                                             ELSE N + fempty - ffilled

\* A write that has passed its test has a slot to spare, however much the main
\* loop takes out meanwhile, or it has met the one position in which the test is
\* wrong; a read that has passed its test has a byte to take, however much the
\* interrupt puts in.
FifoRoom == wpc # "idle" => Held < N - 1 \/ (ffilled = 0 /\ fempty = N - 1)
FifoSomething == rpc # "idle" => Held > 0

\* The slots from ffilled on hold the accepted bytes in order, and the slot at
\* fempty the one about to be published.
FifoSlot(k) == IF ffilled + k - 1 < N THEN ffilled + k - 1 ELSE ffilled + k - 1 - N

FifoContents ==
  /\ \A k \in 1 .. Held : data[FifoSlot(k)] = taken + k
  /\ wpc = "publish" => data[fempty] = accepted + 1

\* The main loop has got the bytes of the stream up to the last one handed out.
FifoInOrder == got = HandedOut

FifoInv ==
  FifoTypeOK /\ FifoPositions /\ FifoRoom /\ FifoSomething /\ FifoContents /\ FifoInOrder

-----------------------------------------------------------------------------

USE NAssumption, AcceptedAssumption

\* The indices are unsigned characters: both stay inside the data array, also in
\* the situation in which bytes are lost.
THEOREM FifoTypeCorrect == FifoSpec => []FifoTypeOK
<1> USE DEF FifoTypeOK, Slots
<1>1. FifoInit => FifoTypeOK
  <2>1. FifoInit => overflowed \in BOOLEAN
    BY Zenon DEF FifoInit
  <2> QED
    BY <2>1 DEF FifoInit
<1>2. FifoTypeOK /\ [FifoNext]_fifoVars => FifoTypeOK'
  <2> SUFFICES ASSUME FifoTypeOK, [FifoNext]_fifoVars PROVE FifoTypeOK'
    OBVIOUS
  <2>1. CASE WriteTest
    BY <2>1 DEF WriteTest
  <2>2. CASE WriteStore
    BY <2>2 DEF WriteStore
  <2>3. CASE WritePublish
    BY <2>3 DEF WritePublish
  <2>4. CASE ReadTest
    BY <2>4 DEF ReadTest
  <2>5. CASE ReadLoad
    BY <2>5 DEF ReadLoad
  <2>6. CASE ReadAdvance
    BY <2>6 DEF ReadAdvance
  <2>7. CASE Flush
    BY <2>7 DEF Flush
  <2>8. CASE UNCHANGED fifoVars
    BY <2>8 DEF fifoVars
  <2> QED
    BY <2>1, <2>2, <2>3, <2>4, <2>5, <2>6, <2>7, <2>8 DEF FifoNext
<1> QED
  BY <1>1, <1>2, PTL DEF FifoSpec

\* The indices wrap like unsigned characters of N values.
LEMMA FifoSuccessor ==
  ASSUME NEW i \in Slots
  PROVE  (i + 1) % N = IF i = N - 1 THEN 0 ELSE i + 1
  BY DEF Slots

\* The distance of two indices, and what a step of either does to it.
FifoDistance(f, e) == IF e >= f THEN e - f ELSE N + e - f

\* Publishing a byte makes the distance one larger, unless it was N - 1; taking
\* one makes it one smaller, unless it was 0.
LEMMA FifoDistanceStep ==
  ASSUME NEW f \in Slots, NEW e \in Slots
  PROVE  /\ FifoDistance(f, e) < N - 1
             => FifoDistance(f, IF e = N - 1 THEN 0 ELSE e + 1) = FifoDistance(f, e) + 1
         /\ FifoDistance(f, e) > 0
             => FifoDistance(IF f = N - 1 THEN 0 ELSE f + 1, e) = FifoDistance(f, e) - 1
  BY DEF FifoDistance, Slots

\* The step of the inductive invariant, up to the first overflow.
LEMMA FifoStep ==
  ASSUME FifoInv, FifoTypeOK', ~overflowed', [FifoNext]_fifoVars
  PROVE  FifoInv'
<1> USE DEF FifoInv, HandedOut
<1>a. Held \in 0 .. N - 1
  BY DEF FifoPositions, FifoTypeOK, Slots
<1>1. CASE WriteTest
  <2>1. Held < N - 1 \/ (ffilled = 0 /\ fempty = N - 1)
    BY <1>1, <1>a DEF WriteTest, IsFull, FifoPositions, FifoTypeOK, Slots
  <2> QED
    BY <1>1, <1>a, <2>1 DEF WriteTest, FifoPositions, FifoRoom, FifoSomething, FifoContents,
                            FifoInOrder, Held, FifoSlot, FifoTypeOK
<1>2. CASE WriteStore
  <2> USE <1>2 DEF WriteStore
  <2>1. \A k \in 1 .. Held : FifoSlot(k) # fempty
    BY <1>a DEF FifoPositions, FifoSlot, FifoTypeOK, Slots, FifoRoom
  <2>2. \A k \in 1 .. Held : FifoSlot(k) \in Slots
    BY <1>a DEF FifoSlot, FifoTypeOK, Slots
  <2>3. Held' = Held /\ \A k : FifoSlot(k)' = FifoSlot(k)
    BY DEF Held, FifoSlot
  <2>4. FifoContents'
    BY <2>1, <2>2, <2>3 DEF FifoContents, FifoTypeOK
  <2> QED
    BY <2>3, <2>4 DEF FifoPositions, FifoRoom, FifoSomething, FifoInOrder
<1>3. CASE WritePublish
  <2> USE <1>3 DEF WritePublish
  <2>0. Held # N - 1
    BY Zenon
  <2>1. Held' = Held + 1 /\ Held < N - 1
    BY <1>a, <2>0 DEF Held, FifoTypeOK
  <2>b. fempty' = IF fempty = N - 1 THEN 0 ELSE fempty + 1
    BY FifoSuccessor DEF FifoTypeOK
  <2>2. FifoPositions'
    <3>1. Held = FifoDistance(ffilled, fempty) /\ ffilled' = ffilled
      BY DEF FifoPositions, FifoDistance
    <3>2. FifoDistance(ffilled, fempty') = Held + 1
      BY <2>1, <2>b, <3>1, FifoDistanceStep DEF FifoTypeOK
    <3> QED
      BY <2>1, <3>1, <3>2 DEF FifoPositions, FifoDistance
  <2>3. FifoSlot(Held + 1) = fempty /\ accepted + 1 = taken + Held + 1
    BY <2>1 DEF FifoPositions, FifoSlot, Held, FifoTypeOK, Slots
  <2>4. \A k : FifoSlot(k)' = FifoSlot(k)
    BY DEF FifoSlot
  <2>5. FifoContents'
    BY <1>a, <2>1, <2>3, <2>4 DEF FifoContents, FifoTypeOK
  <2> QED
    BY <1>a, <2>1, <2>2, <2>5 DEF FifoRoom, FifoSomething, FifoInOrder
<1>4. CASE ReadTest
  <2> USE <1>4 DEF ReadTest
  <2>1. Held > 0
    BY <1>a DEF IsEmpty, FifoPositions, FifoTypeOK, Slots
  <2> QED
    BY <2>1 DEF FifoPositions, FifoRoom, FifoSomething, FifoContents, FifoInOrder, Held, FifoSlot
<1>5. CASE ReadLoad
  <2> USE <1>5 DEF ReadLoad
  <2>1. Held > 0 /\ FifoSlot(1) = ffilled
    BY DEF FifoSomething, FifoSlot, FifoTypeOK, Slots
  <2>2. data[ffilled] = taken + 1
    BY <1>a, <2>1 DEF FifoContents
  <2> QED
    BY <2>1, <2>2 DEF FifoPositions, FifoRoom, FifoSomething, FifoContents, FifoInOrder, Held,
                      FifoSlot
<1>6. CASE ReadAdvance
  <2> USE <1>6 DEF ReadAdvance
  <2>1. Held' = Held - 1 /\ Held > 0
    BY DEF Held, FifoSomething, FifoTypeOK
  <2>b. ffilled' = IF ffilled = N - 1 THEN 0 ELSE ffilled + 1
    BY FifoSuccessor DEF FifoTypeOK
  <2>2. FifoPositions'
    <3>1. Held = FifoDistance(ffilled, fempty) /\ fempty' = fempty
      BY DEF FifoPositions, FifoDistance
    <3>2. FifoDistance(ffilled', fempty) = Held - 1
      BY <2>1, <2>b, <3>1, FifoDistanceStep DEF FifoTypeOK
    <3> QED
      BY <2>1, <3>1, <3>2 DEF FifoPositions, FifoDistance
  <2>3. \A k \in 1 .. Held' : FifoSlot(k)' = FifoSlot(k + 1)
    <3>1. /\ N \in Nat /\ N > 1 /\ ffilled \in 0 .. N - 1
          /\ Held \in 0 .. N - 1 /\ Held' = Held - 1
      BY <1>a, <2>1 DEF FifoTypeOK, Slots
    <3>2. CASE ffilled = N - 1
      BY <2>b, <3>1, <3>2 DEF FifoSlot
    <3>3. CASE ffilled < N - 1
      BY <2>b, <3>1, <3>3 DEF FifoSlot
    <3> QED
      BY <3>1, <3>2, <3>3
  <2>4. FifoContents'
    BY <1>a, <2>1, <2>3 DEF FifoContents, FifoTypeOK
  <2> QED
    BY <1>a, <2>1, <2>2, <2>4 DEF FifoRoom, FifoSomething, FifoInOrder
<1>7. CASE Flush
  <2> USE <1>7 DEF Flush
  <2>1. Held' = 0
    BY DEF Held, FifoTypeOK
  <2> QED
    BY <1>a, <2>1 DEF FifoPositions, FifoRoom, FifoSomething, FifoContents, FifoInOrder, FifoTypeOK,
                      Slots
<1>8. CASE UNCHANGED fifoVars
  BY <1>8 DEF fifoVars, FifoPositions, FifoRoom, FifoSomething, FifoContents, FifoInOrder, Held, FifoSlot
<1> QED
  BY <1>1, <1>2, <1>3, <1>4, <1>5, <1>6, <1>7, <1>8 DEF FifoNext

\* The inductive invariant holds in every reachable state up to the first overflow.
LEMMA FifoInvariant == FifoSpec => [](overflowed \/ FifoInv)
<1>1. FifoInit => FifoInv
  <2>1. FifoInit => overflowed \in BOOLEAN
    BY Zenon DEF FifoInit
  <2> QED
    BY <2>1 DEF FifoInit, FifoInv, FifoTypeOK, Slots, FifoPositions, FifoRoom,
                FifoSomething, FifoContents, FifoInOrder, HandedOut, Held
<1>2. (overflowed \/ FifoInv) /\ [FifoNext]_fifoVars /\ FifoTypeOK'
        => (overflowed \/ FifoInv)'
  <2>1. overflowed /\ [FifoNext]_fifoVars => overflowed'
    BY DEF FifoNext, WriteTest, WriteStore, WritePublish, ReadTest, ReadLoad,
           ReadAdvance, Flush, fifoVars
  <2> QED
    BY <2>1, FifoStep
<1> QED
  BY <1>1, <1>2, FifoTypeCorrect, PTL DEF FifoSpec

\* A full FIFO refuses every byte but in the position in which the comparison of
\* lf256fifo_is_full does not wrap: overflow needs the two indices at 0 and N - 1.
THEOREM FullRefuses == FifoSpec => RefusedWhenFull
<1>1. (overflowed \/ FifoInv) /\ [FifoNext]_fifoVars
        => [~overflowed /\ overflowed' => ffilled = 0 /\ fempty = N - 1]_fifoVars
  <2> SUFFICES ASSUME FifoInv, FifoNext, ~overflowed, overflowed'
               PROVE  ffilled = 0 /\ fempty = N - 1
    OBVIOUS
  <2>1. WritePublish /\ Held = N - 1
    BY DEF FifoNext, WriteTest, WriteStore, WritePublish, ReadTest, ReadLoad,
           ReadAdvance, Flush
  <2> QED
    BY <2>1 DEF FifoInv, FifoRoom, WritePublish
<1> QED
  BY <1>1, FifoInvariant, PTL DEF FifoSpec, RefusedWhenFull

\* Publishing a byte accepts it, loading one delivers it, a flush discards what is
\* held; the accesses in between are invisible in the stream.
LEMMA FifoStepRefines ==
  ASSUME FifoInv, FifoInv', ~overflowed', [FifoNext]_fifoVars
  PROVE  [FifoStream!Next]_(FifoStream!vars)
<1> USE DEF FifoStream!Next, FifoStream!vars
<1>0. /\ accepted \in Nat /\ taken \in Nat /\ Held \in Int /\ HandedOut \in Nat
      /\ got = HandedOut /\ got' = HandedOut'
  BY DEF FifoInv, FifoTypeOK, FifoInOrder, HandedOut, Held, HandedOut
<1>1. CASE WritePublish
  <2>1. /\ accepted' = accepted + 1 /\ HandedOut' = HandedOut /\ got' = got
        /\ Held < N - 1
    <3>1. Held \in 0 .. N - 1
      BY DEF FifoInv, FifoPositions, FifoTypeOK, Slots
    <3>2. Held # N - 1
      BY <1>1, Zenon DEF WritePublish
    <3> QED
      BY <1>1, <3>1, <3>2 DEF WritePublish, HandedOut
  <2>2. HandedOut >= taken
    BY <1>0 DEF HandedOut
  <2>3. 1 \in 1 .. (N - 1) - (accepted - HandedOut)
    BY <1>0, <2>1, <2>2 DEF Held
  <2> QED
    BY <2>1, <2>3 DEF FifoStream!Accept
<1>2. CASE ReadLoad
  <2>1. accepted' = accepted /\ HandedOut = taken /\ HandedOut' = taken + 1 /\ Held > 0
    BY <1>2 DEF ReadLoad, HandedOut, FifoInv, FifoSomething
  <2>2. HandedOut < accepted
    BY <1>0, <2>1 DEF Held
  <2> QED
    BY <1>0, <2>1, <2>2 DEF FifoStream!Deliver
<1>3. CASE Flush
  <2>1. accepted' = accepted /\ HandedOut' = accepted /\ got' = accepted
    BY <1>3 DEF Flush, HandedOut
  <2> QED
    BY <2>1 DEF FifoStream!Discard
<1>4. CASE WriteTest \/ WriteStore \/ ReadTest \/ UNCHANGED fifoVars
  BY <1>4 DEF WriteTest, WriteStore, ReadTest, fifoVars, HandedOut
<1>5. CASE ReadAdvance
  BY <1>5 DEF ReadAdvance, HandedOut
<1> QED
  BY <1>1, <1>2, <1>3, <1>4, <1>5 DEF FifoNext

\* Interrupt against main loop: for every interleaving of the three accesses of a
\* write with those of a read and with flushes, the FIFO implements the abstract byte
\* stream until it overflows.
THEOREM FifoRefinement == FifoSpec => FifoImplementsStream
<1>1. FifoInit => FifoStream!Init
  BY DEF FifoInit, FifoStream!Init, HandedOut
<1>2. (overflowed \/ FifoInv) /\ (overflowed \/ FifoInv)' /\ [FifoNext]_fifoVars
        => [FifoStream!Next \/ overflowed']_(FifoStream!vars)
  <2>1. overflowed /\ [FifoNext]_fifoVars => overflowed'
    BY DEF FifoNext, WriteTest, WriteStore, WritePublish, ReadTest, ReadLoad,
           ReadAdvance, Flush, fifoVars
  <2> QED
    BY <2>1, FifoStepRefines
<1> QED
  BY <1>1, <1>2, FifoInvariant, PTL DEF FifoSpec, FifoImplementsStream
=============================================================================
