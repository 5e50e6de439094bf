--------------------------- MODULE CircularBuffer ---------------------------
(***************************************************************************)
(* The byte ring of util/no_os_circular_buffer.c, used between one writer  *)
(* and one reader.  Each side runs either a blocking call (no_os_cb_write, *)
(* no_os_cb_read) or an asynchronous transaction (no_os_cb_prepare_async_x  *)
(* followed later by no_os_cb_end_async_x).  A step is one access to state *)
(* that the other side also uses, so that a call may be interrupted        *)
(* between any two of them; Preemptible says whose calls can be.           *)
(* Abandons says whose caller may never end a transaction it has started,  *)
(* as iio_call_submit does when read_dev or write_dev fails.               *)
(*                                                                         *)
(* A byte is represented by its position in the written stream, 1, 2, ...  *)
(* and 0 stands for the zeroed memory of no_os_calloc.                     *)
(***************************************************************************)
EXTENDS Integers

CONSTANTS
  Size,         \* desc->size
  SpinMod,      \* range of the uint32_t spin_count (2^32 in the code)
  MaxRequest,   \* bound: largest request of a caller, in bytes
  MaxBytes,     \* bound: length of the written stream
  Preemptible,  \* the sides whose calls the other side can interrupt
  Checked,      \* callers ask no_os_cb_size first, as iio.c does
  Abandons      \* the sides that may leave a transaction open for good

ASSUME SizeAssumption == Size \in Nat \ {0}
ASSUME SpinAssumption == SpinMod \in Nat /\ SpinMod > 1
ASSUME BoundAssumption == MaxRequest \in Nat /\ MaxBytes \in Nat
ASSUME ModeAssumption ==
         /\ Preemptible \subseteq {"writer", "reader"}
         /\ Abandons \subseteq {"writer", "reader"}
         /\ Checked \in BOOLEAN

VARIABLES
  write, read,   \* struct no_os_cb_ptr
  buff,          \* the memory behind desc->buff
  w, r,          \* the call or transaction each side is in
  nb_spins,      \* reader: local of no_os_cb_size
  avail,         \* reader: *size of no_os_cb_size
  overrun,       \* reader: no_os_cb_size returned -NO_OS_EOVERRUN
  chunk, off,    \* reader: available_size and buff of no_os_cb_operation
  sticky,        \* reader: sticky_overrun of no_os_cb_operation
  ret,           \* reader: result of the last call
  wtotal,        \* history: bytes committed by the writer
  rtotal,        \* history: stream position of the read pointer
  out,           \* history: the last byte copied to the reader's caller
  abandoned      \* history: the sides that left a transaction open

ring == <<write, read, buff>>
locals == <<nb_spins, avail, overrun, chunk, off, sticky, ret>>
history == <<wtotal, rtotal, out, abandoned>>
vars == <<ring, w, r, locals, history>>

Indices == 0 .. Size - 1
MinOf(a, b) == IF a < b THEN a ELSE b

\* struct no_os_cb_ptr
CbPtr == [idx : Indices, spin_count : 0 .. SpinMod - 1,
          async_started : BOOLEAN, async_size : 0 .. Size]

Ptr(idx, spin_count, async_started, async_size) ==
  [idx |-> idx, spin_count |-> spin_count, async_started |-> async_started,
   async_size |-> async_size]

\* blocking: inside no_os_cb_operation; left: its size - i; done: bytes of
\* the current chunk already copied.
Call(pc, blocking, left, done) ==
  [pc |-> pc, blocking |-> blocking, left |-> left, done |-> done]

WPc == {"idle", "prepare", "copy", "end"}
RPc == {"idle", "spins", "size", "resync", "resync_idx", "prepare", "copy",
        "end"}

\* no_os_cb_init (and no_os_cb_cfg): everything is zeroed.
Init ==
  /\ write = Ptr(0, 0, FALSE, 0)
  /\ read = Ptr(0, 0, FALSE, 0)
  /\ buff = [i \in Indices |-> 0]
  /\ w = Call("idle", FALSE, 0, 0)
  /\ r = Call("idle", FALSE, 0, 0)
  /\ nb_spins = 0
  /\ avail = 0
  /\ overrun = FALSE
  /\ chunk = 0
  /\ off = 0
  /\ sticky = FALSE
  /\ ret = "none"
  /\ wtotal = 0
  /\ rtotal = 0
  /\ out = 0
  /\ abandoned = {}

-----------------------------------------------------------------------------
\* A side is outside every call when idle, or while the caller (a DMA engine)
\* owns the block of an asynchronous transaction.
OutsideCall(f) == f.pc = "idle" \/ (f.pc = "copy" /\ ~f.blocking)

WriterMayRun == OutsideCall(r) \/ "reader" \in Preemptible
ReaderMayRun == OutsideCall(w) \/ "writer" \in Preemptible

-----------------------------------------------------------------------------
(* no_os_cb_size *)

\* Mutant: the wrap-around is counted one short.
NbSpins_OneShort(wspin, rspin) ==
  IF wspin > rspin
  THEN wspin - rspin
  ELSE ((SpinMod - 1) - rspin + wspin) % SpinMod

\* The comparison and the uint32_t wrap-around of spin_count.
NbSpins(wspin, rspin) ==
  IF wspin > rspin
  THEN wspin - rspin
  ELSE ((SpinMod - 1) - rspin + wspin + 1) % SpinMod

\* *size before the range test; a negative value is a huge uint32_t.
RawSize(spins, widx, ridx) ==
  IF spins > 0 THEN Size + widx - ridx ELSE widx - ridx

\* Mutant: a full buffer is taken for an overrun.
IsOverrun_WhenFull(raw) == raw < 0 \/ raw >= Size

IsOverrun(raw) == raw < 0 \/ raw > Size

\* Result of an uninterrupted call.
CbSize ==
  LET raw == RawSize(NbSpins(write.spin_count, read.spin_count),
                     write.idx, read.idx)
  IN IF IsOverrun(raw) THEN Size ELSE raw

-----------------------------------------------------------------------------
(* no_os_cb_end_async_operation, the same for both pointers *)

\* Mutant: reaching the end exactly is not a wrap.
Wraps_Strict(p) == p.idx + p.async_size > Size

Wraps(p) == p.idx + p.async_size >= Size
EndSpin(p) ==
  Ptr(p.idx, (p.spin_count + 1) % SpinMod, p.async_started, p.async_size)
\* Mutant: the index runs past the end.
EndIdx_NoWrap(p) == Ptr(p.idx + p.async_size, p.spin_count, FALSE, 0)
EndIdx(p) == Ptr((p.idx + p.async_size) % Size, p.spin_count, FALSE, 0)

-----------------------------------------------------------------------------
(* Writer *)

\* iio_write_buffer never asks for more than desc->size minus cb_size.
WriteCall(n, blocking) ==
  /\ WriterMayRun
  /\ w.pc = "idle"
  /\ wtotal + n <= MaxBytes
  /\ Checked => n <= Size - CbSize
  /\ w' = Call("prepare", blocking, n, 0)
  /\ UNCHANGED <<ring, r, locals, history>>

\* A transaction is open already: -EBUSY.  An asynchronous caller gets it;
\* no_os_cb_operation asks again at once, and nothing has changed.
WBusy ==
  /\ WriterMayRun
  /\ w.pc = "prepare"
  /\ write.async_started
  /\ w' = IF w.blocking THEN w ELSE Call("idle", w.blocking, w.left, 0)
  /\ UNCHANGED <<ring, r, locals, history>>

\* no_os_cb_prepare_async_operation with is_read = false.
WPrepare ==
  /\ WriterMayRun
  /\ w.pc = "prepare"
  /\ ~write.async_started
  /\ write' = Ptr(write.idx, write.spin_count, TRUE,
                  MinOf(w.left, Size - write.idx))
  /\ w' = Call("copy", w.blocking, w.left, 0)
  /\ UNCHANGED <<read, buff, r, locals, history>>

WCopyByte ==
  /\ WriterMayRun
  /\ w.pc = "copy"
  /\ w.done < write.async_size
  /\ buff' = [buff EXCEPT ![write.idx + w.done] = wtotal + w.done + 1]
  /\ w' = Call("copy", w.blocking, w.left, w.done + 1)
  /\ UNCHANGED <<write, read, r, locals, history>>

\* First store of no_os_cb_end_async_operation, when the index wraps.
WEndSpin ==
  /\ WriterMayRun
  /\ w.pc = "copy"
  /\ w.done = write.async_size
  /\ Wraps(write)
  /\ write' = EndSpin(write)
  /\ w' = Call("end", w.blocking, w.left, w.done)
  /\ UNCHANGED <<read, buff, r, locals, history>>

WEndIdx ==
  /\ WriterMayRun
  /\ \/ w.pc = "end"
     \/ w.pc = "copy" /\ w.done = write.async_size /\ ~Wraps(write)
  /\ write' = EndIdx(write)
  /\ wtotal' = wtotal + write.async_size
  /\ w' = Call(IF w.blocking /\ w.left > write.async_size
               THEN "prepare" ELSE "idle",
               w.blocking, w.left - write.async_size, 0)
  /\ UNCHANGED <<read, buff, r, locals, rtotal, out, abandoned>>

\* The caller of an asynchronous write fails and returns without
\* no_os_cb_end_async_write.
WAbandon ==
  /\ WriterMayRun
  /\ "writer" \in Abandons
  /\ w.pc = "copy"
  /\ ~w.blocking
  /\ w' = Call("idle", w.blocking, w.left, 0)
  /\ abandoned' = abandoned \cup {"writer"}
  /\ UNCHANGED <<ring, r, locals, wtotal, rtotal, out>>

-----------------------------------------------------------------------------
(* Reader *)

\* iio_read_buffer never asks for more than cb_size.
ReadCall(n, blocking) ==
  /\ ReaderMayRun
  /\ r.pc = "idle"
  /\ Checked => n <= CbSize
  /\ r' = Call("spins", blocking, n, 0)
  /\ chunk' = 0
  /\ sticky' = FALSE
  /\ ret' = "none"
  /\ UNCHANGED <<ring, w, nb_spins, avail, overrun, off, history>>

\* The same -EBUSY, found before no_os_cb_size is called.
RBusy ==
  /\ ReaderMayRun
  /\ r.pc = "spins"
  /\ read.async_started
  /\ r' = IF r.blocking THEN r ELSE Call("idle", r.blocking, r.left, 0)
  /\ ret' = IF r.blocking THEN ret ELSE "ebusy"
  /\ UNCHANGED <<ring, w, nb_spins, avail, overrun, chunk, off, sticky,
                 history>>

RSpins ==
  /\ ReaderMayRun
  /\ r.pc = "spins"
  /\ ~read.async_started
  /\ nb_spins' = NbSpins(write.spin_count, read.spin_count)
  /\ r' = Call("size", r.blocking, r.left, r.done)
  /\ UNCHANGED <<ring, w, avail, overrun, chunk, off, sticky, ret, history>>

\* The rest of no_os_cb_size, and what no_os_cb_prepare_async_operation does
\* with its results.
Raw == RawSize(nb_spins, write.idx, read.idx)

RSizeOverrun ==
  /\ IsOverrun(Raw)
  /\ avail' = Size
  /\ overrun' = TRUE
  /\ r' = Call("resync", r.blocking, r.left, r.done)
  /\ UNCHANGED ret

RSizeData ==
  /\ ~IsOverrun(Raw)
  /\ Raw # 0
  /\ avail' = Raw
  /\ overrun' = FALSE
  /\ r' = Call("prepare", r.blocking, r.left, r.done)
  /\ UNCHANGED ret

\* With no data the prepare returns 0 having started nothing, and the loop of
\* no_os_cb_operation looks at the available_size it already had.
RSizeEmpty ==
  /\ Raw = 0
  /\ avail' = 0
  /\ overrun' = FALSE
  /\ IF r.blocking /\ chunk # 0
     THEN /\ r' = Call("copy", r.blocking, r.left, 0)
          /\ UNCHANGED ret
     ELSE /\ r' = Call("idle", r.blocking, r.left, 0)
          /\ ret' = IF r.blocking THEN "error" ELSE "ok"

RSize ==
  /\ ReaderMayRun
  /\ r.pc = "size"
  /\ RSizeOverrun \/ RSizeData \/ RSizeEmpty
  /\ UNCHANGED <<ring, w, nb_spins, chunk, off, sticky, history>>

\* The read pointer is moved to the oldest byte still held: the spin counter,
\* then, in builds without IIO_IGNORE_BUFF_OVERRUN_ERR (the default), the index.
RResync ==
  /\ ReaderMayRun
  /\ r.pc = "resync"
  /\ read' = Ptr(read.idx, (write.spin_count - 1 + SpinMod) % SpinMod,
                 read.async_started, read.async_size)
  /\ r' = Call("resync_idx", r.blocking, r.left, r.done)
  /\ UNCHANGED <<write, buff, w, locals, history>>

\* Mutant: the read index is not moved.
RResyncIdx_Kept ==
  /\ ReaderMayRun
  /\ r.pc = "resync_idx"
  /\ rtotal' = wtotal - Size
  /\ r' = Call("prepare", r.blocking, r.left, r.done)
  /\ UNCHANGED <<ring, w, locals, wtotal, out, abandoned>>

RResyncIdx ==
  /\ ReaderMayRun
  /\ r.pc = "resync_idx"
  /\ read' = Ptr(write.idx, read.spin_count, read.async_started,
                 read.async_size)
  /\ rtotal' = wtotal - Size
  /\ r' = Call("prepare", r.blocking, r.left, r.done)
  /\ UNCHANGED <<write, buff, w, locals, wtotal, out, abandoned>>

\* A request of 0 bytes (asynchronous only) is -EAGAIN.
RPrepareNothing ==
  /\ ReaderMayRun
  /\ r.pc = "prepare"
  /\ MinOf(r.left, avail) = 0
  /\ r' = Call("idle", r.blocking, r.left, 0)
  /\ ret' = "eagain"
  /\ UNCHANGED <<ring, w, nb_spins, avail, overrun, chunk, off, sticky,
                 history>>

\* Mutant: the block is not cut at the end of the buffer.
RPrepare_Uncut ==
  /\ ReaderMayRun
  /\ r.pc = "prepare"
  /\ MinOf(r.left, avail) # 0
  /\ chunk' = MinOf(r.left, avail)
  /\ off' = read.idx
  /\ read' = Ptr(read.idx, read.spin_count, TRUE, chunk')
  /\ r' = Call("copy", r.blocking, r.left, 0)
  /\ sticky' = (sticky \/ overrun)
  /\ ret' = IF r.blocking THEN "none" ELSE IF overrun THEN "eoverrun" ELSE "ok"
  /\ UNCHANGED <<write, buff, w, nb_spins, avail, overrun, history>>

RPrepare ==
  /\ ReaderMayRun
  /\ r.pc = "prepare"
  /\ MinOf(r.left, avail) # 0
  /\ chunk' = MinOf(MinOf(r.left, avail), Size - read.idx)
  /\ off' = read.idx
  /\ read' = Ptr(read.idx, read.spin_count, TRUE, chunk')
  /\ r' = Call("copy", r.blocking, r.left, 0)
  /\ sticky' = (sticky \/ overrun)
  /\ ret' = IF r.blocking THEN "none" ELSE IF overrun THEN "eoverrun" ELSE "ok"
  /\ UNCHANGED <<write, buff, w, nb_spins, avail, overrun, history>>

RCopyByte ==
  /\ ReaderMayRun
  /\ r.pc = "copy"
  /\ r.done < chunk
  /\ out' = buff[off + r.done]
  /\ r' = Call("copy", r.blocking, r.left, r.done + 1)
  /\ UNCHANGED <<ring, w, locals, wtotal, rtotal, abandoned>>

REndSpin ==
  /\ ReaderMayRun
  /\ r.pc = "copy"
  /\ r.done = chunk
  /\ read.async_started
  /\ Wraps(read)
  /\ read' = EndSpin(read)
  /\ r' = Call("end", r.blocking, r.left, r.done)
  /\ UNCHANGED <<write, buff, w, locals, history>>

\* Mutant: i is not advanced.
NextChunk_Stuck ==
  /\ r' = Call(IF r.blocking THEN "spins" ELSE "idle", r.blocking, r.left, 0)
  /\ UNCHANGED <<ret, nb_spins, avail, overrun, chunk, off, sticky>>

\* i += available_size, then the loop condition of no_os_cb_operation.
NextChunk ==
  /\ r' = Call(IF r.blocking /\ r.left > chunk THEN "spins" ELSE "idle",
               r.blocking, r.left - chunk, 0)
  /\ ret' = IF ~r.blocking \/ r.left > chunk THEN ret
            ELSE IF sticky THEN "eoverrun" ELSE "ok"
  /\ UNCHANGED <<nb_spins, avail, overrun, chunk, off, sticky>>

REndIdx ==
  /\ ReaderMayRun
  /\ \/ r.pc = "end"
     \/ /\ r.pc = "copy" /\ r.done = chunk
        /\ read.async_started /\ ~Wraps(read)
  /\ read' = EndIdx(read)
  /\ rtotal' = rtotal + read.async_size
  /\ NextChunk
  /\ UNCHANGED <<write, buff, w, wtotal, out, abandoned>>

\* no_os_cb_end_async_operation returns -1, which no_os_cb_operation ignores.
REndNotStarted ==
  /\ ReaderMayRun
  /\ r.pc = "copy"
  /\ r.done = chunk
  /\ ~read.async_started
  /\ NextChunk
  /\ UNCHANGED <<ring, w, history>>

\* The caller of an asynchronous read returns without no_os_cb_end_async_read.
RAbandon ==
  /\ ReaderMayRun
  /\ "reader" \in Abandons
  /\ r.pc = "copy"
  /\ ~r.blocking
  /\ r' = Call("idle", r.blocking, r.left, 0)
  /\ abandoned' = abandoned \cup {"reader"}
  /\ UNCHANGED <<ring, w, locals, wtotal, rtotal, out>>

-----------------------------------------------------------------------------
\* no_os_cb_write and no_os_cb_read refuse a size of 0.
StartWrite ==
  \E n \in 0 .. MaxRequest, blocking \in BOOLEAN :
    (blocking => n > 0) /\ WriteCall(n, blocking)

StartRead ==
  \E n \in 0 .. MaxRequest, blocking \in BOOLEAN :
    (blocking => n > 0) /\ ReadCall(n, blocking)

WriterStep == WPrepare \/ WCopyByte \/ WEndSpin \/ WEndIdx
ReaderStep == \/ RSpins \/ RSize \/ RResync \/ RResyncIdx
              \/ RPrepareNothing \/ RPrepare \/ RCopyByte
              \/ REndSpin \/ REndIdx \/ REndNotStarted

Busy == WBusy \/ RBusy
Abandon == WAbandon \/ RAbandon

Next == StartWrite \/ StartRead \/ WriterStep \/ ReaderStep \/ Busy \/ Abandon

Spec == Init /\ [][Next]_vars

\* A started call runs on: its thread or interrupt handler has a processor.
FairSpec ==
  Spec /\ WF_vars(WriterStep \/ WBusy) /\ WF_vars(ReaderStep \/ RBusy)
-----------------------------------------------------------------------------
(* Properties *)

RingType ==
  /\ write \in CbPtr
  /\ read \in CbPtr
  /\ buff \in [Indices -> Nat]

CallType ==
  /\ w \in [pc : WPc, blocking : BOOLEAN, left : 0 .. MaxRequest,
            done : 0 .. Size]
  /\ r \in [pc : RPc, blocking : BOOLEAN, left : Int, done : 0 .. Size]

LocalType ==
  /\ nb_spins \in 0 .. SpinMod - 1
  /\ avail \in 0 .. Size
  /\ chunk \in 0 .. Size
  /\ off \in Indices

FlagType ==
  /\ overrun \in BOOLEAN
  /\ sticky \in BOOLEAN
  /\ ret \in {"none", "ok", "eagain", "ebusy", "eoverrun", "error"}

HistoryType ==
  /\ wtotal \in Nat /\ rtotal \in Int /\ out \in Nat
  /\ abandoned \subseteq Abandons

\* Every index, counter and local stays in its range.
TypeOK == RingType /\ CallType /\ LocalType /\ FlagType /\ HistoryType

\* However the two sides interrupt each other, and even when the size a
\* reader computed is wrong, no memcpy and no block handed to a DMA engine
\* reaches outside the memory of the buffer.
InBounds ==
  /\ w.pc = "copy" => write.idx + write.async_size <= Size
  /\ r.pc = "copy" => off + chunk <= Size

\* Between calls no_os_cb_size is exactly the number of committed bytes the
\* reader has not yet released, across index wrap-around and across the
\* wrap-around of the 32-bit spin counters.
SizeExact ==
  OutsideCall(w) /\ OutsideCall(r) => CbSize = wtotal - rtotal

\* Stream position of the last byte handed to the reader.
Delivered == rtotal + (IF r.pc \in {"copy", "end"} THEN r.done ELSE 0)

\* The bytes handed to the reader are the written stream: none is lost,
\* repeated, reordered or taken from memory not yet written.
ReadInOrder == out = Delivered

\* The bytes visible to the reader are those of committed writes.
Stream == INSTANCE ByteStream WITH Capacity <- Size, Flushed <- FALSE,
            sent <- wtotal, rcvd <- Delivered, last <- out

\* Used one call at a time by callers that ask no_os_cb_size first, the ring
\* implements the abstract byte stream.
ImplementsStream == Stream!Spec

\* no_os_cb_read reports -NO_OS_EOVERRUN, and drops what was not read, only
\* if the writer really has overwritten unread bytes (its open transaction
\* counted in).
NoSpuriousOverrun ==
  r.pc = "resync" => wtotal + write.async_size - rtotal > Size

\* After an overrun a blocking read continues with the oldest byte the ring
\* still holds.
ResyncOldest ==
  (r.pc = "copy" /\ overrun /\ r.blocking /\ r.done = 0 /\ w.pc = "idle")
    => buff[off] = wtotal - Size + 1

\* no_os_cb_size documents "-NO_OS_EOVERRUN - A buffer overrun occurred": a
\* reader that goes on without it has lost nothing.
OverrunReported ==
  (r.pc = "prepare" /\ ~overrun) => wtotal - rtotal <= Size

\* no_os_cb_read never hands out more bytes than its caller has room for.
NeverMoreThanAsked == r.left >= 0

\* no_os_cb_prepare_async_read documents 0 as success and -EAGAIN as "No data
\* available at this moment": with 0 the caller has been given a block.
AsyncReadStarted ==
  (ret = "ok" /\ ~r.blocking /\ r.left > 0) => chunk > 0

\* Every call returns, with one exception that it names: a blocking call on a
\* side whose caller once left a transaction open.  No interleaving of the two
\* sides makes the loop of no_os_cb_operation run for ever otherwise, and an
\* asynchronous call returns even then, with -EBUSY.
CallsReturn ==
  /\ ~OutsideCall(w) ~> OutsideCall(w) \/ (w.blocking /\ "writer" \in abandoned)
  /\ ~OutsideCall(r) ~> OutsideCall(r) \/ (r.blocking /\ "reader" \in abandoned)

\* no_os_cb_write and no_os_cb_read document 0, -EINVAL and -NO_OS_EOVERRUN as
\* their results, and no wait for a transaction: every call returns.
EveryCallReturns ==
  /\ ~OutsideCall(w) ~> OutsideCall(w)
  /\ ~OutsideCall(r) ~> OutsideCall(r)
=============================================================================
